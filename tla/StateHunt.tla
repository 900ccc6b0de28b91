------------------------------- MODULE StateHunt -------------------------------
(***************************************************************************)
(* tools/validation_states/statehunt.py and stagehunt.py: a hunt plays the *)
(* story mode, saves a rolling pair of states, and when a surface appears  *)
(* banks one of the pair as a state from before it.                        *)
(***************************************************************************)
EXTENDS Integers, FiniteSets

CONSTANTS Groups,     \* the dialogue groups hunted for
          HuntTicks   \* bound: turns of the poll loop before the deadline

ASSUME HuntAssumption == HuntTicks \in Nat /\ IsFiniteSet(Groups)

Tools == {"statehunt", "stagehunt"}
Slots == {0, 1}

(* A state file: the surfaces that were up when it was saved.  Files of an *)
(* earlier hunt may lie at the paths this one rolls through.               *)
NoFile == [by |-> "nobody", shown |-> {}]
Saved(shown) == [by |-> "this hunt", shown |-> shown]
Stale == [by |-> "earlier hunt", shown |-> Groups]

VARIABLES huntPc,     \* "idle", "poll", "save", "done"
          huntTool,
          shown,      \* the guest: surfaces on screen, or staged in WRAM
          ticks,      \* turns left before the deadline
          roll,       \* roll
          rolling,    \* rolling (roll_ok): slots that hold a path
          disk,       \* the files at the two rolling paths
          seen,       \* seen: sets of groups; done: groups
          banked,     \* the states promoted: [group, file]
          huntExit

huntVars == <<huntPc, huntTool, shown, ticks, roll, rolling, disk, seen, banked,
              huntExit>>

HuntStart(tool, files) ==
    /\ huntPc = "poll" /\ huntTool = tool
    /\ shown = {} /\ ticks = HuntTicks
    /\ roll = 0 /\ rolling = {} /\ disk \in [Slots -> files]
    /\ seen = {} /\ banked = {} /\ huntExit = "none"

HuntInit == \E tool \in Tools : HuntStart(tool, {NoFile, Stale})

HuntIdle ==
    /\ huntPc = "idle" /\ huntTool = "statehunt"
    /\ shown = {} /\ ticks = 0 /\ roll = 0 /\ rolling = {}
    /\ disk = [s \in Slots |-> NoFile]
    /\ seen = {} /\ banked = {} /\ huntExit = "none"

(* The guest runs on between any two commands: a scene copies or draws its *)
(* text, another one clears it.                                            *)
SurfaceAppears(g) ==
    /\ huntPc \in {"poll", "save"} /\ g \notin shown
    /\ shown' = shown \cup {g}
    /\ UNCHANGED <<huntPc, huntTool, ticks, roll, rolling, disk, seen, banked, huntExit>>
SurfaceClears(g) ==
    /\ huntPc \in {"poll", "save"} /\ g \in shown
    /\ shown' = shown \ {g}
    /\ UNCHANGED <<huntPc, huntTool, ticks, roll, rolling, disk, seen, banked, huntExit>>

\* The rolling state a sighting promotes, if there is one.
Promotable == 1 - roll \in rolling /\ disk[1 - roll] # NoFile
Promoted(groups) ==
    IF Promotable THEN {[group |-> g, file |-> disk[1 - roll]] : g \in groups} ELSE {}

(* statehunt's dump: a set of lines not seen before is logged, and banked  *)
(* under the first of its groups, whether or not a state was there.        *)
PollScreen ==
    /\ huntPc = "poll" /\ huntTool = "statehunt" /\ ticks > 0
    /\ IF shown = {} \/ shown \in seen
       THEN UNCHANGED <<seen, banked>>
       ELSE /\ seen' = seen \cup {shown}
            /\ \E g \in shown : banked' = banked \cup Promoted({g})
    /\ huntPc' = "save" /\ ticks' = ticks - 1
    /\ UNCHANGED <<huntTool, shown, roll, rolling, disk, huntExit>>

(* stagehunt's dump: every staged group not done yet is banked, and stays  *)
(* to be done when there is no state to promote.                           *)
PollStaging ==
    /\ huntPc = "poll" /\ huntTool = "stagehunt" /\ ticks > 0 /\ seen # Groups
    /\ LET new == shown \ seen
       IN /\ banked' = banked \cup Promoted(new)
          /\ seen' = IF Promotable THEN seen \cup new ELSE seen
    /\ huntPc' = "save" /\ ticks' = ticks - 1
    /\ UNCHANGED <<huntTool, shown, roll, rolling, disk, huntExit>>

(* Every eight seconds, and on the first turn, the loop saves into the     *)
(* slot of roll; a refused save leaves the slot as it was.  roll flips     *)
(* either way.                                                             *)
SaveRolling_Unacknowledged(ok) ==   \* a refused save counts as one
    /\ huntPc = "save"
    /\ disk' = IF ok THEN [disk EXCEPT ![roll] = Saved(shown)] ELSE disk
    /\ rolling' = rolling \cup {roll}
    /\ roll' = 1 - roll
    /\ huntPc' = "poll"
    /\ UNCHANGED <<huntTool, shown, ticks, seen, banked, huntExit>>
SaveRolling(ok) ==
    /\ huntPc = "save"
    /\ disk' = IF ok THEN [disk EXCEPT ![roll] = Saved(shown)] ELSE disk
    /\ rolling' = IF ok THEN rolling \cup {roll} ELSE rolling
    /\ roll' = 1 - roll
    /\ huntPc' = "poll"
    /\ UNCHANGED <<huntTool, shown, ticks, seen, banked, huntExit>>
NotYetDue ==
    /\ huntPc = "save" /\ ticks < HuntTicks - 1
    /\ huntPc' = "poll"
    /\ UNCHANGED <<huntTool, shown, ticks, roll, rolling, disk, seen, banked, huntExit>>

\* The loop's condition fails; stagehunt reports whether every group is done.
HuntEnds ==
    /\ huntPc = "poll"
    /\ ticks = 0 \/ (huntTool = "stagehunt" /\ seen = Groups)
    /\ huntPc' = "done"
    /\ huntExit' = IF huntTool = "statehunt" \/ seen = Groups THEN "0" ELSE "1"
    /\ UNCHANGED <<huntTool, shown, ticks, roll, rolling, disk, seen, banked>>

\* A reply cut short raises out of the loop; what is banked stays.
HuntRaises ==
    /\ huntPc \in {"poll", "save"}
    /\ huntPc' = "done" /\ huntExit' = "1"
    /\ UNCHANGED <<huntTool, shown, ticks, roll, rolling, disk, seen, banked>>

HuntNext ==
    \/ \E g \in Groups : SurfaceAppears(g) \/ SurfaceClears(g)
    \/ PollScreen \/ PollStaging
    \/ \E ok \in BOOLEAN : SaveRolling(ok)
    \/ NotYetDue \/ HuntEnds \/ HuntRaises

HuntSpec == HuntInit /\ [][HuntNext]_huntVars

(***************************************************************************)
(* Properties                                                              *)
(***************************************************************************)
(* What a hunt banks is a state this hunt saved and the engine             *)
(* acknowledged, never what an earlier hunt left at the same path; and a   *)
(* stagehunt that exits 0 banked one for every group, exactly once, also   *)
(* when saves were refused or a group was staged before the first save     *)
(* (stagehunt.py:64-100).                                                  *)
HuntBanksItsOwn ==
    /\ \A b \in banked : b.file.by = "this hunt"
    /\ huntTool = "stagehunt" /\ huntExit = "0" =>
         \A g \in Groups : Cardinality({b \in banked : b.group = g}) = 1
===============================================================================
