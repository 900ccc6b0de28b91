------------------------------ MODULE GameRtl ------------------------------
(***************************************************************************)
(* The host side of one guest machine, game_rtl.c: where the next frame    *)
(* resumes, which cursor to fall back to, and the sprite table the picture *)
(* is drawn from.  The three travel in a chunk of their own beside the     *)
(* machine in every snapshot: save files, rewind, rollback and run-ahead   *)
(* all save and load through it.                                           *)
(*                                                                         *)
(* The guest and the engine that runs it are external: a run returns any   *)
(* cursor.  A guest is identified by the field it is in.                   *)
(***************************************************************************)
EXTENDS Integers

CONSTANTS
  Code,          \* cursors that cpu_pc24_resumable accepts
  Wild,          \* cursors that it refuses
  Zero,          \* the cursor of a machine that has not booted
  Mmio,          \* where GAME_FORCE_BAD_RESUME_PC points
  ResetVector,   \* what $FFFC holds
  Slot,          \* the snapshots that exist at a time
  FieldMax       \* bound: fields that the guest's memory goes through

Cursor == Code \union Wild

ASSUME GameRtlAssumption ==
  /\ Code \intersect Wild = {}
  /\ Zero \in Wild /\ Mmio \in Wild /\ ResetVector \in Cursor
  /\ FieldMax \in Nat \ { 0 }

VARIABLES
  knob,    \* GAME_FORCE_BAD_RESUME_PC and _STICKY
  host,    \* the statics of game_rtl.c
  guest,   \* external: the machine
  cpu,     \* external: the field of the CPU, bridge, APU and scheduler state
  entry,   \* the cursor the last frame entered the guest at, and why
  lost,    \* what the loads that led here did not bring along
  store    \* the snapshots

vars == << knob, host, guest, cpu, entry, lost, store >>

Fields == 0 .. FieldMax

(* cpu_state_init: the CPU is about to be entered at the reset vector. *)
AtReset == -1

(* lost: a chunk that is refused brings neither the cursor nor the execution
   state beside the machine; one whose execution state cannot be read brings
   the cursor alone. *)
Parts == { "cursor", "execution" }

(* host: g_resume_pc, g_last_good_resume_pc, g_booted, and the scanout latch
   with the field its sprite table belongs to. *)
Hosts == [ resume : Cursor, lastGood : Cursor, booted : BOOLEAN,
           latch : Fields, valid : BOOLEAN ]

(* guest: the field whose background is in VRAM, and the cursors at which
   this timeline has stopped since it booted, the last of them apart.  The
   live sprite table is the next field's: the pose DMA runs from the raster
   interrupt near the bottom of the screen. *)
Guests == [ field : Fields, stop : Cursor, trail : SUBSET Cursor ]
LiveSprites(g) == g.field + 1

Cpus == Fields \union { AtReset }

Snapshots == [ host : Hosts, guest : Guests, cpu : Cpus, lost : SUBSET Parts ]
NoSnapshot == [ lost |-> Parts ]

Resumable(pc) == pc \in Code

-----------------------------------------------------------------------------
(* What GameSessionReset leaves. *)
Cold(h) == [ resume |-> Zero, lastGood |-> Zero, booted |-> FALSE, latch |-> 0,
             valid |-> FALSE ]

(* SnesInit clears no guest memory: what is in VRAM and OAM stays in them. *)
NewGuest(field) == [ field |-> field, stop |-> Zero, trail |-> {} ]

Init ==
  /\ knob \in { "off", "bad", "sticky" }
  /\ host = [ resume |-> Zero, lastGood |-> Zero, booted |-> FALSE, latch |-> 0,
              valid |-> FALSE ]
  /\ guest = NewGuest(0)
  /\ cpu = AtReset
  /\ entry = [ pc |-> Zero, how |-> "none" ]
  /\ lost = {}
  /\ store = [ s \in Slot |-> NoSnapshot ]

(* game_force_bad_resume_pc. *)
Forced(h) == [ h EXCEPT !.resume = Mmio,
                        !.lastGood = IF knob = "sticky" THEN Mmio ELSE @ ]

(* game_set_resume_pc. *)
WithResume(h, pc) == [ h EXCEPT !.resume = pc,
                                !.lastGood = IF Resumable(pc) THEN pc ELSE @ ]

(* Mutant: a booted machine resumes wherever the cursor points. *)
Entry_Unchecked(h) ==
  IF h.booted THEN [ pc |-> h.resume, how |-> "resume" ]
              ELSE [ pc |-> ResetVector, how |-> "boot" ]

(* The head of GameRunOneFrame: the cursor, the last good one, or a boot. *)
Entry(h) ==
  CASE h.booted /\ Resumable(h.resume) ->
         [ pc |-> h.resume, how |-> "resume" ]
    [] h.booted /\ ~Resumable(h.resume) /\ Resumable(h.lastGood) ->
         [ pc |-> h.lastGood, how |-> "recover" ]
    [] OTHER ->
         [ pc |-> ResetVector, how |-> "boot" ]

(* GameRunOneFrame.  The interrupt handlers and the runs between them each
   hand back a cursor; the first and the last of them stand for all.  The
   latch is taken between the NMI and the first run. *)
RunFrame ==
  /\ guest.field < FieldMax
  /\ \E force \in BOOLEAN, first, last \in Cursor :
       LET h == IF force THEN Forced(host) ELSE host
       IN /\ force => knob # "off" /\ host.booted
          /\ entry' = Entry(h)
          /\ host' = [ WithResume(WithResume(h, first), last) EXCEPT
                         !.booted = TRUE,
                         !.latch = LiveSprites(guest), !.valid = TRUE ]
          /\ guest' = [ field |-> guest.field + 1, stop |-> last,
                        trail |-> { first, last } \union
                                  IF Entry(h).how = "boot" THEN {} ELSE guest.trail ]
          /\ cpu' = guest.field + 1
  /\ UNCHANGED << knob, lost, store >>

(* GameStateSaveExtra, beside the machine the engine saves. *)
Save(s) ==
  /\ store' = [ store EXCEPT
       ![s] = [ host |-> host, guest |-> guest, cpu |-> cpu, lost |-> lost ] ]
  /\ UNCHANGED << knob, host, guest, cpu, entry, lost >>

-----------------------------------------------------------------------------
(* The chunk is ignored when its cursor cannot be code. *)
Refused(snap) == snap.host.booted /\ ~Resumable(snap.host.resume)

(* Mutant: the latch is taken for presentation and left out of the chunk. *)
LoadedExtra_NoLatch(h, snap) ==
  IF Refused(snap) THEN h
  ELSE [ h EXCEPT !.resume = snap.host.resume, !.booted = snap.host.booted ]

(* GameStateLoadExtra. *)
LoadedExtra(h, snap) ==
  IF Refused(snap) THEN h
  ELSE [ snap.host EXCEPT !.lastGood = h.lastGood ]

(* Mutant: the fallback stays the one of the timeline that was left. *)
StateLoaded_GoodKept(h) == h

(* GameOnStateLoaded. *)
StateLoaded(h) == [ h EXCEPT !.lastGood = h.resume ]

(* Mutant: the execution state is read and never applied. *)
LoadedCpu_NotApplied(snap, read) == cpu

(* RtlLoadExecutionState, which says whether it could read one, and
   RtlApplyExecutionState, which is called only when it could. *)
LoadedCpu(snap, read) == IF Refused(snap) \/ ~read THEN cpu ELSE snap.cpu

LostBy(snap, read) ==
  IF Refused(snap) THEN Parts
  ELSE snap.lost \union IF read THEN {} ELSE { "execution" }

(* The engine loads the machine, then calls the two hooks. *)
Load(s) ==
  /\ store[s] # NoSnapshot
  /\ guest' = store[s].guest
  /\ host' = StateLoaded(LoadedExtra(host, store[s]))
  /\ \E read \in BOOLEAN : /\ cpu' = LoadedCpu(store[s], read)
                          /\ lost' = LostBy(store[s], read)
  /\ UNCHANGED << knob, entry, store >>

(* Mutant: g_cpu is left to the new session as it is. *)
SessionReset_CpuKept ==
  /\ host' = Cold(host)
  /\ guest' = NewGuest(guest.field)
  /\ entry' = [ pc |-> Zero, how |-> "none" ]
  /\ lost' = {}
  /\ UNCHANGED << knob, cpu, store >>

(* GameSessionReset and the new machine.  Save files outlive the session. *)
SessionReset ==
  /\ host' = Cold(host)
  /\ guest' = NewGuest(guest.field)
  /\ cpu' = AtReset
  /\ entry' = [ pc |-> Zero, how |-> "none" ]
  /\ lost' = {}
  /\ UNCHANGED << knob, store >>

Next == RunFrame \/ SessionReset \/ \E s \in Slot : Save(s) \/ Load(s)

Spec == Init /\ [][Next]_vars

-----------------------------------------------------------------------------
(* GameDrawPpuFrame: the field whose sprites the picture shows. *)
DrawnSprites == IF host.valid THEN host.latch ELSE LiveSprites(guest)

TypeOK ==
  /\ knob \in { "off", "bad", "sticky" }
  /\ host \in Hosts
  /\ guest \in Guests
  /\ cpu \in Cpus
  /\ entry \in [ pc : Code \union { Zero, ResetVector },
                 how : { "none", "boot", "resume", "recover" } ]
  /\ lost \subseteq Parts
  /\ store \in [ Slot -> Snapshots \union { NoSnapshot } ]

(* game_rtl.c:635: without the hooks "a rewind ... left the resume PC on the
   timeline it had just discarded".  Whatever was saved, loaded, rewound or
   forced before, a frame enters the guest at the reset vector or at a cursor
   where this guest's own timeline has stopped, in this session; an execution
   state that could not be read does not change that.  A chunk refused whole
   is left out: the code keeps its own cursor over the restored machine. *)
OnOwnTimeline ==
  "cursor" \notin lost /\ host.booted =>
    \A pc \in { host.resume, host.lastGood } : Resumable(pc) => pc \in guest.trail

(* Cursor, execution state and machine are of one moment, as far as each of
   them came along: the cursor even if the execution state did not, and the
   execution state if both did. *)
OneMoment ==
  /\ "cursor" \notin lost => host.resume = guest.stop
  /\ host.booted /\ "execution" \notin lost => cpu = guest.field

(* game_rtl.c:656: a speculative frame "overwrote the latch with the NEXT
   field's OAM", and the player saw sprites "one field ahead of its own
   background".  Every picture pairs the two, also after any load. *)
SpritesMatchBackground ==
  host.booted /\ "cursor" \notin lost => DrawnSprites = guest.field

(* GameSessionReset, "clear anything that must not survive a new session", as
   far as it goes: the host's cursors and latch and the CPU of a machine that
   has not booted are those of the first start of the process, whatever was
   played, saved and loaded before.  The guest's memory is not: it comes out of
   the session before as it was (game_rtl.c:800). *)
HostStartsCold ==
  ~host.booted => /\ host.resume = Zero /\ host.lastGood = Zero /\ ~host.valid
                  /\ "execution" \notin lost => cpu = AtReset
=============================================================================
