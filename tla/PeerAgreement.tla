--------------------------- MODULE PeerAgreement ---------------------------
(***************************************************************************)
(* Copies of the program in one lobby room, match after match.  The room's *)
(* host publishes its margin once (GwedFillMatchCaps) or an automatch      *)
(* ruleset prescribes one; every peer receives it with its launch result,  *)
(* pins its frame to it and decides on its own whether to patch its guest. *)
(* No peer ever sees another's decision: that the guests run the same code *)
(* has to follow from what each one knows.                                 *)
(*                                                                         *)
(* The lobby server and the netplay library are external.  A peer's        *)
(* session is SessionHost's; here it is cut to what the decision reads.    *)
(***************************************************************************)
EXTENDS WsPatch

CONSTANTS
  Peer,       \* the copies of the program
  Starts      \* how they may have been started: a set of [Peer -> Setting]

Setting == [ override : Peers, killed : BOOLEAN, rom : { Short, Foreign, Vanilla } ]

ASSUME PeerAgreementAssumption == Starts \subseteq [ Peer -> Setting ]

VARIABLES
  start,     \* the environment of every process, fixed for its life
  stage,     \* where each process is
  sel,       \* the Mods page selects widescreen
  wide,      \* s_widescreen_enabled: the selection as of this boot
  netPin,    \* s_net_ws_extra
  wsExtra,   \* g_ws_extra
  caps,      \* g_netplay_caps_ws_extra
  active,    \* g_netplay_active_session
  patch,     \* the guest patch of each process, see WsPatch
  offered,   \* external: the room's ws_extra, NoPeer with no caps blob
  match      \* external: "none", "booting", "running"

vars == << start, stage, sel, wide, netPin, wsExtra, caps, active, patch,
           offered, match >>

Stages == { "room", "boot", "pin", "connect", "arm", "play" }

Init ==
  /\ start \in Starts
  /\ stage = [ p \in Peer |-> "room" ]
  /\ sel \in [ Peer -> BOOLEAN ]
  /\ wide = [ p \in Peer |-> FALSE ]
  /\ netPin = [ p \in Peer |-> NoPeer ]
  /\ wsExtra = [ p \in Peer |-> 0 ]
  /\ caps = [ p \in Peer |-> NoPeer ]
  /\ active = [ p \in Peer |-> FALSE ]
  /\ patch = [ p \in Peer |-> Unarmed(NoImage) ]
  /\ offered = NoPeer
  /\ match = "none"

-----------------------------------------------------------------------------
(* ClampEven, as a margin. *)
Clamp(extra) == IF extra > WsExtraMax THEN WsExtraMax ELSE extra

(* Mutant: the negotiated margin does not outrank the window. *)
Margin_OwnWindow(p, selected, pin, window) ==
  CASE ~selected                              -> 0
    [] selected /\ start[p].override >= 0     -> Clamp(start[p].override)
    [] OTHER                                  -> window

(* GwedDisplay_ComputeFrameWidth as a margin, see SessionHost!SessionMargin. *)
Margin(p, selected, pin, window) ==
  CASE ~selected                                      -> 0
    [] selected /\ start[p].override >= 0             -> Clamp(start[p].override)
    [] selected /\ start[p].override < 0 /\ pin >= 0  -> Clamp(pin)
    [] OTHER                                          -> window

(* The player toggles the package while the launcher is open. *)
Toggle(p) ==
  /\ stage[p] = "room"
  /\ sel' = [ sel EXCEPT ![p] = ~@ ]
  /\ UNCHANGED << start, stage, wide, netPin, wsExtra, caps, active, patch,
                  offered, match >>

(* GwedFillMatchCaps: the selection and whatever pin the last session left. *)
PublishCaps(p) ==
  /\ match = "none" /\ stage[p] = "room"
  /\ \E window \in Margins : offered' = Margin(p, sel[p], netPin[p], window)
  /\ UNCHANGED << start, stage, sel, wide, netPin, wsExtra, caps, active, patch,
                  match >>

(* External: an automatch ruleset prescribes the caps, or a host of an older
   version publishes none. *)
OtherCaps ==
  /\ match = "none"
  /\ offered' \in Peers
  /\ UNCHANGED << start, stage, sel, wide, netPin, wsExtra, caps, active, patch,
                  match >>

(* The lobby launches: every peer's launch result carries the room's caps. *)
Launch ==
  /\ match = "none" /\ \A p \in Peer : stage[p] = "room"
  /\ caps' = [ p \in Peer |-> offered ]
  /\ stage' = [ p \in Peer |-> "boot" ]
  /\ match' = "booting"
  /\ UNCHANGED << start, sel, wide, netPin, wsExtra, active, patch, offered >>

(* A peer between matches plays offline: its own session, and the pin it
   leaves, are all that the next match can see of it. *)
PlayOffline(p) ==
  /\ stage[p] = "room"
  /\ netPin' = [ netPin EXCEPT ![p] = IF active[p] THEN caps[p] ELSE NoPeer ]
  /\ active' = [ active EXCEPT ![p] = FALSE ]
  /\ UNCHANGED << start, stage, sel, wide, wsExtra, caps, patch, offered, match >>

-----------------------------------------------------------------------------
(* session_reboot up to the plugin activation: GameSessionReset, SnesInit,
   the widescreen plugin's reset and its activation. *)
Boot(p) ==
  /\ stage[p] = "boot"
  /\ patch' = [ patch EXCEPT
       ![p] = Disarmed([ Disarmed(patch[p]) EXCEPT !.rom = start[p].rom ]) ]
  /\ wide' = [ wide EXCEPT ![p] = sel[p] ]
  /\ stage' = [ stage EXCEPT ![p] = "pin" ]
  /\ UNCHANGED << start, sel, netPin, wsExtra, caps, active, offered, match >>

(* SetNetplayWsExtra (g_netplay_pending is set) and BeginSession. *)
Pin(p) ==
  /\ stage[p] = "pin"
  /\ netPin' = [ netPin EXCEPT ![p] = caps[p] ]
  /\ \E window \in Margins :
       wsExtra' = [ wsExtra EXCEPT ![p] = Margin(p, wide[p], caps[p], window) ]
  /\ stage' = [ stage EXCEPT ![p] = "connect" ]
  /\ UNCHANGED << start, sel, wide, caps, active, patch, offered, match >>

(* snes_netplay_start succeeds, or the peer goes on alone. *)
Connect(p) ==
  /\ stage[p] = "connect"
  /\ \E ok \in BOOLEAN :
       /\ active' = [ active EXCEPT ![p] = ok ]
       /\ patch' = [ patch EXCEPT ![p] = WithNetplay(@, ok, caps[p]) ]
  /\ stage' = [ stage EXCEPT ![p] = "arm" ]
  /\ UNCHANGED << start, sel, wide, netPin, wsExtra, caps, offered, match >>

Arm(p) ==
  /\ stage[p] = "arm"
  /\ patch' = [ patch EXCEPT
       ![p] = Armed(@, wsExtra[p], wsExtra[p] # 0, start[p].killed) ]
  /\ stage' = [ stage EXCEPT ![p] = "play" ]
  /\ UNCHANGED << start, sel, wide, netPin, wsExtra, caps, active, offered, match >>

(* External: the peers exchange what gwed_publish_identity fingerprints, the
   effective mod set included, and the match starts when it is the same. *)
SameIdentity == \A p, q \in Peer : wide[p] = wide[q]

Meet ==
  /\ match = "booting"
  /\ \A p \in Peer : stage[p] = "play" /\ active[p]
  /\ SameIdentity
  /\ match' = "running"
  /\ UNCHANGED << start, stage, sel, wide, netPin, wsExtra, caps, active, patch,
                  offered >>

(* The match ends, is refused, or never came together: every peer tears its
   machine down and is back in the room.  The room's caps stay published. *)
BackToRoom ==
  /\ match \in { "booting", "running" }
  /\ \A p \in Peer : stage[p] = "play"
  /\ patch' = [ p \in Peer |-> [ patch[p] EXCEPT !.rom = NoImage ] ]
  /\ stage' = [ p \in Peer |-> "room" ]
  /\ match' = "none"
  /\ UNCHANGED << start, sel, wide, netPin, wsExtra, caps, active, offered >>

Lobby   == OtherCaps \/ Launch \/ Meet \/ BackToRoom
Room(p) == Toggle(p) \/ PublishCaps(p) \/ PlayOffline(p)
Setup(p) == Boot(p) \/ Pin(p) \/ Connect(p) \/ Arm(p)

Next == Lobby \/ \E p \in Peer : Room(p) \/ Setup(p)

Spec == Init /\ [][Next]_vars

-----------------------------------------------------------------------------
(* The margin a guest's sprite clip was widened by. *)
Clip(p) == IF patch[p].rom > 0 THEN patch[p].rom ELSE 0

TypeOK ==
  /\ start \in Starts
  /\ stage \in [ Peer -> Stages ]
  /\ sel \in [ Peer -> BOOLEAN ]
  /\ wide \in [ Peer -> BOOLEAN ]
  /\ netPin \in [ Peer -> Peers ]
  /\ wsExtra \in [ Peer -> Margins ]
  /\ caps \in [ Peer -> Peers ]
  /\ active \in [ Peer -> BOOLEAN ]
  /\ patch \in [ Peer -> Patches ]
  /\ offered \in Peers
  /\ match \in { "none", "booting", "running" }

SameSettings == \A p, q \in Peer : start[p] = start[q]

(* gwed_ws_patch.c:243: "it changes the OAM staging WRAM the digest covers, so
   both peers must run it or neither may".  Holds in every match of peers
   started alike, whatever their windows are, whoever published, and whatever
   the sessions before left pinned. *)
BothOrNeither ==
  match = "running" /\ SameSettings => \A p, q \in Peer : Clip(p) = Clip(q)

(* A peer that starts a match but is alone in it, or in one whose caps were
   never received, never runs code the caps did not name. *)
NeverBeyondCaps ==
  \A p \in Peer : stage[p] = "play" /\ active[p] => Clip(p) \in { 0, caps[p] }
=============================================================================
