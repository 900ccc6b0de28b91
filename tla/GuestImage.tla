---------------------------- MODULE GuestImage ----------------------------
(***************************************************************************)
(* What the session host promises about the guest's program: a machine is  *)
(* booted from the player's ROM, the sprite clip is decided once, before   *)
(* the first frame, and the guest then runs that code until it is powered  *)
(* off.  The widened clip needs a margin to widen into and, in a match, a  *)
(* peer that negotiated the same one.                                      *)
(***************************************************************************)
EXTENDS Integers

CONSTANTS
  MaxMargin,   \* the widest margin
  NoMatch      \* in the place of a negotiated margin: no lobby match

VARIABLES
  machine,     \* "off", "booting" or "running"
  clip,        \* the margin the guest's sprite clip was widened by
  margin,      \* the margin of the frame while running
  peer         \* the margin the lobby launched this match with, or NoMatch

vars == << machine, clip, margin, peer >>

Off(stage) == machine' = stage /\ clip' = 0 /\ margin' = 0 /\ peer' = NoMatch

Init == machine = "off" /\ clip = 0 /\ margin = 0 /\ peer = NoMatch

PowerOn == machine = "off" /\ Off("booting")

Run ==
  /\ machine = "booting"
  /\ machine' = "running"
  /\ margin' \in 0 .. MaxMargin
  /\ peer' \in -1 .. MaxMargin + 1 \union { NoMatch }
  /\ clip' = 0 \/ (clip' = margin' /\ peer' \in { NoMatch, margin' })

PowerOff == machine # "off" /\ Off("off")

Next == PowerOn \/ Run \/ PowerOff

Spec == Init /\ [][Next]_vars
=============================================================================
