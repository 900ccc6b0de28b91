-------------------------- MODULE MCGuestMachine --------------------------
(* What drives or rewrites the guest machine from below its frame functions: *)
(* the beam of a field, the audio thread, the patch module with the site it  *)
(* writes to, and the bytes at that site.  Main runs one of them at a time,  *)
(* the audio thread meets the others only inside the engine, under its lock, *)
(* so a run is one of them with the others idle.                             *)
EXTENDS FieldBeam, AudioPump, OamClip, WsPatchApi

VARIABLE running

(* A line is three clocks; the dense chain makes a frame run out of slices. *)
MCChains == { <<>>, <<2, 3>>, <<1, 3, 5>>, <<0, 1, 2, 3, 4, 5>> }

(* The patch module's margins, the widest without an encoding. *)
MCWsExtraMax   == 3
MCEncodableMax == 2

(* The clip's margins: 1, the 43 of a 16:9 frame, kWsExtraMax = 95, the
   encoding's last margin 112 and the first it declines; every X within 4 of a
   boundary of any of them. *)
MCMargins == { 1, 43, 95, 112, 113, 144 }

Edges ==
  { 0, 255, 256, 32767, 32768, 65535, 65536 - 32 }
    \union { 256 + m : m \in MCMargins }
    \union { 65536 - 32 - m : m \in MCMargins }

MCWords == { (e + d) % 65536 : e \in Edges, d \in -4 .. 4 }

(* An object at 0 that the vanilla bytes have accepted. *)
ClipIdle ==
  /\ code = "vanilla" /\ margin = 1 /\ x = 0
  /\ pc = AcceptPc /\ carry = FALSE

MachineInit ==
  /\ running \in { "beam", "audio", "clip", "patch" }
  /\ BeamInit /\ AudioInit
  /\ IF running = "clip" THEN ClipInit ELSE ClipIdle
  /\ IF running = "patch" THEN Init ELSE patch = Unarmed(NoImage)

MachineNext ==
  \/ /\ running = "beam" /\ BeamNext
     /\ UNCHANGED << running, audioVars, clipVars, patch >>
  \/ /\ running = "audio" /\ AudioNext
     /\ UNCHANGED << running, beamVars, clipVars, patch >>
  \/ /\ running = "clip" /\ ClipNext
     /\ UNCHANGED << running, beamVars, audioVars, patch >>
  \/ /\ running = "patch" /\ Next
     /\ UNCHANGED << running, beamVars, audioVars, clipVars >>

MachineSpec ==
  /\ MachineInit
  /\ [][MachineNext]_<< running, beamVars, audioVars, clipVars, patch >>
  /\ WF_clipVars(ClipNext)
===========================================================================
