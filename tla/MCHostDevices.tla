--------------------------- MODULE MCHostDevices ---------------------------
(* Both upload modes, two gamepads, two waiting events, and as many texture
   addresses as a first session can use at a time (a ring of three, whose slot 0
   is its first texture, and two overlays).  A later session runs out of them
   sooner, which is a creation that fails. *)
EXTENDS HostDevices, TLC

CONSTANTS none, unplugged, t1, t2, t3, t4, t5, d1, d2

MCTexture  == { t1, t2, t3, t4, t5 }
MCDevice   == { d1, d2 }
MCModes    == { "lock", "rotate" }
MCQueueMax == 2

Interchangeable == Permutations(MCTexture) \union Permutations(MCDevice)
=============================================================================
