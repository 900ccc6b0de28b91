---------------------------- MODULE WsPatchApi ----------------------------
(***************************************************************************)
(* The patch module under callers that respect no order: arming, disarming *)
(* and netplay sessions interleave with image replacements (a session      *)
(* reboot frees the cartridge and loads another) and with another writer   *)
(* at the same site.                                                       *)
(***************************************************************************)
EXTENDS WsPatch

VARIABLE patch

Init == \E image \in Images : patch = Unarmed(image)

Arm == \E extra \in Margins, wide, killed \in BOOLEAN :
         patch' = Armed(patch, extra, wide, killed)

Disarm == patch' = Disarmed(patch)

SetNetplaySession ==
  \E active \in BOOLEAN, peer \in Peers : patch' = WithNetplay(patch, active, peer)

(* The machine is freed or another image is loaded (snes_free, SnesInit). *)
ReplaceImage == \E image \in Images : patch' = [ patch EXCEPT !.rom = image ]

(* Another writer gets to the site. *)
Overwrite == HasSite(patch) /\ patch' = [ patch EXCEPT !.rom = Foreign ]

Next == Arm \/ Disarm \/ SetNetplaySession \/ ReplaceImage \/ Overwrite

Spec == Init /\ [][Next]_patch

-----------------------------------------------------------------------------
TypeOK == patch \in Patches

(* The replacement is never in an image the module does not know it patched,
   whatever happened to the image in between: Disarm can always undo it. *)
NoOrphan == patch.rom > 0 => patch.applied /\ patch.written = patch.rom

(* IsArmed, the per-site flag and the margins tell one story, so the early
   returns of Arm and Disarm are taken on facts. *)
BooksAgree ==
  /\ patch.armed <=> patch.applied
  /\ patch.armed => patch.armedExtra > 0 /\ patch.armedExtra = patch.written
  /\ ~patch.armed => patch.armedExtra = 0 /\ patch.written = 0

(* "The signature is the whole safety argument": bytes nobody here recognises
   are never replaced, neither by arming nor by restoring.  Only a new image
   takes them away. *)
ForeignKept ==
  [][ patch.rom = Foreign => patch'.rom = Foreign \/ ReplaceImage ]_patch
=============================================================================
