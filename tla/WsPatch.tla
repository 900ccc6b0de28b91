------------------------------ MODULE WsPatch ------------------------------
(***************************************************************************)
(* The guest-side widescreen patch of gwed_ws_patch.c: one site in the     *)
(* cartridge image, the bookkeeping that says whether the module wrote     *)
(* there, and the netplay agreement it consults before it does.            *)
(*                                                                         *)
(* The operations are functions of the patch state: Arm calls Disarm, and   *)
(* two callers compose them, WsPatchApi in any order and SessionHost in the *)
(* order of main.c.                                                        *)
(***************************************************************************)
EXTENDS Integers

CONSTANTS
  WsExtraMax,     \* kWsExtraMax, the widest margin a session can pin
  EncodableMax    \* the widest margin emit_oam_x_clip can encode

ASSUME WsPatchAssumption ==
  /\ WsExtraMax \in Nat \ { 0 }
  /\ EncodableMax \in Nat \ { 0 }

(* What is at the site.  A positive value m is the replacement emitted for
   margin m (the bytes of OamClip!EmitBytes(m)). *)
Vanilla == 0      \* the bytes the signature expects
Foreign == -1     \* other bytes: another dump, or another mod was here
Short   == -2     \* an image that ends before the site
NoImage == -3     \* no machine, no cartridge or no image

Images == { NoImage, Short, Foreign, Vanilla }

Margins == 0 .. WsExtraMax
NoPeer  == -1                            \* no caps were received
Peers   == NoPeer .. WsExtraMax + 1      \* a peer's value is not clamped

(* The patch state:
     rom                    what is at the site
     applied, written       SiteState: did we write, and for which margin
     armed, armedExtra      s_armed, s_armed_extra
     netActive, netPeer     s_net_active, s_net_peer_ws_extra *)
Patches ==
  [ rom : Images \union 1 .. WsExtraMax,
    applied : BOOLEAN, written : Margins,
    armed : BOOLEAN, armedExtra : Margins,
    netActive : BOOLEAN, netPeer : Peers ]


Unarmed(image) ==
  [ rom |-> image, applied |-> FALSE, written |-> 0, armed |-> FALSE,
    armedExtra |-> 0, netActive |-> FALSE, netPeer |-> NoPeer ]

-----------------------------------------------------------------------------
(* site_rom_ptr: an image that holds the whole site. *)
HasSite(p) == p.rom \notin { NoImage, Short }

(* emit_oam_x_clip: the margins it has an encoding for. *)
Emits(extra) == extra > 0 /\ extra <= EncodableMax

(* Mutant: the session is recorded without the fact that there is one. *)
WithNetplay_NotActive(p, active, peer) == [ p EXCEPT !.netPeer = peer ]

(* GwedWsPatch_SetNetplaySession. *)
WithNetplay(p, active, peer) == [ p EXCEPT !.netActive = active, !.netPeer = peer ]

(* Mutant: any caps at all count as agreement. *)
NetplayAllows_AnyCaps(p, extra) == ~p.netActive \/ p.netPeer # NoPeer


NetplayAllows(p, extra) == ~p.netActive \/ p.netPeer = extra

(* GwedWsPatch_Disarm: the vanilla bytes come back only over bytes that are
   still the ones written, and the session's agreement is forgotten. *)
StillOurs(p) == p.applied /\ HasSite(p) /\ p.rom = p.written

(* Mutant: the books are closed and the bytes stay. *)
Disarmed_NoRestore(p) == Unarmed(p.rom)

(* Mutant: the bytes are restored and s_armed is not cleared. *)
Disarmed_StillArmed(p) ==
  [ Unarmed(IF StillOurs(p) THEN Vanilla ELSE p.rom)
      EXCEPT !.armed = p.armed, !.armedExtra = p.armedExtra ]


Disarmed(p) == Unarmed(IF StillOurs(p) THEN Vanilla ELSE p.rom)

(* Mutant: the signature is not compared. *)
Applies_AnyBytes(p, extra, killed) == ~killed /\ HasSite(p) /\ Emits(extra)

(* The site loop of GwedWsPatch_Arm.  A site that is switched off, absent,
   not recognised or not encodable is left alone, and nothing is armed. *)
Applies(p, extra, killed) ==
  ~killed /\ HasSite(p) /\ p.rom = Vanilla /\ Emits(extra)

(* Mutant: armed although no site was written. *)
Applied_ArmedAnyway(p, extra, killed) ==
  IF Applies(p, extra, killed)
  THEN [ p EXCEPT !.rom = extra, !.applied = TRUE, !.written = extra,
                  !.armed = TRUE, !.armedExtra = extra ]
  ELSE [ p EXCEPT !.armed = TRUE, !.armedExtra = extra ]


Applied(p, extra, killed) ==
  IF Applies(p, extra, killed)
  THEN [ p EXCEPT !.rom = extra, !.applied = TRUE, !.written = extra,
                  !.armed = TRUE, !.armedExtra = extra ]
  ELSE [ p EXCEPT !.armed = FALSE, !.armedExtra = 0 ]

(* GwedWsPatch_Arm with `wide` = g_ws_active and `killed` = either of the two
   environment switches, which are read again at every call. *)
Armed(p, extra, wide, killed) ==
  LET idle == IF p.armed THEN Disarmed(p) ELSE p
  IN CASE ~wide \/ extra <= 0                 -> idle
       [] wide /\ extra > 0 /\ p.armed /\ p.armedExtra = extra -> p
       [] OTHER -> IF NetplayAllows(idle, extra)
                   THEN Applied(idle, extra, killed)
                   ELSE idle

=============================================================================
