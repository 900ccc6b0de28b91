------------------------------ MODULE ReconScene ------------------------------
(***************************************************************************)
(* scripts/widescreen/ws_recon.py: what the reconnaissance tools share:    *)
(* the scene table, how a scene is entered, and the layout of a tilemap.   *)
(***************************************************************************)
EXTENDS Integers, Sequences, FiniteSets

(* SCENES: how each scene is reached, and the family of game states it     *)
(* shows (the two mode words).                                             *)
SceneTable ==
    {[name |-> "attract_fight", kind |-> "wram", mode |-> "live fight"],
     [name |-> "attract_crawl", kind |-> "wram", mode |-> "crawl"],
     [name |-> "attract_cinematic", kind |-> "wram", mode |-> "cinematic"],
     [name |-> "title_menu", kind |-> "wram", mode |-> "title"],
     [name |-> "title_logo", kind |-> "state", mode |-> "title"],
     [name |-> "victory_quote", kind |-> "state", mode |-> "quote"],
     [name |-> "ko_1p_win", kind |-> "state", mode |-> "round end"],
     [name |-> "black_transition", kind |-> "state", mode |-> "round end"],
     [name |-> "final_convo", kind |-> "state", mode |-> "round end"],
     [name |-> "ending", kind |-> "state", mode |-> "round end"]}
SceneNamed(name) == CHOOSE s \in SceneTable : s.name = name

(* reach_scene on a "wram" scene.  A banked state of the scene, when there *)
(* is one and the caller does not refuse it, is trusted if the mode words  *)
(* read right after the load; otherwise the scene is played up to and      *)
(* banked (the reply of save_state is not looked at).  "bank" is "none" or *)
(* what the banked file reloads as: a running scene, one whose words read  *)
(* right but that stands still, or another scene.                          *)
BankKinds == {"none", "running", "frozen", "other"}
Trusted_Always(bank, noStateCache) == bank \in {"running", "frozen"}
Trusted(bank, noStateCache) == ~noStateCache /\ bank \in {"running", "frozen"}
ReachedAs(scene, bank, noStateCache) ==
    IF scene.kind = "wram" /\ Trusted(bank, noStateCache) THEN bank ELSE "running"
BankedAs(scene, bank, noStateCache, saved) ==
    IF scene.kind # "wram" \/ noStateCache \/ Trusted(bank, noStateCache)
    THEN {bank} ELSE {bank, saved}

(***************************************************************************)
(* Tilemaps                                                                *)
(***************************************************************************)
\* decode_layers: the size in tiles a BGxSC register asks for.
ScreenTiles(sc) == [w |-> IF sc % 2 = 1 THEN 64 ELSE 32,
                    h |-> IF (sc \div 2) % 2 = 1 THEN 64 ELSE 32]
\* decode_bg_map: the word of cell (tx, ty), quadrant by quadrant.
MapWord(tiles, tx, ty) ==
    (ty % 32) * 32 + (tx % 32)
      + (IF tx >= 32 /\ tiles.w > 32 THEN 1024 ELSE 0)
      + (IF ty >= 32 /\ tiles.h > 32
         THEN (IF tiles.w > 32 THEN 2048 ELSE 1024) ELSE 0)
=============================================================================
