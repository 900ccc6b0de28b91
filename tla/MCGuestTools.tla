---------------------------- MODULE MCGuestTools ----------------------------
(* The tools that measure a running guest: the two gates, the three          *)
(* reconnaissance tools and the state hunts.  They share nothing but the     *)
(* process they launch, so a run is one of them with the others idle.        *)
EXTENDS P16Gate, WsVerdicts, ReconScreens, ReconGate, ReconCamera, StateHunt

(* A native line of four columns and a margin of one.  Bands: the identity,  *)
(* bands with every joint of a good one moved by a column, bands with a gap, *)
(* an overlap or a segment too many.                                         *)
MCBands ==
  { <<>>, << <<0, NativeWidth, 0, NativeWidth>> >> }
  \cup { << <<0, 1, d[1], d[2]>>, <<b[1], b[2], d[2] + gap, d[3]>>,
            <<c, c + 1, d[3], d[4]>> >> :
            b \in {<<0, 1>>, <<1, 2>>, <<0, 2>>}, c \in {2, 3}, gap \in {0, 1},
            d \in {<<-1, 0, 1, 2>>, <<-1, 0, 1, 5>>, <<-1, 0, 4, 5>>, <<-1, 1, 4, 5>>} }
  \cup { << <<0, 1, -1, 0>>, <<1, 2, 0, w>>, <<2, 3, w, w + 1>>, <<3, 4, w + 1, 5>> >> :
            w \in 1..3 }
  \cup { << <<0, 1, -1, 0>>, <<1, 2, 0, 2>>, <<2, 3, 2, 3>>, <<3, 4, 3, 4>>, <<3, 4, 4, 5>> >>,
         << <<0, 1, -1, 0>>, <<0, 1, 0, 1>>, <<1, 3, 1, 4>>, <<3, 4, 4, 5>> >> }

(* Every world under the plainest command line, and every command line in    *)
(* the worlds of a fight.                                                    *)
Plain(command) == [cmd |-> command, scenario |-> "boot_attract", gate |-> TRUE,
                   control |-> TRUE, json |-> TRUE]
FightWorlds(command) ==
  IF command = "hud-anchor" THEN {w \in HudWorld : w.bands = <<>> /\ w.obj = StillObj /\ w.export = Sound
                                                  /\ w.flip = -1 /\ w.still /\ w.pic[0] = 0}
  ELSE {w \in WorldOf(command) : w.scene = "fight" \/ command = "center-parity"}
VerdictRun ==
  \/ \E command \in Commands : VerdictStart(Plain(command), WorldOf(command))
  \/ \E args \in Args : VerdictStart(args, FightWorlds(args.cmd))

MCSceneNames == <<"attract_fight", "final_convo">>
MCRoles == [s \in SceneSet |-> IF s = "attract_fight" THEN Layers ELSE {"bg1", "bg3", "obj"}]
MCWriteSets == {{}, {3}, {1, 6}}

(* Sampling offsets around a fight that begins at frame 31 or 33, and two    *)
(* banked screens.                                                           *)
MCAttractOffsets ==
  { [label |-> "crawl", off |-> -26, screen |-> "crawl", live |-> FALSE],
    [label |-> "title", off |-> -6, screen |-> "title", live |-> FALSE],
    [label |-> "f1", off |-> 1, screen |-> "fight", live |-> TRUE],
    [label |-> "f2", off |-> 8, screen |-> "fight", live |-> TRUE],
    [label |-> "p1", off |-> 11, screen |-> "after", live |-> FALSE] }
MCStateScenes == { [label |-> "q", screen |-> "quote", live |-> FALSE],
                   [label |-> "k", screen |-> "round end", live |-> FALSE] }

MCScrolls == {<<3, 3, 3, 3>>, <<3, 4, 5, 5>>, <<2, 4, 6, 3>>, <<1, 1, 2, 2>>}

AllTools == {"p16", "verdicts", "screens", "gate", "camera", "hunt"}
StartOf(tool, which) ==
  CASE which = "p16" -> IF tool = which THEN GateInit ELSE GateIdle
    [] which = "verdicts" -> IF tool = which THEN VerdictRun ELSE VerdictIdle
    [] which = "screens" -> IF tool = which THEN ScrInit(MCWriteSets) ELSE ScrIdle
    [] which = "gate" -> IF tool = which THEN ReconGateInit ELSE ReconGateIdle
    [] which = "camera" -> IF tool = which THEN CamInit ELSE CamIdle
    [] which = "hunt" -> IF tool = which THEN HuntInit ELSE HuntIdle
Init == \E tool \in AllTools : \A which \in AllTools : StartOf(tool, which)
Next ==
  \/ GateNext /\ UNCHANGED <<vVars, scrVars, reconGateVars, camVars, huntVars>>
  \/ VerdictNext /\ UNCHANGED <<gateVars, scrVars, reconGateVars, camVars, huntVars>>
  \/ ScrNext /\ UNCHANGED <<gateVars, vVars, reconGateVars, camVars, huntVars>>
  \/ ReconGateNext /\ UNCHANGED <<gateVars, vVars, scrVars, camVars, huntVars>>
  \/ CamNext /\ UNCHANGED <<gateVars, vVars, scrVars, reconGateVars, huntVars>>
  \/ HuntNext /\ UNCHANGED <<gateVars, vVars, scrVars, reconGateVars, camVars>>
Spec == Init /\ [][Next]_<<gateVars, vVars, scrVars, reconGateVars, camVars, huntVars>>
=============================================================================
