----------------------------- MODULE ReconScreens -----------------------------
(***************************************************************************)
(* scripts/widescreen/recon_screens.py and recon_cull.py: the layer        *)
(* inventory of the screens and the measurement of the sprite clip.  Each  *)
(* stage is an invocation of its own or part of an "all" run, and finds    *)
(* what earlier ones left: result files, layer pictures, and the banked    *)
(* scene states all of them share.                                         *)
(***************************************************************************)
EXTENDS ReconScene, FiniteSetsExt

CONSTANTS SceneNames,    \* SCENE_NAMES (or --scenes), in order
          Roles,         \* ROLES: the layers of each scene with a recorded role
          FightLen,      \* the 860 frames of the fight the ring is read over
          RingFrames,    \* frames the VRAM write ring reaches back
          Overshoot,     \* bound: frames past its target wait_frame returns at
          Steps,         \* values of --vwring-step
          MaxInvocations \* bound: invocations of the two tools

ASSUME ScreensAssumption ==
    /\ FightLen \in Nat /\ RingFrames \in Nat /\ Overshoot \in Nat
    /\ Steps \subseteq Nat \ {0} /\ MaxInvocations \in Nat

Layers == {"bg1", "bg2", "bg3", "obj"}
SceneSet == {SceneNames[i] : i \in DOMAIN SceneNames}
FightSc == {"bg1", "bg2"}       \* layers of the fight whose map is watched

VARIABLES scrJobs,      \* stages left of this invocation
          scrLeft,      \* invocations left to make
          scrArgs,      \* --force, --vwring-step
          scrWorld,     \* what the guest does
          bank,         \* the banked state of each scene
          shots,        \* layer pictures on disk: <<scene, mask>>
          scrFiles,     \* the result files, by name
          cursor        \* progress of the stage that is running

scrVars == <<scrJobs, scrLeft, scrArgs, scrWorld, bank, shots, scrFiles, cursor>>

(* The guest: the layers each scene enables on some line, what a banked    *)
(* state of a scene reloads as, and the fight frames that write each map.  *)
ScrWorlds(writeSets) ==
    [enabled : [SceneSet -> {{"bg1", "obj"}, Layers}],
     reload : {"running", "frozen", "other"},
     writes : [FightSc -> writeSets]]

Start == [pos |-> 1, todo |-> <<>>, frame |-> 0, seen |-> [l \in FightSc |-> {}],
          got |-> [s \in {} |-> {}]]
Invocations == {<<"capture", "layers", "vram", "report">>, <<"capture">>,
                <<"layers">>, <<"vram">>, <<"report">>, <<"cull">>, <<"cull rom">>}

ScrInit(writeSets) ==
    /\ scrJobs = <<>> /\ scrLeft = MaxInvocations
    /\ scrArgs = [force |-> FALSE, step |-> CHOOSE s \in Steps : TRUE]
    /\ scrWorld \in ScrWorlds(writeSets)
    /\ bank = [s \in SceneSet |-> "none"]
    /\ shots = {} /\ scrFiles = [f \in {} |-> 0] /\ cursor = Start

\* The next invocation, with its own options.
Invoke ==
    /\ scrJobs = <<>> /\ scrLeft > 0
    /\ scrLeft' = scrLeft - 1
    /\ \E i \in Invocations, force \in BOOLEAN, step \in Steps :
         /\ (force => "layers" \in {i[k] : k \in DOMAIN i})
         /\ (step # (CHOOSE s \in Steps : TRUE) => "vram" \in {i[k] : k \in DOMAIN i})
         /\ scrJobs' = i
         /\ scrArgs' = [force |-> force, step |-> step]
    /\ cursor' = Start
    /\ UNCHANGED <<scrWorld, bank, shots, scrFiles>>

Stage(name) == scrJobs # <<>> /\ Head(scrJobs) = name
NextStage == scrJobs' = Tail(scrJobs) /\ cursor' = Start
Write(file, content) ==
    scrFiles' = [f \in DOMAIN scrFiles \cup {file} |->
                   IF f = file THEN content ELSE scrFiles[f]]

(* An exception ends the invocation; what the stage already wrote or       *)
(* banked stays, and its result file is not written.                       *)
Abort == scrJobs' = <<>> /\ cursor' = Start
         /\ UNCHANGED <<scrLeft, scrArgs, scrWorld, bank, shots, scrFiles>>

Needs(stage) == CASE stage = "layers" -> {"capture"} [] stage = "vram" -> {"capture"}
                  [] stage = "report" -> {"capture", "layers", "vram"}
                  [] OTHER -> {}
Launches(stage) == stage \in {"capture", "layers", "vram", "cull"}

(* A stage without its input raises, and one that launches a process may   *)
(* end anywhere: state.toml is contended, the process dies, no connection, *)
(* a mode word that is never reached, a savestate missing or refused.      *)
StageFails ==
    /\ scrJobs # <<>>
    /\ \/ ~(Needs(Head(scrJobs)) \subseteq DOMAIN scrFiles)
       \/ Launches(Head(scrJobs))
    /\ Abort

ScrIdle ==
    /\ scrJobs = <<>> /\ scrLeft = 0
    /\ scrArgs = [force |-> FALSE, step |-> CHOOSE s \in Steps : TRUE]
    /\ scrWorld = CHOOSE w \in ScrWorlds({{}}) : TRUE
    /\ bank = [s \in SceneSet |-> "none"]
    /\ shots = {} /\ scrFiles = [f \in {} |-> 0] /\ cursor = Start

\* Instance and reach_scene: how the scene comes up, and what stays banked.
Enter(name, noStateCache, came) ==
    LET scene == SceneNamed(name)
    IN /\ came = ReachedAs(scene, bank[name], noStateCache)
       /\ \E b \in BankedAs(scene, bank[name], noStateCache, scrWorld.reload) :
            bank' = [bank EXCEPT ![name] = b]

(* stage_capture: one process per scene; capture.json at the end.  The     *)
(* layers a scene enables are the union over its per-line journal.         *)
CaptureScene ==
    /\ Stage("capture") /\ cursor.pos <= Len(SceneNames)
    /\ LET name == SceneNames[cursor.pos]
       IN \E came \in BankKinds :
            /\ Enter(name, FALSE, came)
            /\ cursor' = [cursor EXCEPT !.pos = @ + 1,
                            !.got = [s \in DOMAIN @ \cup {name} |->
                                       IF s = name THEN scrWorld.enabled[name]
                                       ELSE @[s]]]
    /\ UNCHANGED <<scrJobs, scrLeft, scrArgs, scrWorld, shots, scrFiles>>

CaptureDone ==
    /\ Stage("capture") /\ cursor.pos > Len(SceneNames)
    /\ Write("capture", cursor.got) /\ NextStage
    /\ UNCHANGED <<scrLeft, scrArgs, scrWorld, bank, shots>>

(* stage_layers: a picture per scene and mask, "all" and the enabled       *)
(* layers; one that exists is reused unless --force.                       *)
Masks(name) == {"all"} \cup scrFiles["capture"][name]
Wanted == {w \in SceneSet \X (Layers \cup {"all"}) : w[2] \in Masks(w[1])}
Cached(shot) == shot \in shots /\ ~scrArgs.force

LayerShot ==
    /\ Stage("layers") /\ Needs("layers") \subseteq DOMAIN scrFiles
    /\ cursor.pos <= Len(SceneNames)
    /\ LET name == SceneNames[cursor.pos]
           missing == {w \in Wanted : w[1] = name /\ ~Cached(w)} \ {cursor.todo[k] : k \in DOMAIN cursor.todo}
       IN IF missing = {}
          THEN /\ cursor' = [cursor EXCEPT !.pos = @ + 1]
               /\ UNCHANGED <<bank, shots>>
          ELSE LET shot == CHOOSE w \in missing : TRUE
               IN /\ \E came \in BankKinds : Enter(name, FALSE, came)
                  /\ shots' = shots \cup {shot}
                  /\ cursor' = [cursor EXCEPT !.todo = Append(@, shot)]
    /\ UNCHANGED <<scrJobs, scrLeft, scrArgs, scrWorld, scrFiles>>

\* layers.json keeps the scenes of an earlier run that this one did not do.
LayersDone ==
    /\ Stage("layers") /\ cursor.pos > Len(SceneNames)
    /\ LET old == IF "layers" \in DOMAIN scrFiles THEN scrFiles["layers"]
                  ELSE [s \in {} |-> {}]
       IN Write("layers", [s \in DOMAIN old \cup SceneSet |->
                             IF s \in SceneSet THEN Masks(s) ELSE old[s]])
    /\ NextStage
    /\ UNCHANGED <<scrLeft, scrArgs, scrWorld, bank, shots>>

(* stage_vram: through the fight the ring of VRAM writes is read again and *)
(* again; every read returns what the ring still holds.  A map no read saw *)
(* a write to is reported as static.                                       *)
InRing_LastFrame(at) == {at}   \* only the newest frame of the ring
InRing(at) == (at - RingFrames + 1)..at
VramSample ==
    /\ Stage("vram") /\ Needs("vram") \subseteq DOMAIN scrFiles
    /\ cursor.frame < FightLen
    /\ \E late \in 0..Overshoot :
         LET at == cursor.frame + scrArgs.step + late
         IN cursor' = [cursor EXCEPT !.frame = at,
                         !.seen = [l \in FightSc |->
                            @[l] \cup (scrWorld.writes[l] \cap InRing(at))]]
    /\ UNCHANGED <<scrJobs, scrLeft, scrArgs, scrWorld, bank, shots, scrFiles>>

VramDone ==
    /\ Stage("vram") /\ cursor.frame >= FightLen
    /\ Write("vram", [l \in FightSc |-> [static |-> cursor.seen[l] = {},
                                         step |-> scrArgs.step]])
    /\ NextStage
    /\ UNCHANGED <<scrLeft, scrArgs, scrWorld, bank, shots>>

(* _map_row_histogram: the tilemap cell of a written word, undoing the     *)
(* quadrants.                                                              *)
MapCell_LowerAt1024(tiles, word) ==   \* the lower half of a wide map, too
    LET bottom == tiles.h > 32 /\ word >= 1024
        w == IF bottom THEN word - 1024 ELSE word
        right == tiles.w > 32 /\ w >= 1024
        v == IF right THEN w - 1024 ELSE w
    IN [tx |-> (IF right THEN 32 ELSE 0) + (v % 32),
        ty |-> (IF bottom THEN 32 ELSE 0) + (v \div 32)]
MapCell(tiles, word) ==
    LET wider == tiles.w > 32
        bottom == tiles.h > 32 /\ word >= (IF wider THEN 2048 ELSE 1024)
        w == IF bottom THEN word - (IF wider THEN 2048 ELSE 1024) ELSE word
        right == wider /\ w >= 1024
        v == IF right THEN w - 1024 ELSE w
    IN [tx |-> (IF right THEN 32 ELSE 0) + (v % 32),
        ty |-> (IF bottom THEN 32 ELSE 0) + (v \div 32)]

(* stage_report: every layer a screen enables needs a recorded role, or    *)
(* the stage raises; a scene without layer pictures does too.              *)
Reportable ==
    /\ SceneSet \subseteq DOMAIN scrFiles["capture"]
    /\ SceneSet \subseteq DOMAIN scrFiles["layers"]
    /\ \A s \in SceneSet : scrFiles["capture"][s] \subseteq Roles[s]
Report ==
    /\ Stage("report") /\ Needs("report") \subseteq DOMAIN scrFiles
    /\ IF Reportable
       THEN /\ Write("screens", [maps |-> scrFiles["vram"],
                                 scenes |-> scrFiles["capture"]])
            /\ NextStage /\ UNCHANGED <<scrLeft, scrArgs, scrWorld, bank, shots>>
       ELSE Abort

(* recon_cull.probe plays up to the fight itself: a banked state would     *)
(* reload standing still, and the measurement needs motion.                *)
Cull ==
    /\ Stage("cull")
    /\ \E came \in BankKinds : /\ Enter("attract_fight", TRUE, came)
                               /\ Write("cull", came)
    /\ NextStage
    /\ UNCHANGED <<scrLeft, scrArgs, scrWorld, shots>>

\* --rom-only rewrites the file and keeps an earlier run's measurement.
CullRomOnly ==
    /\ Stage("cull rom")
    /\ Write("cull", IF "cull" \in DOMAIN scrFiles THEN scrFiles["cull"] ELSE "none")
    /\ NextStage
    /\ UNCHANGED <<scrLeft, scrArgs, scrWorld, bank, shots>>

ScrNext ==
    \/ Invoke \/ StageFails
    \/ CaptureScene \/ CaptureDone
    \/ LayerShot \/ LayersDone
    \/ VramSample \/ VramDone
    \/ Report \/ Cull \/ CullRomOnly

ScrSpec(writeSets) == ScrInit(writeSets) /\ [][ScrNext]_scrVars

(***************************************************************************)
(* Properties                                                              *)
(***************************************************************************)
(* A map is reported as static only if the fight never writes it, when the *)
(* reads are close enough for consecutive windows of the ring to overlap   *)
(* (the bound the help of --vwring-step asks for, and the lateness of      *)
(* wait_frame on top of it).                                               *)
StaticMapsAreStatic ==
    "vram" \in DOMAIN scrFiles =>
      \A l \in FightSc :
        /\ scrFiles["vram"][l].static
        /\ scrFiles["vram"][l].step + Overshoot <= RingFrames
        => scrWorld.writes[l] \cap 1..FightLen = {}

(* The sprite clip is measured on a fight that runs: whatever states the   *)
(* other tools banked before, and whether the probe ran now or its result  *)
(* was carried over by --rom-only, cull.json never holds a measurement of  *)
(* a fight that stands still (recon_cull.py, the note in probe).           *)
CullMeasuresMotion ==
    "cull" \in DOMAIN scrFiles => scrFiles["cull"] \in {"running", "none"}

(* The row and column histogram stage_vram writes undoes the quadrant      *)
(* layout of the decoder: a write counts for exactly the cell it changed,  *)
(* whatever the map size (checked at the corners of every quadrant).       *)
HistogramNamesTheCell ==
    "vram" \in DOMAIN scrFiles =>
      \A sc \in 0..3 : LET tiles == ScreenTiles(sc) IN
        \A tx \in {0, 31, 32, 63} \cap 0..(tiles.w - 1),
           ty \in {0, 31, 32, 63} \cap 0..(tiles.h - 1) :
          MapCell(tiles, MapWord(tiles, tx, ty)) = [tx |-> tx, ty |-> ty]
=============================================================================
