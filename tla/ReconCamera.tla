----------------------------- MODULE ReconCamera -----------------------------
(***************************************************************************)
(* scripts/widescreen/recon_camera.py: finding the WRAM word that holds    *)
(* the camera, by comparing words against the scroll the PPU renders.      *)
(*                                                                         *)
(* A fight is a sequence of rendered scroll values; a word of WRAM follows *)
(* it in one of the ways below.                                            *)
(***************************************************************************)
EXTENDS Integers, Sequences, FiniteSets

CONSTANTS Words,          \* the WRAM words looked at
          Latched,        \* CAMERA_LATCHED, the word the report is about
          Scrolls,        \* rendered scroll over the fight: sequences of numbers
          Probes,         \* PROBE_OFFSETS, frames whose whole WRAM is read
          ScrollModulus,  \* the 0x3FF mask of a scroll, plus 1
          CameraRuns      \* bound: invocations of the tool

ASSUME CameraAssumption ==
    /\ Latched \in Words /\ ScrollModulus \in Nat \ {0} /\ CameraRuns \in Nat

(* The game clamps the camera to [64, 192] (CAMERA_CLAMP_X), far inside the  *)
(* lower half of the scroll's range.                                         *)
ASSUME ClampAssumption ==
    \A s \in Scrolls : /\ s \in Seq(Nat)
                       /\ \A f \in DOMAIN s : 2 * s[f] < ScrollModulus

(* A copy of the scroll, the simulation's word (one frame ahead), a word   *)
(* at twice the scale, one that moves against it, a constant.              *)
Follows == {"copy", "ahead", "double", "against", "still"}

VARIABLES camJobs,     \* stages left of this invocation
          camLeft,     \* invocations left to make
          scroll,      \* the rendered scroll of this guest's fight
          follows,     \* what each word is
          camForced,   \* --camera: a word, or "none"
          camFiles     \* the result files, by stage

camVars == <<camJobs, camLeft, scroll, follows, camForced, camFiles>>

At(f) == scroll[IF f > Len(scroll) THEN Len(scroll) ELSE f]
WordAt(w, f) ==
    CASE follows[w] = "copy" -> At(f) [] follows[w] = "ahead" -> At(f + 1)
      [] follows[w] = "double" -> 2 * At(f) [] follows[w] = "against" -> 0 - At(f)
      [] OTHER -> 0
FightFrames == 1..Len(scroll)

(* stage_find: the words whose change since the first probe is the change  *)
(* of the scroll, its half, its double or its opposite, give or take one   *)
(* frame's motion; a word that never changes is none of them.  Slopes and  *)
(* the tolerance are kept in halves.                                       *)
Slopes == {2, 4, 1, -2}
First == CHOOSE p \in Probes : \A q \in Probes : p <= q
Near(x) == x <= 2 /\ -x <= 2
Hits(slope) ==
    {w \in Words :
       /\ \E p \in Probes : WordAt(w, p) # WordAt(w, First)
       /\ \A p \in Probes :
            Near(slope * (WordAt(w, p) - WordAt(w, First)) - 2 * (At(p) - At(First)))}

\* The tolerance of stage_find, applied to stage_verify.
Mismatches_Near(w) ==
    {f \in FightFrames : ~Near((WordAt(w, f) % ScrollModulus) - At(f))}

(* stage_verify: the frames at which a candidate disagrees with the        *)
(* rendered scroll of the same frame.                                      *)
Mismatches(w) == {f \in FightFrames : WordAt(w, f) % ScrollModulus # At(f)}

CamOrder == <<"series", "find", "verify", "raster", "writers", "report">>
CamReads(stage) ==
    CASE stage = "find" -> {"series"} [] stage = "verify" -> {"find", "series"}
      [] stage = "writers" -> {"find"}
      [] stage = "report" -> {"verify", "writers", "find", "raster"}
      [] OTHER -> {}

(* The cache may hold a series recorded before the tool lost its stage.    *)
CamInit ==
    /\ camJobs = <<>> /\ camLeft = CameraRuns
    /\ scroll \in Scrolls /\ follows \in [Words -> Follows]
    /\ camForced = "none"
    /\ camFiles \in {[f \in {} |-> {}], [f \in {"series"} |-> {}]}

CamIdle ==
    /\ camJobs = <<>> /\ camLeft = 0
    /\ scroll = CHOOSE s \in Scrolls : TRUE
    /\ follows = [w \in Words |-> "still"]
    /\ camForced = "none" /\ camFiles = [f \in {} |-> {}]

CamInvoke ==
    /\ camJobs = <<>> /\ camLeft > 0
    /\ camLeft' = camLeft - 1
    /\ \E i \in {CamOrder} \cup {<<CamOrder[k]>> : k \in DOMAIN CamOrder} :
         camJobs' = i
    /\ camForced' \in {"none"} \cup Words
    /\ UNCHANGED <<scroll, follows, camFiles>>

CamStage(name) == /\ camJobs # <<>> /\ Head(camJobs) = name
                  /\ CamReads(name) \subseteq DOMAIN camFiles
CamWrites(name, content) ==
    /\ camFiles' = [f \in DOMAIN camFiles \cup {name} |->
                      IF f = name THEN content ELSE camFiles[f]]
    /\ camJobs' = Tail(camJobs)
    /\ UNCHANGED <<camLeft, scroll, follows, camForced>>

\* An exception ends the invocation, of one stage or of all.
CamRaises == /\ camJobs' = <<>>
             /\ UNCHANGED <<camLeft, scroll, follows, camForced, camFiles>>

\* A process that fails, or an input that is missing.
CamStageFails ==
    /\ camJobs # <<>>
    /\ \/ ~(CamReads(Head(camJobs)) \subseteq DOMAIN camFiles)
       \/ Head(camJobs) \in {"series", "verify", "raster", "writers"}
    /\ CamRaises

(* stage_series uses the list of candidates that only stage_verify has:    *)
(* it raises before it has written anything.                               *)
CamSeries == CamStage("series") /\ CamRaises

Find == CamStage("find") /\ CamWrites("find", [s \in Slopes |-> Hits(s)])

\* The candidates: the slope-1 hits, unless the caller forces a word.
Candidates == IF camForced = "none" THEN camFiles["find"][2] ELSE {camForced}
Verify ==
    /\ CamStage("verify")
    /\ IF Candidates = {} THEN CamRaises
       ELSE CamWrites("verify", [w \in Candidates |-> Mismatches(w)])

(* stage_raster: the frame with the most scroll values down the screen;    *)
(* writers: who stores to the candidates.                                  *)
Raster == CamStage("raster") /\ CamWrites("raster", {})
CamWriters == CamStage("writers") /\ CamWrites("writers", Candidates)

(* stage_report: camera.json describes the latched word, with its range    *)
(* and its disagreements; the stage raises when that word is no candidate. *)
Slope == IF \A f, g \in FightFrames : At(f) = At(g) THEN "fixed" ELSE "moves"
CamReport ==
    /\ CamStage("report")
    /\ IF Latched \notin DOMAIN camFiles["verify"] THEN CamRaises
       ELSE CamWrites("camera",
              [range |-> {WordAt(Latched, f) : f \in FightFrames},
               slope1 |-> DOMAIN camFiles["verify"],
               mismatches |-> camFiles["verify"][Latched], layer |-> Slope])

CamNext ==
    \/ CamInvoke \/ CamStageFails
    \/ CamSeries \/ Find \/ Verify \/ Raster \/ CamWriters \/ CamReport

CamSpec == CamInit /\ [][CamNext]_camVars

(***************************************************************************)
(* Property                                                                *)
(***************************************************************************)
(* However the stages were run, with words forced or not and with files of *)
(* different runs: when camera.json has no disagreement over a fight that  *)
(* scrolls, its word is the rendered scroll itself, not the simulation's   *)
(* word one frame ahead that stage_find lets through.                      *)
CameraIsTheScroll ==
    /\ "camera" \in DOMAIN camFiles
    /\ camFiles["camera"].mismatches = {} /\ camFiles["camera"].layer = "moves"
    => follows[Latched] = "copy"
=============================================================================
