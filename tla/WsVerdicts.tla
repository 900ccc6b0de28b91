----------------------------- MODULE WsVerdicts ------------------------------
(***************************************************************************)
(* scripts/widescreen/ws_verdicts.py: five checks of the widescreen        *)
(* presentation.  A check launches one process per side, one after the     *)
(* other, enters the scene, captures, and judges what the sides left.      *)
(***************************************************************************)
EXTENDS WsMetrics

CONSTANTS Want,          \* --frames, the frames a parity check compares
          Bands,         \* the elastic bands the engine may export
          MarginFrames   \* --margin-frames

ASSUME VerdictAssumption ==
    /\ Want \in Nat \ {0} /\ MarginFrames \in 1..Want
    /\ Bands \subseteq Seq(Int \X Int \X Int \X Int)

VARIABLES vPc,           \* "idle", "launch", "capture", "judge" or "done"
          vArgs, vWorld, \* the command line; what the guest would show
          vPlan,         \* sides still to capture
          vSides,        \* scene each captured side was in
          vReport, vExit

vVars == <<vPc, vArgs, vWorld, vPlan, vSides, vReport, vExit>>

NoExit == "none"
Commands == {"center-parity", "margins", "hud-anchor", "text-letterbox",
             "sprite-nocull"}

(***************************************************************************)
(* What the guest would show                                               *)
(***************************************************************************)
Pictures == [Columns -> {0, 2}]
NativePictures == [0..(NativeWidth - 1) -> {0, 2}]

(* Two processes of one configuration may diverge: noise is the frame from *)
(* which a side shows something of its own.  defect is the frame from      *)
(* which the widescreen path itself shows a wrong centre.                  *)
ParitySides == {"native", "wide", "control"}
ParityWorld == [noise : [ParitySides -> 0..Want], defect : 0..Want,
                took : BOOLEAN, scene : {"text"}]
MarginWorld == [pic : Pictures, later : {0, 1}, moved : BOOLEAN,
                took : BOOLEAN, scene : {"fight", "text"}]
ObjWorld == [matched : BOOLEAN, anchor : {"left", "center", "right"},
             x : {0, 1, XModulus - 1}, dx : -Extra..Extra, dy : {0, 1}]
StillObj == [matched |-> TRUE, anchor |-> "center", x |-> 0, dx |-> 0, dy |-> 0]

\* What the engine exports beside the bands: all of it right, or one part not.
Sound == [governed |-> TRUE, budget |-> Extra, exported |-> TRUE]
Exports == {Sound, [Sound EXCEPT !.governed = FALSE], [Sound EXCEPT !.budget = 0],
            [Sound EXCEPT !.exported = FALSE]}
HudWorld == [bands : Bands, export : Exports, pic : NativePictures,
             flip : Columns \cup {-1}, still : BOOLEAN, obj : {StillObj},
             scene : {"fight"}]
           \cup
           [bands : {<<>>}, export : {Sound}, pic : {[c \in 0..(NativeWidth - 1) |-> 0]},
            flip : {-1}, still : {TRUE}, obj : ObjWorld, scene : {"fight"}]
TextWorld == [noise : [ParitySides -> {0, Want}], defect : {0, Want},
              took : {TRUE}, scene : {"text", "fight"},
              margin : [{"left", "right"} -> [flat : BOOLEAN, rgb : {"black", "cgram0", "other"}]],
              centred : BOOLEAN]
SpriteWorld == [raw : 0..(XModulus - 1), onScreen : BOOLEAN,
                pic : {p \in Pictures : p[0] = 0 /\ p[WideWidth - 1] = 0},
                expect : SUBSET {"left", "right"}, scene : {"fight"}]

WorldOf(cmd) == CASE cmd = "center-parity" -> ParityWorld
                  [] cmd = "margins" -> MarginWorld
                  [] cmd = "hud-anchor" -> HudWorld
                  [] cmd = "text-letterbox" -> TextWorld
                  [] OTHER -> SpriteWorld

(***************************************************************************)
(* center-parity                                                           *)
(***************************************************************************)
\* What a side's dump window shows, frame by frame.
Series(side) ==
    [f \in 0..(Want - 1) |->
       IF f >= vWorld.noise[side] THEN side
       ELSE IF side = "wide" /\ f >= vWorld.defect THEN "defect" ELSE "same"]

(* compare_center: both sides dump the same window, so the frames pair by  *)
(* number; the prefix is the number of frames before the first mismatch.   *)
CompareCenter(a, b) ==
    LET bad == {f \in DOMAIN a : a[f] # b[f]}
    IN [prefix |-> Min(bad \cup {Cardinality(DOMAIN a)}),
        compared |-> Cardinality(DOMAIN a),
        identical |-> Cardinality(DOMAIN a) - Cardinality(bad)]

(* parity_verdict: a mismatch is charged to the widescreen path unless the *)
(* 4:3-against-4:3 control diverges at least as soon.                      *)
ParityVerdict_AnyControl(par, hasControl, control) ==   \* a noisy control excuses all
    IF par.identical = par.compared /\ par.compared >= Want THEN "PASS"
    ELSE IF ~hasControl \/ control.prefix >= Want THEN "FAIL"
    ELSE IF control.prefix = 0 THEN "SKIP" ELSE "PASS"
ParityVerdict(par, hasControl, control) ==
    IF par.identical = par.compared /\ par.compared >= Want THEN "PASS"
    ELSE IF ~hasControl \/ control.prefix >= Want THEN "FAIL"
    ELSE IF par.prefix < control.prefix THEN "FAIL"
    ELSE IF control.prefix = 0 THEN "SKIP" ELSE "PASS"

Parity == ParityVerdict(CompareCenter(Series("native"), Series("wide")),
                        vArgs.control,
                        CompareCenter(Series("native"), Series("control")))

(***************************************************************************)
(* margins                                                                 *)
(***************************************************************************)
\* A layer the native window does not show says nothing of its margins.
LayerPresent(pic) == NonBackdrop(pic, Native) * PresentDen >= NativeWidth
MarginPainted(pic, region) ==
    NonBackdrop(pic, region) * NativeWidth * ShareDen
        >= NonBackdrop(pic, Native) * Extra
MarginNonBlank(pic) ==
    IF ~LayerPresent(pic) THEN "SKIP"
    ELSE IF MarginPainted(pic, Left) /\ MarginPainted(pic, Right) THEN "PASS"
    ELSE "FAIL"

(* native_boundary_seam: a discontinuity at the old 4:3 edge counts when   *)
(* both samples show it, the camera moved between them, and the margin is  *)
(* not simply empty.                                                       *)
Later(pic, by) == [x \in DOMAIN pic |-> pic[(x + by) % WideWidth]]
Seams(world) == {edge \in {Extra, Extra + NativeWidth} :
                   \A by \in {0, world.later} :
                      SeamHit(EdgeScore(Later(world.pic, by), edge))}
BoundarySeam(world) ==
    IF Seams(world) # {} /\ world.moved /\ MarginNonBlank(world.pic) # "FAIL"
    THEN "FAIL" ELSE "PASS"

(***************************************************************************)
(* hud-anchor                                                              *)
(***************************************************************************)
AnchorShift(anchor) ==
    CASE anchor = "left" -> -Extra [] anchor = "right" -> Extra [] OTHER -> 0

\* The shift of a 9-bit X is only meaningful modulo its range.
WrapShift(d) == ((d + XModulus \div 2) % XModulus) - XModulus \div 2
ObjVerdict(obj) ==
    LET wideX == (obj.x + obj.dx + XModulus) % XModulus
        bad == WrapShift(wideX - obj.x) # AnchorShift(obj.anchor) \/ obj.dy # 0
    IN IF obj.matched /\ bad THEN "FAIL" ELSE "PASS"

\* A segment is <<s0, s1, d0, d1>>: source columns, destination columns.
SegSrc(seg, x) ==
    seg[1] + ((2 * (x - seg[3]) + 1) * (seg[2] - seg[1])) \div (2 * (seg[4] - seg[3]))
Rigid(seg) == seg[2] - seg[1] = seg[4] - seg[3]
Shift(seg) == seg[3] - seg[1]
Identity(band) == band = <<<<0, NativeWidth, 0, NativeWidth>>>>

(* _band_shape: ascending segments without a hole, sources inside the      *)
(* native line, and either the identity or rigid ends at the two 16:9      *)
(* edges with something centred and something elastic between them.        *)
WellJoined(band) ==
    /\ band # <<>>
    /\ \A i \in DOMAIN band :
         /\ 0 <= band[i][1] /\ band[i][1] < band[i][2] /\ band[i][2] <= NativeWidth
         /\ band[i][3] < band[i][4]
         /\ i > 1 => band[i][3] = band[i - 1][4]
Grown(band) == FoldSet(LAMBDA i, acc : acc + (band[i][4] - band[i][3])
                                           - (band[i][2] - band[i][1]),
                       0, DOMAIN band)
BandValid_Joined(band) == WellJoined(band)   \* the two ends are not looked at
BandValid(band) ==
    /\ WellJoined(band)
    /\ Identity(band)
       \/ LET first == band[1]
              last == band[Len(band)]
          IN /\ first[3] = -Extra /\ last[4] = NativeWidth + Extra
             /\ Grown(band) = 2 * Extra
             /\ Rigid(first) /\ Shift(first) = -Extra
             /\ Rigid(last) /\ Shift(last) = Extra
             /\ \E i \in DOMAIN band : Rigid(band[i]) /\ Shift(band[i]) = 0
             /\ \E i \in DOMAIN band : ~Rigid(band[i])

\* The columns a band writes, and the native column each one samples.
Sampled(band) ==
    {p \in (-Extra..(NativeWidth + Extra - 1)) \X (DOMAIN band) :
       /\ band[p[2]][3] <= p[1] /\ p[1] < band[p[2]][4]
       /\ SegSrc(band[p[2]], p[1]) \in 0..(NativeWidth - 1)}

(* The wide picture of a HUD world: the native line through the band, with *)
(* one column possibly wrong.                                              *)
HudWide(world) ==
    [c \in Columns |->
       LET from == {p \in Sampled(world.bands) : p[1] + Extra = c}
           right == IF from = {} THEN 0
                    ELSE world.pic[SegSrc(world.bands[(CHOOSE p \in from : TRUE)[2]],
                                          c - Extra)]
       IN IF c = world.flip THEN 2 - right ELSE right]

(* hud_no_transparent_gap on the isolated layer: a column is painted when  *)
(* it differs from the frame's first column, provided the last agrees.     *)
GapVerdict(world, wide) ==
    LET nat == world.pic
        usable == nat[0] = nat[NativeWidth - 1] /\ wide[0] = wide[WideWidth - 1]
        predicted == {p[1] + Extra : p \in
                        {q \in Sampled(world.bands) :
                           nat[SegSrc(world.bands[q[2]], q[1])] # nat[0]}}
        covered == {c \in Columns : wide[c] # wide[0]}
    IN IF Identity(world.bands) \/ world.bands = <<>> \/ ~usable THEN "SKIP"
       ELSE IF covered = predicted THEN "PASS" ELSE "FAIL"

(* hud_pixels_anchored on the scanlines that did not change between two    *)
(* samples of one process.                                                 *)
PixelVerdict(world, wide) ==
    IF Identity(world.bands) \/ world.bands = <<>> \/ ~world.still THEN "SKIP"
    ELSE IF \A p \in Sampled(world.bands) :
              wide[p[1] + Extra] = world.pic[SegSrc(world.bands[p[2]], p[1])]
         THEN "PASS" ELSE "FAIL"

BgVerdicts(report, world) ==
    LET wide == HudWide(world)
        formed == IF BandValid(world.bands) /\ world.export.budget = Extra THEN "PASS" ELSE "FAIL"
        checks == {"elastic_bands_wellformed", "hud_lines_covered",
                   "hud_no_transparent_gap", "hud_pixels_anchored"}
    IN IF ~world.export.exported
       THEN [c \in DOMAIN report \cup checks |->
               IF c \in checks THEN "SKIP" ELSE report[c]]
       ELSE Add(Add(Add(Add(report, "elastic_bands_wellformed", formed),
                        "hud_lines_covered", IF world.export.governed /\ world.bands # <<>>
                                             THEN "PASS" ELSE "FAIL"),
                    "hud_no_transparent_gap", GapVerdict(world, wide)),
                "hud_pixels_anchored", PixelVerdict(world, wide))

(***************************************************************************)
(* sprite-nocull                                                           *)
(***************************************************************************)
SpriteWidth == 1

\* The margin a visible OAM entry falls into, by the engine's reading of X.
MarginOf(world) ==
    IF ~world.onScreen THEN {}
    ELSE IF EngineX(world.raw) \in -Extra..-1 THEN {"left"}
    ELSE IF EngineX(world.raw) \in NativeWidth..(NativeWidth + Extra - 1) THEN {"right"}
    ELSE {}
SpriteVerdicts(report, world) ==
    LET draws == Ink(world.pic, Extra + EngineX(world.raw), SpriteWidth) > 0
    IN Add(Add(report, "object_render_or_cull",
               IF world.expect = {} THEN "SKIP"
               ELSE IF world.expect \subseteq MarginOf(world) THEN "PASS" ELSE "FAIL"),
           "object_ppu_or_presenter",
           IF MarginOf(world) = {} THEN "SKIP" ELSE IF draws THEN "PASS" ELSE "FAIL")

(***************************************************************************)
(* text-letterbox                                                          *)
(***************************************************************************)
(* A letterboxed screen must not be a live fight, and must have flat       *)
(* margins in the backdrop colour or cleared to black, a centring budget   *)
(* with no layer extended, and the centre of its 4:3 sibling.              *)
TextVerdicts(report, world, gate) ==
    LET m == world.margin
        flat == m["left"].flat /\ m["right"].flat
        pair == {m["left"].rgb, m["right"].rgb}
        colours == flat => pair \in {{"cgram0"}, {"black"}}
        statuses ==
          [scene_is_text_or_menu |-> IF ~gate.verified THEN "SKIP"
                                     ELSE IF gate.liveFight THEN "FAIL" ELSE "PASS",
           margins_uniform |-> IF flat THEN "PASS" ELSE "FAIL",
           margins_are_backdrop_or_cleared |-> IF colours THEN "PASS" ELSE "FAIL",
           ppu_centered_budget |-> IF world.centred THEN "PASS" ELSE "FAIL",
           center_matches_native |-> Parity]
    IN [c \in DOMAIN report \cup DOMAIN statuses |->
          IF c \in DOMAIN statuses THEN statuses[c] ELSE report[c]]

(***************************************************************************)
(* The commands                                                            *)
(***************************************************************************)
\* The sides a command captures.  A savestate entry is probed first, to
\* learn the frame counter the state carries.
ParityPlan(args) ==
    (IF args.scenario = "state" THEN <<"probe">> ELSE <<>>) \o <<"native", "wide">>
        \o (IF args.control THEN <<"control">> ELSE <<>>)
Plan(args) ==
    CASE args.cmd \in {"center-parity", "text-letterbox"} -> ParityPlan(args)
      [] args.cmd = "margins" -> <<"composite", "bg1">>
      [] args.cmd = "hud-anchor" -> IF args.json
                                    THEN <<"native", "wide", "native_layer", "wide_layer">>
                                    ELSE <<>>
      [] OTHER -> <<"obj">>

\* resolve_start_frame has no dump window for a scene entered by polling.
NoWindow(args) == /\ args.cmd \in {"center-parity", "text-letterbox"}
                  /\ args.scenario = "attract_fight"

Capturing(pc) == pc \in {"launch", "capture"}
Following(plan) == IF plan = <<>> THEN "judge" ELSE "launch"

Args == {a \in [cmd : Commands, scenario : {"boot_attract", "state", "attract_fight"},
                gate : BOOLEAN, control : BOOLEAN, json : BOOLEAN] :
           /\ a.cmd \notin {"center-parity", "text-letterbox"} => a.control
           /\ a.cmd # "hud-anchor" => a.json}

\* One invocation: a command line in one of the given worlds.
VerdictStart(args, worlds) ==
    /\ vArgs = args
    /\ vWorld \in worlds
    /\ vPlan = Plan(args)
    /\ vPc = Following(vPlan)
    /\ vSides = [s \in {} |-> GateRead(FALSE, "text")]
    /\ vReport = NoReport /\ vExit = NoExit

VerdictInit == \E args \in Args : VerdictStart(args, WorldOf(args.cmd))

VerdictIdle ==
    /\ vPc = "idle" /\ vPlan = <<>> /\ vReport = NoReport /\ vExit = NoExit
    /\ vArgs = [cmd |-> "margins", scenario |-> "boot_attract", gate |-> FALSE,
                control |-> TRUE, json |-> TRUE]
    /\ vWorld = [scene |-> "text"]
    /\ vSides = [s \in {} |-> GateRead(FALSE, "text")]

(* Instance.__enter__: state.toml, the process, up to four connections.    *)
LaunchSide ==
    /\ vPc = "launch" /\ ~NoWindow(vArgs)
    /\ vPc' = "capture"
    /\ UNCHANGED <<vArgs, vWorld, vPlan, vSides, vReport, vExit>>

(* reach_scene, then the capture; the instance is left and killed.  The    *)
(* probe only reads the frame counter.                                     *)
CaptureSide ==
    /\ vPc = "capture"
    /\ \E scene \in Reachable(vArgs.scenario, vArgs.gate, vWorld.scene) :
         vSides' = [s \in DOMAIN vSides \cup {Head(vPlan)} |->
                      IF s = Head(vPlan) THEN GateRead(vArgs.gate, scene)
                      ELSE vSides[s]]
    /\ vPlan' = Tail(vPlan)
    /\ vPc' = Following(vPlan')
    /\ UNCHANGED <<vArgs, vWorld, vReport, vExit>>

(* A HarnessError anywhere before the verdict: main prints it, returns 2   *)
(* and writes no report.  The attract demo may never satisfy the gate.     *)
HarnessError ==
    /\ \/ Capturing(vPc) /\ \E fault \in HarnessFaults :
            /\ fault \in {"frame timeout", "load_state failed"} => vPc = "capture"
            /\ fault = "load_state failed" => vArgs.scenario = "state"
       \/ vPc = "judge" /\ vArgs.cmd \in {"center-parity", "text-letterbox"}
            /\ ~vWorld.took
    /\ vPc' = "done" /\ vExit' = "2"
    /\ UNCHANGED <<vArgs, vWorld, vPlan, vSides, vReport>>

(* What the harness does not turn into a HarnessError ends the interpreter *)
(* with 1: a dropped connection (Conn.j parses an empty line), or margins  *)
(* on a frame that is not widened (regions_for has no margin to look up).  *)
Uncaught ==
    /\ \/ vPc = "capture" /\ OtherFaults # {}
       \/ vPc = "judge" /\ vArgs.cmd = "margins" /\ ~vWorld.took
    /\ vPc' = "done" /\ vExit' = "1"
    /\ UNCHANGED <<vArgs, vWorld, vPlan, vSides, vReport>>

Finish(report) ==
    /\ vReport' = report
    /\ vExit' = IF ReportFailed(report) THEN "1" ELSE "0"
    /\ vPc' = "done"
    /\ UNCHANGED <<vArgs, vWorld, vPlan, vSides>>

Judging(cmd) == vPc = "judge" /\ vArgs.cmd = cmd

JudgeParity ==
    /\ Judging("center-parity") /\ vWorld.took
    /\ Finish(Add(vReport, "center_parity_byte_exact", Parity))

JudgeMargins ==
    /\ Judging("margins") /\ vWorld.took
    /\ Finish(Add(Add(vReport, "margin_non_blank", MarginNonBlank(vWorld.pic)),
                  "native_boundary_seam", BoundarySeam(vWorld)))

\* Without --hud-json both branches are SKIP and nothing is launched.
JudgeHud ==
    /\ Judging("hud-anchor")
    /\ Finish(IF ~vArgs.json
              THEN Add(Add(vReport, "hud_anchor_obj", "SKIP"), "hud_anchor_bg", "SKIP")
              ELSE BgVerdicts(Add(vReport, "hud_anchor_obj", ObjVerdict(vWorld.obj)),
                              vWorld))

JudgeText ==
    /\ Judging("text-letterbox") /\ vWorld.took
    /\ Finish(TextVerdicts(vReport, vWorld, vSides["wide"]))

JudgeSprites ==
    /\ Judging("sprite-nocull")
    /\ Finish(SpriteVerdicts(vReport, vWorld))

VerdictNext ==
    \/ LaunchSide \/ CaptureSide \/ HarnessError \/ Uncaught
    \/ JudgeParity \/ JudgeMargins \/ JudgeHud \/ JudgeText \/ JudgeSprites

VerdictSpec == VerdictInit /\ [][VerdictNext]_vVars

(***************************************************************************)
(* Properties                                                              *)
(***************************************************************************)
(* A centre that passes was measured, and the widescreen path is right on  *)
(* everything the verdict claims: at least one frame is byte-exact, no     *)
(* frame before the first divergence of any process shows the defect, and  *)
(* with reproducible processes none of the compared frames does            *)
(* (parity_verdict, compare_center).                                       *)
Passed(check) == check \in DOMAIN vReport /\ vReport[check] = "PASS"
CentreSound ==
    Passed("center_parity_byte_exact") \/ Passed("center_matches_native") =>
       /\ vWorld.defect > 0
       /\ vWorld.defect >= Min({vWorld.noise[s] : s \in ParitySides} \cup {Want})

(* A HUD that passes is anchored: the exported band reaches both 16:9      *)
(* edges and governs every column exactly once from inside the native      *)
(* line, and on a static scanline the two edge groups of the wide picture  *)
(* are the native columns, unscaled (hud-anchor, BG branch).               *)
HudAnchored ==
    vExit = "0" /\ Passed("elastic_bands_wellformed") /\ ~Identity(vWorld.bands) =>
       LET band == vWorld.bands
           first == band[1]
           last == band[Len(band)]
           wide == HudWide(vWorld)
       IN /\ \A x \in -Extra..(NativeWidth + Extra - 1) :
               Cardinality({p \in Sampled(band) : p[1] = x}) = 1
          /\ vWorld.still =>
               /\ \A s \in 0..(first[2] - 1) :
                     s >= first[1] => wide[s - first[1]] = vWorld.pic[s]
               /\ \A s \in last[1]..(NativeWidth - 1) :
                     s < last[2] => wide[s + 2 * Extra] = vWorld.pic[s]
=============================================================================
