------------------------------ MODULE WsMetrics ------------------------------
(***************************************************************************)
(* scripts/widescreen/ws_metrics.py: the measurements the widescreen       *)
(* verdicts are made of.  A picture is one scanline, a function from its   *)
(* columns 0..width-1 to a colour: every measurement here is a sum or a    *)
(* comparison over columns.                                                *)
(***************************************************************************)
EXTENDS Integers, Sequences, FiniteSets, FiniteSetsExt

CONSTANTS NativeWidth,   \* NATIVE_WIDTH
          Extra,         \* ws_extra, the margin on each side
          ShareDen,      \* 1 / MARGIN_SHARE
          PresentDen,    \* 1 / LAYER_PRESENT_MIN
          SeamRatio,     \* SEAM_RATIO
          SeamExcess,    \* SEAM_EXCESS
          EdgeReach,     \* the 5 columns edge_score looks at on each side
          XModulus       \* 512, the range of an OAM X

ASSUME MetricsAssumption ==
    {NativeWidth, Extra, ShareDen, PresentDen, SeamRatio, SeamExcess, EdgeReach,
     XModulus} \subseteq Nat \ {0}

WideWidth == NativeWidth + 2 * Extra
Columns == 0..(WideWidth - 1)

\* regions_for, for a widened frame.
Left == 0..(Extra - 1)
Native == Extra..(Extra + NativeWidth - 1)
Right == (Extra + NativeWidth)..(WideWidth - 1)

(* margin_metrics: the dominant colour is the most common one, the first   *)
(* seen among equals (Counter.most_common); a region is measured against   *)
(* it.                                                                     *)
Count(pic, colour) == Cardinality({x \in DOMAIN pic : pic[x] = colour})
FirstSeen(pic, colour) == Min({x \in DOMAIN pic : pic[x] = colour})
Backdrop(pic) ==
    LET colours == {pic[x] : x \in DOMAIN pic}
    IN CHOOSE c \in colours : \A d \in colours \ {c} :
         \/ Count(pic, c) > Count(pic, d)
         \/ Count(pic, c) = Count(pic, d) /\ FirstSeen(pic, c) < FirstSeen(pic, d)
NonBackdrop(pic, region) ==
    Cardinality({x \in region : pic[x] # Backdrop(pic)})

(* edge_score: the step at a column against the mean step of its           *)
(* neighbours, kept as a sum and a count; SeamHit compares the two         *)
(* thresholds without dividing (a baseline below 1 counts as 1).           *)
Distance(a, b) == IF a > b THEN a - b ELSE b - a
Step(pic, x) == Distance(pic[x - 1], pic[x])
Nearby(edge) == (Max({1, edge - EdgeReach})..
                 Min({WideWidth - 1, edge + EdgeReach})) \ {edge}
EdgeScore(pic, edge) ==
    [edge |-> Step(pic, edge),
     sum |-> FoldSet(LAMBDA x, acc : acc + Step(pic, x), 0, Nearby(edge)),
     n |-> Cardinality(Nearby(edge))]
SeamHit(score) ==
    /\ score.edge * Max({score.n, 1}) >= SeamRatio * Max({score.sum, score.n, 1})
    /\ score.edge * Max({score.n, 1}) - score.sum >= SeamExcess * Max({score.n, 1})

(* signed_x_interpretations: the engine's reading of an OAM X wraps at the *)
(* end of the right margin.                                                *)
EngineX(raw) == IF raw >= NativeWidth + Extra THEN raw - XModulus ELSE raw

(* row_backdrops and rect_has_ink: a sprite has ink where its clipped      *)
(* columns differ from the modal colour of their own scanline.             *)
Ink(pic, x0, width) ==
    Cardinality({x \in Max({0, x0})..(Min({WideWidth, x0 + width}) - 1) :
                   pic[x] # Backdrop(pic)})

(***************************************************************************)
(* The scene gate and the entry of a scene                                 *)
(***************************************************************************)
(* What the guest shows: the mode word names the fight in a running fight, *)
(* a frozen one and the victory quote; only a running fight counts frames. *)
Scenes == {"text", "fight", "frozen", "quote"}

\* Gate.read on a scene; without a gate spec nothing is verified.
GateRead(verified, scene) ==
    [verified |-> verified,
     fightMode |-> verified /\ scene \in Scenes \ {"text"},
     liveFight |-> verified /\ scene = "fight"]

(* reach_scene: the scenes a successful entry may leave the guest in.  The *)
(* attract entry polls the gate, settles 120 frames inside the round and   *)
(* reads the gate again without testing it; the others read it only.       *)
Settled(scene) == IF scene = "fight" THEN {"fight", "quote"} ELSE {scene}
Reachable(scenario, verified, scene) ==
    IF scenario = "attract_fight" /\ verified
    THEN (IF scene = "fight" THEN Settled(scene) ELSE {})
    ELSE {scene}

(* The faults that end a measurement: those the harness turns into a       *)
(* HarnessError, and the one it does not (the connection drops, so that    *)
(* Conn.j parses an empty reply).                                          *)
HarnessFaults == {"toml contended", "no exe", "exited", "no connection",
                  "frame timeout", "load_state failed"}
OtherFaults == {"connection dropped"}

(***************************************************************************)
(* Report                                                                  *)
(***************************************************************************)
\* Report.add keeps every check's status; only a FAIL sticks to the report.
NoReport == [c \in {} |-> "SKIP"]
Add(report, check, status) ==
    [c \in DOMAIN report \cup {check} |-> IF c = check THEN status ELSE report[c]]
ReportFailed(report) == \E c \in DOMAIN report : report[c] = "FAIL"
=============================================================================
