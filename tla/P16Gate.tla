------------------------------- MODULE P16Gate -------------------------------
(***************************************************************************)
(* scripts/widescreen/p16_gate.py: the release gate that runs a baseline   *)
(* and a candidate executable with widescreen off and compares their       *)
(* evidence: WRAM digests, pictures, runtime events.                       *)
(*                                                                         *)
(* A digest or a picture is a guest frame number with a tag; the two sides *)
(* reach a guest frame at different frame numbers (the boot skew), and     *)
(* the candidate may differ from some guest frame on.                      *)
(***************************************************************************)
EXTENDS Integers, Sequences, FiniteSets, FiniteSetsExt

CONSTANTS Frames,        \* --frames, the last frame number of a run
          BmpStep,       \* --bmp-step
          MaxOffset,     \* MAX_OFFSET
          MinOverlap,    \* the 30 frames an alignment needs at least
          MaxSkew        \* bound: how late a process starts the guest

ASSUME P16Assumption ==
    /\ {Frames, BmpStep, MaxOffset, MinOverlap} \subseteq Nat \ {0}
    /\ MaxSkew \in Nat

Sides == {"baseline", "candidate"}
None == "none"
Never == Frames + 1      \* a guest frame no run reaches

VARIABLES gatePc,        \* "idle", the side that runs next, "check" or "done"
          gateArgs,      \* scenarios still to judge, --trace, --baseline-no-framedump
          gateWorld,     \* what the two builds really do
          evidence,      \* what the sides of this scenario left behind
          failed, gateExit

gateVars == <<gatePc, gateArgs, gateWorld, evidence, failed, gateExit>>

(* The builds: when each process starts the guest and when it dies, the    *)
(* guest frame from which the candidate's memory, or picture, is wrong,    *)
(* and the shape of the candidate's picture.                               *)
Shapes == {"native", "wide", "sliced", "odd", "narrow"}
Worlds == [skew : [Sides -> 0..MaxSkew], stop : [Sides -> {1, Frames}],
           wrongRam : {1, Frames - 1, Never}, wrongPixel : {2, Never},
           shape : Shapes]

Guest(world, side, f) == IF f < world.skew[side] THEN 0 ELSE f - world.skew[side]

Tagged(world, side, g, wrong) ==
    <<g, IF side = "candidate" /\ g >= wrong THEN "other" ELSE "same">>

(* run_side: what one process leaves.  A run without a framedump is        *)
(* stopped by the wall clock and reports -1.                               *)
Evidence(world, side, noFramedump) ==
    LET frames == 0..world.stop[side]
    IN [crc |-> [f \in (IF noFramedump THEN {} ELSE frames) |->
                    Tagged(world, side, Guest(world, side, f), world.wrongRam)],
        bmp |-> [f \in {g \in frames : g % BmpStep = 0} |->
                    Tagged(world, side, Guest(world, side, f), world.wrongPixel)],
        events |-> IF world.stop[side] = Frames THEN 0 ELSE 1,
        rc |-> IF noFramedump THEN -1 ELSE IF world.stop[side] = Frames THEN 0 ELSE 1]

(* The faults run_side turns into a HarnessError, in its order.            *)
Faults == {"contended", "no state", "refused", "late", None}
Refused(scenario, trace, noFramedump, fault) ==
    \/ fault = "contended"
    \/ scenario = "state" /\ (~trace \/ fault \in {"no state", "refused"})
    \/ scenario \notin {"state", "boot_attract"}
    \/ fault = "late" /\ ~noFramedump

(***************************************************************************)
(* The checks                                                              *)
(***************************************************************************)
\* check_wram_crc.compare: candidate frame f against baseline frame f + off.
Overlap(b, c, off) == {f \in DOMAIN c : f + off \in DOMAIN b}
Agrees(b, c, off) == \A f \in Overlap(b, c, off) : b[f + off] = c[f]
Need_Unbounded(b, c) == 0   \* no minimal overlap
Need(b, c) == Max({MinOverlap,
                   Min({Cardinality(DOMAIN b), Cardinality(DOMAIN c)}) \div 2})
Aligns(b, c, off) == /\ Cardinality(Overlap(b, c, off)) >= Need(b, c)
                     /\ Agrees(b, c, off)

\* The search order of check_wram_crc: 0, 1, -1, 2, -2, ...
Rank(off) == IF off > 0 THEN 2 * off - 1 ELSE -2 * off

CheckWramCrc(b, c) ==
    LET good == {off \in -MaxOffset..MaxOffset : Aligns(b, c, off)}
    IN IF DOMAIN b = {} \/ DOMAIN c = {} THEN [status |-> "SKIP", offset |-> 0]
       ELSE IF good = {} THEN [status |-> "FAIL", offset |-> 0]
       ELSE [status |-> "PASS",
             offset |-> CHOOSE o \in good : \A p \in good : Rank(o) <= Rank(p)]

\* One pair of pictures in check_pixels: a wider candidate must hold the
\* native columns in its centre and one colour in each margin band.
PairBad(shape, bPic, cPic) == shape \in {"odd", "narrow", "sliced"} \/ bPic # cPic

(* check_pixels: the pairs of the WRAM offset, or the same-numbered frames *)
(* when that leaves too few of them.                                       *)
Pairs(b, c, off) == {f \in DOMAIN c : f + off \in DOMAIN b}
UsedOffset(b, c, off) ==
    LET few == Max({2, Cardinality(DOMAIN c) \div 2})
    IN IF /\ Cardinality(Pairs(b, c, off)) < few
          /\ Cardinality(Pairs(b, c, 0)) > Cardinality(Pairs(b, c, off))
       THEN 0 ELSE off

CheckPixels(b, c, off, shape) ==
    LET use == UsedOffset(b, c, off)
        pairs == Pairs(b, c, use)
    IN IF \/ pairs = {}
          \/ \E f \in pairs : PairBad(shape, b[f + use], c[f])
       THEN "FAIL" ELSE "PASS"

\* check_events: more hits than the baseline, or a candidate that did not
\* exit with 0.
CheckEvents(base, cand) ==
    IF cand.events > base.events \/ cand.rc # 0 THEN "FAIL" ELSE "PASS"

Judge(base, cand, shape) ==
    LET wram == CheckWramCrc(base.crc, cand.crc)
    IN [wram |-> wram.status,
        pixels |-> CheckPixels(base.bmp, cand.bmp, wram.offset, shape),
        events |-> CheckEvents(base, cand)]

(***************************************************************************)
(* main                                                                    *)
(***************************************************************************)
NoEvidence == [s \in {} |-> 0]

GateInit ==
    /\ gatePc = "baseline"
    /\ gateArgs \in [scenarios : {<<"boot_attract">>, <<"boot_attract", "state">>,
                                  <<"unknown">>},
                     trace : BOOLEAN, noFramedump : BOOLEAN]
    /\ gateWorld \in Worlds
    /\ evidence = NoEvidence /\ failed = FALSE /\ gateExit = None

GateIdle ==
    /\ gatePc = "idle"
    /\ gateArgs = [scenarios |-> <<>>, trace |-> FALSE, noFramedump |-> FALSE]
    /\ gateWorld = CHOOSE w \in Worlds : w.shape = "native"
    /\ evidence = NoEvidence /\ failed = FALSE /\ gateExit = None

(* One side in a fresh process.  The candidate always writes a framedump.  *)
RunSide(side, fault) ==
    LET noFramedump == side = "baseline" /\ gateArgs.noFramedump
    IN /\ gatePc = side
       /\ gateArgs.scenarios # <<>>
       /\ ~Refused(Head(gateArgs.scenarios), gateArgs.trace, noFramedump, fault)
       /\ evidence' = [s \in (DOMAIN evidence) \cup {side} |->
                         IF s = side THEN Evidence(gateWorld, s, noFramedump)
                         ELSE evidence[s]]
       /\ gatePc' = IF side = "baseline" THEN "candidate" ELSE "check"
       /\ UNCHANGED <<gateArgs, gateWorld, failed, gateExit>>

(* A HarnessError ends main with 2, whatever was already judged.           *)
GateError(side, fault) ==
    /\ gatePc = side
    /\ gateArgs.scenarios # <<>>
    /\ Refused(Head(gateArgs.scenarios), gateArgs.trace,
               side = "baseline" /\ gateArgs.noFramedump, fault)
    /\ gatePc' = "done" /\ gateExit' = "2"
    /\ UNCHANGED <<gateArgs, gateWorld, evidence, failed>>

Verdicts == Judge(evidence["baseline"], evidence["candidate"], gateWorld.shape)

(* The three checks of a scenario; the exit code after the last one.       *)
CheckScenario ==
    /\ gatePc = "check"
    /\ LET bad == \E k \in DOMAIN Verdicts : Verdicts[k] = "FAIL"
           rest == Tail(gateArgs.scenarios)
       IN /\ failed' = (failed \/ bad)
          /\ gateArgs' = [gateArgs EXCEPT !.scenarios = rest]
          /\ gatePc' = IF rest = <<>> THEN "done" ELSE "baseline"
          /\ gateExit' = IF rest # <<>> THEN None ELSE IF failed' THEN "1" ELSE "0"
    /\ UNCHANGED <<gateWorld, evidence>>

GateNext ==
    \/ \E side \in Sides, fault \in Faults :
         RunSide(side, fault) \/ GateError(side, fault)
    \/ CheckScenario

GateSpec == GateInit /\ [][GateNext]_gateVars

(***************************************************************************)
(* Properties                                                              *)
(***************************************************************************)
(* A gate that exits 0 hides no wrong candidate: when both sides wrote a   *)
(* framedump, no guest frame that both of them recorded is one at which    *)
(* the candidate's memory is wrong, whatever the boot skew and wherever    *)
(* the offset search of check_wram_crc stopped; and a candidate that is    *)
(* not pixel-safe never passes.                                            *)
Reached(side) == {Guest(gateWorld, side, f) : f \in 0..gateWorld.stop[side]}
GatePassSound ==
    gateExit = "0" =>
       /\ gateWorld.shape \in {"native", "wide"}
       /\ gateWorld.stop["candidate"] = Frames
       /\ ~gateArgs.noFramedump =>
            \A g \in Reached("baseline") \cap Reached("candidate") :
               g < gateWorld.wrongRam
=============================================================================
