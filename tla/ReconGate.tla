------------------------------ MODULE ReconGate ------------------------------
(***************************************************************************)
(* scripts/widescreen/recon_gate.py: finding the WRAM word that says "live *)
(* fight" and the counter that runs only in one.  The stages leave result  *)
(* files for each other; the verdict publishes gate.json.                  *)
(*                                                                         *)
(* Time is counted in frames from the anchor, the first frame at which the *)
(* fight's display configuration is seen.                                  *)
(***************************************************************************)
EXTENDS ReconScene

CONSTANTS Addresses,      \* SHORTLIST
          GateMode,       \* GATE_MODE_ADDR
          GateCoarse,     \* GATE_COARSE_ADDR
          GateLiveness,   \* GATE_LIVENESS_ADDR
          AttractOffsets, \* ATTRACT_OFFSETS: [label, off, screen, live]
          StateScenes,    \* STATE_SCENES: [label, screen]
          SweepLengths,   \* values of --frames
          Anchors,        \* frames the attract fight may begin at (drift)
          RingLength,     \* frames the WRAM history holds
          MinTicks,       \* the 3 changes a liveness word makes at least
          GateRuns        \* bound: invocations of the tool

ASSUME GateAssumption ==
    /\ {GateMode, GateCoarse, GateLiveness} \subseteq Addresses
    /\ RingLength \in Nat /\ GateRuns \in Nat /\ MinTicks \in Nat \ {0}

(* The two tables: a sample taken as live is taken inside the fight under a  *)
(* label of its own, no banked scene is live, and one of them is a battle    *)
(* screen.                                                                   *)
ASSUME SampleAssumption ==
    /\ IsFiniteSet(AttractOffsets)
    /\ \A s, t \in AttractOffsets :
         s.live /\ t.live => s.screen = "fight" /\ (s.label = t.label => s = t)
    /\ \A s \in StateScenes : ~s.live
    /\ \E s \in StateScenes : s.screen \in {"quote", "round end"}

(* How an address behaves: constant, set in a live fight only, set in the  *)
(* whole battle family, set by a fight and never cleared, counting in a    *)
(* running fight, counting in a fight and on the quote, always changing.   *)
Behaviours == {"constant", "mode", "battle", "latched", "counter", "rng"}
BattleFamily == {"fight", "quote", "round end"}

\* The value an address has in one sample; counters differ per sample.
ValueAt(behaviour, sample) ==
    CASE behaviour = "mode" -> IF sample.screen = "fight" THEN "set" ELSE "clear"
      [] behaviour = "battle" -> IF sample.screen \in BattleFamily THEN "set" ELSE "clear"
      [] behaviour = "latched" -> IF sample.screen \in {"fight", "after"} THEN "set" ELSE "clear"
      [] behaviour = "counter" -> IF sample.screen = "fight" THEN sample.label ELSE "clear"
      [] behaviour = "rng" -> sample.label
      [] OTHER -> "clear"
Ticks(behaviour, screen) ==
    IF behaviour = "rng" \/ (behaviour = "counter" /\ screen = "fight")
    THEN MinTicks + 1 ELSE 0

VARIABLES gateJobs,     \* stages left of this invocation
          runsLeft,     \* invocations left to make
          behaviour,    \* how each address behaves in the guest
          anchor,       \* where this run's attract fight begins
          sweepLength,  \* --frames
          gateFiles     \* the result files, by stage

reconGateVars == <<gateJobs, runsLeft, behaviour, anchor, sweepLength, gateFiles>>

Order == <<"sweep", "states", "diff", "narrow", "confirm", "liveness",
           "writers", "verdict">>

ReconGateInit ==
    /\ gateJobs = <<>> /\ runsLeft = GateRuns
    /\ behaviour \in {b \in [Addresses -> Behaviours] :
                        b[GateCoarse] \in {"battle", "constant"}}
    /\ anchor = 0 /\ sweepLength = 0
    /\ gateFiles = [f \in {} |-> {}]

ReconGateIdle ==
    /\ gateJobs = <<>> /\ runsLeft = 0
    /\ behaviour = [a \in Addresses |-> "constant"]
    /\ anchor = 0 /\ sweepLength = 0
    /\ gateFiles = [f \in {} |-> {}]

(* main: one stage, or all of them in order.  The attract cycle drifts     *)
(* from run to run, so each invocation has an anchor of its own.           *)
GateInvoke ==
    /\ gateJobs = <<>> /\ runsLeft > 0
    /\ runsLeft' = runsLeft - 1
    /\ \E i \in {Order} \cup {<<Order[k]>> : k \in DOMAIN Order} : gateJobs' = i
    /\ anchor' \in Anchors /\ sweepLength' \in SweepLengths
    /\ UNCHANGED <<behaviour, gateFiles>>

Reads(stage) ==
    CASE stage = "diff" -> {"sweep", "states"} [] stage = "narrow" -> {"diff"}
      [] stage = "verdict" -> {"sweep", "states", "confirm", "writers"}
      [] OTHER -> {}
GateStage(name) == /\ gateJobs # <<>> /\ Head(gateJobs) = name
                   /\ Reads(name) \subseteq DOMAIN gateFiles
GateWrites(name, content) ==
    /\ gateFiles' = [f \in DOMAIN gateFiles \cup {name} |->
                       IF f = name THEN content ELSE gateFiles[f]]
    /\ gateJobs' = Tail(gateJobs)
    /\ UNCHANGED <<runsLeft, behaviour, anchor, sweepLength>>

(* A stage that cannot read its inputs, or whose process fails, ends the   *)
(* invocation and leaves the files of earlier stages as they are.          *)
GateStageFails ==
    /\ gateJobs # <<>>
    /\ \/ ~(Reads(Head(gateJobs)) \subseteq DOMAIN gateFiles)
       \/ Head(gateJobs) \notin {"diff", "verdict"}
    /\ gateJobs' = <<>>
    /\ UNCHANGED <<runsLeft, behaviour, anchor, sweepLength, gateFiles>>

(* stage_sweep: a sample for every offset the history ring still holds.    *)
(* A sweep that never sees the fight raises.                               *)
Oldest == IF sweepLength > RingLength THEN sweepLength - RingLength ELSE 0
InHistory(o) == anchor + o.off >= Oldest /\ anchor + o.off <= sweepLength
Sweep == /\ GateStage("sweep") /\ anchor <= sweepLength
         /\ GateWrites("sweep", {o \in AttractOffsets : InHistory(o)})

\* stage_states: one process per banked scene.
States == GateStage("states") /\ GateWrites("states", StateScenes)

(* stage_diff: constant over the live samples and different in every other *)
(* one; with no live sample it raises.  stage_narrow, stage_liveness and   *)
(* stage_writers report to the reader; the verdict uses the last of them   *)
(* as a hint only.                                                         *)
Values(a, samples) == {ValueAt(behaviour[a], s) : s \in samples}
Live(samples) == {s \in samples : s.live}
Unique_ConstantOnly(a, samples) ==   \* other screens may show the value too
    Cardinality(Values(a, Live(samples))) = 1
Unique(a, samples) ==
    /\ Cardinality(Values(a, Live(samples))) = 1
    /\ Values(a, Live(samples)) \cap Values(a, samples \ Live(samples)) = {}
Diff ==
    /\ GateStage("diff")
    /\ Live(gateFiles["sweep"]) # {}
    /\ GateWrites("diff", {a \in Addresses :
                             Unique(a, gateFiles["sweep"] \cup gateFiles["states"])})
DiffRaises ==
    /\ GateStage("diff")
    /\ Live(gateFiles["sweep"]) = {}
    /\ gateJobs' = <<>>
    /\ UNCHANGED <<runsLeft, behaviour, anchor, sweepLength, gateFiles>>

\* stage_narrow: one value through the fight, another before and after it.
RoundTrips(a) == behaviour[a] = "mode"
Narrow == /\ GateStage("narrow")
          /\ GateWrites("narrow", {a \in gateFiles["diff"] : RoundTrips(a)})

\* stage_confirm: changes inside the fight window and the quote window.
Confirm ==
    /\ GateStage("confirm")
    /\ GateWrites("confirm",
         {[addr |-> a, fight |-> Ticks(behaviour[a], "fight"),
           quote |-> Ticks(behaviour[a], "quote")] : a \in Addresses})

\* stage_liveness: changes on every fight frame and on no other screen's.
Liveness ==
    /\ GateStage("liveness")
    /\ GateWrites("liveness",
         {a \in Addresses :
            /\ Ticks(behaviour[a], "fight") > 0
            /\ \A s \in {"title", "crawl", "quote", "round end"} :
                 Ticks(behaviour[a], s) = 0})

Writers == GateStage("writers") /\ GateWrites("writers", {})

(* stage_verdict: an address that is unique to the live samples is a mode  *)
(* word, one that ticks in the fight and not on the quote is a liveness    *)
(* word.  gate.json names the expected liveness word, or else the first    *)
(* one classified as such, and always the expected mode word.              *)
TicksOf(a, screen) ==
    LET row == CHOOSE r \in gateFiles["confirm"] : r.addr = a
    IN IF screen = "fight" THEN row.fight ELSE row.quote
Classify(a, samples) ==
    IF Unique(a, samples) THEN "mode"
    ELSE IF TicksOf(a, "fight") >= MinTicks /\ TicksOf(a, "quote") = 0
         THEN "liveness" ELSE "reject"
Verdict ==
    /\ GateStage("verdict")
    /\ LET samples == gateFiles["sweep"] \cup gateFiles["states"]
           verdict == [a \in Addresses |-> Classify(a, samples)]
           lively == {a \in Addresses : verdict[a] = "liveness"}
       IN \E live \in (IF GateLiveness \in lively THEN {GateLiveness}
                       ELSE IF lively # {} THEN lively ELSE {"none"}) :
            GateWrites("verdict", {[verdict |-> verdict, samples |-> samples,
                                    mode |-> GateMode, liveness |-> live]})

ReconGateNext ==
    \/ GateInvoke \/ GateStageFails
    \/ Sweep \/ States \/ Diff \/ DiffRaises \/ Narrow
    \/ Confirm \/ Liveness \/ Writers \/ Verdict

ReconGateSpec == ReconGateInit /\ [][ReconGateNext]_reconGateVars

(***************************************************************************)
(* Property                                                                *)
(***************************************************************************)
(* gate.json separates: an address it classifies as a mode word is set in  *)
(* a live fight and on no other screen, and the liveness word it names     *)
(* moves in the fight and stands still on the quote, which no mode word    *)
(* does; whatever run each of its inputs came from and however the attract *)
(* cycle drifted in between, as long as the sweep it used reached past the *)
(* end of the fight and took two samples in it.                            *)
SweepIsWide(samples) ==
    /\ Cardinality(Live(samples)) >= 2
    /\ \E s \in samples : s.screen = "after"
GateSeparates ==
    "verdict" \in DOMAIN gateFiles =>
      \A g \in gateFiles["verdict"] :
        SweepIsWide(g.samples) =>
          /\ \A a \in Addresses : g.verdict[a] = "mode" => behaviour[a] = "mode"
          /\ g.liveness # "none" => /\ Ticks(behaviour[g.liveness], "fight") > 0
                                    /\ Ticks(behaviour[g.liveness], "quote") = 0
=============================================================================
