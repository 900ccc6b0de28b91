-------------------------- MODULE GuestTools_proofs --------------------------
(* The tools that measure a running guest: what they print, publish or bank  *)
(* is true of the builds, for every size the tools are given.                *)
EXTENDS P16Gate, WsVerdicts, ReconScreens, ReconGate, ReconCamera, StateHunt,
        FiniteSetTheorems, WellFoundedInduction, TLAPS

(*****************************************************************************)
(* General facts                                                             *)
(*****************************************************************************)
(* A nonempty set of naturals has a least element: the initial segments are
   finite, and strict inclusion among finite sets is well-founded.  Every
   argument below that would be an induction picks a least counterexample. *)
LEMMA LeastNat ==
  ASSUME NEW T, T \subseteq Nat, T # {}
  PROVE \E x \in T : \A y \in T : x <= y
<1>1. PICK n \in T : TRUE
  OBVIOUS
<1> DEFINE S == 0 .. n
           R == StrictSubsetOrdering(S)
           F == {A \in SUBSET S : \E m \in T : m <= n /\ A = 0 .. m}
<1>2. IsFiniteSet(S)
  BY FS_Interval
<1>3. IsWellFoundedOn(R, SUBSET S)
  BY <1>2, FS_StrictSubsetOrderingWellFounded, FS_FiniteSubsetsOfFinite, Zenon
<1>4. S \in F
  BY <1>1
<1>5. \A A, B \in SUBSET S : A \subseteq B /\ A # B => <<A, B>> \in R
  BY DEF StrictSubsetOrdering
<1>6. F \subseteq SUBSET S /\ F # {}
  BY <1>4
<1> HIDE DEF R, F
<1>7. PICK A \in F : \A B \in F : ~(<<B, A>> \in R)
  BY <1>3, <1>6, WFMin, Zenon
<1>8. PICK m \in T : m <= n /\ A = 0 .. m
  BY <1>7 DEF F
<1>9. ASSUME NEW k \in T, k < m
      PROVE  FALSE
  <2>1. 0 .. k \in F
    BY <1>1, <1>8, <1>9 DEF F
  <2>2. 0 .. k \subseteq A /\ 0 .. k # A
    BY <1>1, <1>8, <1>9
  <2>3. QED
    BY <1>5, <1>6, <1>7, <2>1, <2>2
<1>10. \A k \in T : m <= k
  BY <1>8, <1>9
<1>11. QED
  BY <1>8, <1>10

(* Min of the community modules, on naturals. *)
LEMMA LeastOfNats ==
  ASSUME NEW T, T \subseteq Nat, T # {}
  PROVE  Min(T) \in T /\ \A y \in T : Min(T) <= y
<1>1. \E x \in T : \A y \in T : x <= y
  BY LeastNat
<1>2. QED
  BY <1>1 DEF Min

(*****************************************************************************)
(* p16_gate.py: the release gate                                             *)
(*****************************************************************************)
(* Max and Min of two integers. *)
LEMMA PairBounds ==
  ASSUME NEW a \in Int, NEW b \in Int
  PROVE  /\ Max({a, b}) \in {a, b} /\ Max({a, b}) >= a
         /\ Min({a, b}) \in {a, b}
<1>1. \E x \in {a, b} : \A y \in {a, b} : x >= y
  OBVIOUS
<1>2. \E x \in {a, b} : \A y \in {a, b} : x <= y
  OBVIOUS
<1>3. QED
  BY <1>1, <1>2 DEF Max, Min

(* The numbers of a world. *)
WorldFacts(w) ==
  /\ w.skew["baseline"] \in Nat /\ w.skew["candidate"] \in Nat
  /\ w.stop["baseline"] \in Nat /\ w.stop["candidate"] \in Nat
  /\ w.wrongRam \in Nat

(* Every world the gate can meet has natural skews, stops and frames. *)
LEMMA WorldTypes == \A w \in Worlds : WorldFacts(w)
  BY P16Assumption DEF Worlds, Sides, Never, WorldFacts

(* An alignment is never judged on nothing: Need asks for one common frame at
   least, whatever was recorded. *)
LEMMA NeedIsPositive ==
  ASSUME NEW b, NEW c, NEW m \in Nat, NEW n \in Nat,
         DOMAIN b = 0..m, DOMAIN c = 0..n
  PROVE  Need(b, c) \in Int /\ Need(b, c) >= 1
<1>1. Cardinality(DOMAIN b) \in Int /\ Cardinality(DOMAIN c) \in Int
  <2>1. \A k \in Nat : Cardinality(0..k) \in Int
    <3>1. SUFFICES ASSUME NEW k \in Nat PROVE Cardinality(0..k) \in Int
      OBVIOUS
    <3>2. 0 \in Int /\ k \in Int
      OBVIOUS
    <3>3. Cardinality(0..k) = IF 0 > k THEN 0 ELSE k - 0 + 1
      BY <3>2, FS_Interval
    <3>4. QED
      BY <3>3
  <2>2. QED
    BY <2>1
<1> DEFINE small == Min({Cardinality(DOMAIN b), Cardinality(DOMAIN c)})
<1>2. small \in Int
  BY <1>1, PairBounds
<1> HIDE DEF small
<1>3. small \div 2 \in Int /\ MinOverlap \in Int /\ MinOverlap >= 1
  BY <1>2, P16Assumption
<1> DEFINE half == small \div 2
<1> HIDE DEF half
<1>4. Max({MinOverlap, half}) \in Int /\ Max({MinOverlap, half}) >= 1
  <2>1. MinOverlap \in Int /\ half \in Int /\ MinOverlap >= 1
    BY <1>3 DEF half
  <2>2. /\ Max({MinOverlap, half}) \in {MinOverlap, half}
        /\ Max({MinOverlap, half}) >= MinOverlap
    BY <2>1, PairBounds
  <2> HIDE DEF half
  <2>3. Max({MinOverlap, half}) \in Int
    BY <2>1, <2>2
  <2>4. QED
    BY <2>1, <2>2, <2>3
<1>5. QED
  BY <1>4 DEF Need, small, half

(* What the baseline recorded. *)
BaseCrc(w) == Evidence(w, "baseline", FALSE).crc

(* What the candidate recorded. *)
CandCrc(w) == Evidence(w, "candidate", FALSE).crc

(* What a side records: one tagged guest frame per frame number. *)
LEMMA Digests ==
  ASSUME NEW w
  PROVE  /\ DOMAIN BaseCrc(w) = 0..w.stop["baseline"]
         /\ DOMAIN CandCrc(w) = 0..w.stop["candidate"]
         /\ \A f \in 0..w.stop["baseline"] :
              BaseCrc(w)[f] = <<Guest(w, "baseline", f), "same">>
         /\ \A f \in 0..w.stop["candidate"] :
              CandCrc(w)[f] = <<Guest(w, "candidate", f),
                                IF Guest(w, "candidate", f) >= w.wrongRam
                                THEN "other" ELSE "same">>
  BY DEF BaseCrc, CandCrc, Evidence, Tagged

(* The heart of the gate.  If some offset aligns the two digests, a guest
   frame that both sides recorded is one before the candidate goes wrong: at
   the skew difference it is compared directly; at any other offset the sides
   agree only while both stand at guest frame 0, so the overlap ends where
   one of them has not started and they have nothing else in common. *)
LEMMA AlignmentIsSound ==
  ASSUME NEW w \in Worlds, NEW off \in Int,
         Aligns(BaseCrc(w), CandCrc(w), off),
         NEW fb \in 0..w.stop["baseline"], NEW fc \in 0..w.stop["candidate"],
         Guest(w, "baseline", fb) = Guest(w, "candidate", fc)
  PROVE  Guest(w, "candidate", fc) < w.wrongRam
<1> DEFINE sb == w.skew["baseline"]
           sc == w.skew["candidate"]
           mb == w.stop["baseline"]
           mc == w.stop["candidate"]
           W == w.wrongRam
           Gb(f) == IF f < sb THEN 0 ELSE f - sb
           Gc(f) == IF f < sc THEN 0 ELSE f - sc
           O == {f \in 0..mc : f + off \in 0..mb}
<1>1. sb \in Nat /\ sc \in Nat /\ mb \in Nat /\ mc \in Nat /\ W \in Nat
  BY WorldTypes DEF WorldFacts
<1>2. O = Overlap(BaseCrc(w), CandCrc(w), off)
  BY Digests DEF Overlap
<1>3. O # {}
  <2>1. Need(BaseCrc(w), CandCrc(w)) \in Int /\ Need(BaseCrc(w), CandCrc(w)) >= 1
    BY <1>1, Digests, NeedIsPositive
  <2>2. Cardinality(O) >= Need(BaseCrc(w), CandCrc(w))
    BY <1>2 DEF Aligns
  <2>3. Cardinality({}) = 0
    BY FS_EmptySet
  <2> HIDE DEF O
  <2>4. QED
    BY <2>1, <2>2, <2>3
<1>4. \A f : Guest(w, "baseline", f) = Gb(f) /\ Guest(w, "candidate", f) = Gc(f)
  BY DEF Guest
<1>5. ASSUME NEW f \in O
      PROVE  Gb(f + off) = Gc(f) /\ Gc(f) < W
  <2>1. BaseCrc(w)[f + off] = CandCrc(w)[f]
    BY <1>2, <1>5 DEF Aligns, Agrees
  <2>2. f \in 0..mc /\ f + off \in 0..mb /\ Gc(f) \in Nat
    BY <1>1
  <2>3. /\ BaseCrc(w)[f + off] = <<Gb(f + off), "same">>
        /\ CandCrc(w)[f] = <<Gc(f), IF Gc(f) >= W THEN "other" ELSE "same">>
    BY <1>4, <2>2, Digests
  <2> HIDE DEF Gb, Gc, W
  <2> DEFINE x == Gb(f + off)
             y == Gc(f)
             z == IF Gc(f) >= W THEN "other" ELSE "same"
  <2> HIDE DEF x, y, z
  <2>6. <<x, "same">> = <<y, z>>
    BY <2>1, <2>3 DEF x, y, z
  <2>7. x = y /\ "same" = z
    BY <2>6
  <2>4. /\ Gb(f + off) = Gc(f)
        /\ "same" = IF Gc(f) >= W THEN "other" ELSE "same"
    BY <2>7 DEF x, y, z
  <2>5. QED
    BY <1>1, <2>2, <2>4
<1>6. Gb(fb) = Gc(fc) /\ fb \in 0..mb /\ fc \in 0..mc
  BY <1>4
<1> HIDE DEF sb, sc, mb, mc, W
<1>7. PICK f0 \in O : TRUE
  BY <1>3
<1>8. f0 \in 0..mc /\ f0 + off \in 0..mb /\ Gc(f0) < W
  BY <1>5, <1>7
<1>13. SUFFICES Gc(fc) < W
  BY <1>4 DEF W
<1>9. CASE Gc(fc) = 0
  BY <1>1, <1>8, <1>9
<1>10. CASE Gc(fc) # 0
  <2>1. fc >= sc + 1 /\ fb >= sb + 1 /\ fc - sc = fb - sb
    BY <1>1, <1>6, <1>10
  <2>2. CASE off = sb - sc
    <3>1. fc \in O
      BY <1>1, <1>6, <2>1, <2>2
    <3>2. QED
      BY <1>5, <3>1
  <2>3. CASE off # sb - sc
    <3>1. \A f \in O : f <= sc /\ f + off <= sb
      <4>1. SUFFICES ASSUME NEW f \in O PROVE f <= sc /\ f + off <= sb
        OBVIOUS
      <4>2. f \in Int /\ Gb(f + off) = Gc(f)
        BY <1>1, <1>5
      <4>3. QED
        BY <1>1, <2>3, <4>2
    <3>2. CASE mc + off <= mb
      <4>1. mc \in O
        BY <1>1, <1>8, <3>2
      <4>2. mc <= sc
        BY <3>1, <4>1
      <4>3. QED
        BY <1>1, <1>6, <2>1, <4>2
    <3>3. CASE ~(mc + off <= mb)
      <4>1. mb - off \in O
        BY <1>1, <1>8, <3>3
      <4>2. mb <= sb
        <5>1. (mb - off) + off <= sb
          BY <3>1, <4>1
        <5>2. QED
          BY <1>1, <5>1
      <4>3. QED
        BY <1>1, <1>6, <2>1, <4>2
    <3>4. QED
      BY <3>2, <3>3
  <2>4. QED
    BY <2>2, <2>3
<1>11. QED
  BY <1>9, <1>10

(* A scenario's row of three verdicts, and what a row without FAIL means. *)
VerdictRow(x, y, z) == [wram |-> x, pixels |-> y, events |-> z]

(* The fields of a row. *)
LEMMA VerdictFields ==
  \A x, y, z : (\A k \in DOMAIN VerdictRow(x, y, z) : VerdictRow(x, y, z)[k] # "FAIL")
                => x # "FAIL" /\ y # "FAIL" /\ z # "FAIL"
<1>1. SUFFICES ASSUME NEW x, NEW y, NEW z,
                      \A k \in DOMAIN VerdictRow(x, y, z) : VerdictRow(x, y, z)[k] # "FAIL"
               PROVE  x # "FAIL" /\ y # "FAIL" /\ z # "FAIL"
  OBVIOUS
<1>2. DOMAIN VerdictRow(x, y, z) = {"wram", "pixels", "events"}
  BY DEF VerdictRow
<1>3. /\ VerdictRow(x, y, z)["wram"] # "FAIL" /\ VerdictRow(x, y, z)["pixels"] # "FAIL"
      /\ VerdictRow(x, y, z)["events"] # "FAIL"
  BY <1>1, <1>2
<1>4. QED
  BY <1>3 DEF VerdictRow

(* What a clean scenario says of the builds: the candidate's picture is one of
   the two safe shapes, it ran to its end, and with a framedump some offset
   aligns the digests. *)
LEMMA JudgedClean ==
  ASSUME NEW w \in Worlds, NEW nofd \in BOOLEAN,
         NEW v, v = Judge(Evidence(w, "baseline", nofd), Evidence(w, "candidate", FALSE), w.shape),
         \A k \in DOMAIN v : v[k] # "FAIL"
  PROVE  /\ w.shape \in {"native", "wide"}
         /\ w.stop["candidate"] = Frames
         /\ ~nofd => \E off \in Int : Aligns(BaseCrc(w), CandCrc(w), off)
<1> DEFINE b == Evidence(w, "baseline", nofd)
           c == Evidence(w, "candidate", FALSE)
           wram == CheckWramCrc(b.crc, c.crc)
<1>1. /\ wram.status # "FAIL"
      /\ CheckPixels(b.bmp, c.bmp, wram.offset, w.shape) # "FAIL"
      /\ CheckEvents(b, c) # "FAIL"
  <2> HIDE DEF b, c, wram
  <2>1. v = VerdictRow(wram.status, CheckPixels(b.bmp, c.bmp, wram.offset, w.shape),
                       CheckEvents(b, c))
    BY DEF Judge, b, c, wram, VerdictRow
  <2> DEFINE pix == CheckPixels(b.bmp, c.bmp, wram.offset, w.shape)
             ev == CheckEvents(b, c)
             ws == wram.status
             row == VerdictRow(ws, pix, ev)
  <2> HIDE DEF pix, ev, ws
  <2>2. v = row
    BY <2>1 DEF pix, ev, ws
  <2>3. \A k \in DOMAIN v : v[k] # "FAIL"
    OBVIOUS
  <2> HIDE DEF row
  <2>4. \A k \in DOMAIN row : row[k] # "FAIL"
    BY <2>2, <2>3
  <2>5. ws # "FAIL" /\ pix # "FAIL" /\ ev # "FAIL"
    BY <2>4, VerdictFields DEF row
  <2>6. QED
    BY <2>5 DEF pix, ev, ws
<1>2. w.stop["candidate"] = Frames
  <2>1. c.rc = 0
    BY <1>1 DEF CheckEvents
  <2>2. c.rc = IF w.stop["candidate"] = Frames THEN 0 ELSE 1
    BY DEF Evidence
  <2> HIDE DEF c
  <2>3. QED
    BY <2>1, <2>2
<1>3. w.shape \in {"native", "wide"}
  <2>1. w.shape \in Shapes
    BY DEF Worlds
  <2> HIDE DEF b, c, wram
  <2>2. w.shape \notin {"odd", "narrow", "sliced"}
    <3> DEFINE use == UsedOffset(b.bmp, c.bmp, wram.offset)
    <3>1. ~ \/ Pairs(b.bmp, c.bmp, use) = {}
            \/ \E f \in Pairs(b.bmp, c.bmp, use) : PairBad(w.shape, b.bmp[f + use], c.bmp[f])
      BY <1>1 DEF CheckPixels
    <3>2. QED
      BY <3>1, Zenon DEF PairBad
  <2>3. QED
    BY <2>1, <2>2 DEF Shapes
<1>4. ASSUME ~nofd
      PROVE  \E off \in Int : Aligns(BaseCrc(w), CandCrc(w), off)
  <2>1. b.crc = BaseCrc(w) /\ c.crc = CandCrc(w)
    BY <1>4 DEF BaseCrc, CandCrc
  <2>2. 0 \in DOMAIN BaseCrc(w) /\ 0 \in DOMAIN CandCrc(w)
    <3>1. w.stop["baseline"] \in Nat /\ w.stop["candidate"] \in Nat
      BY WorldTypes DEF WorldFacts
    <3>2. 0 \in 0..w.stop["baseline"] /\ 0 \in 0..w.stop["candidate"]
      BY <3>1
    <3>3. QED
      BY <3>2, Digests
  <2> HIDE DEF b, c
  <2>3. wram.status # "FAIL" /\ wram = CheckWramCrc(BaseCrc(w), CandCrc(w))
    BY <1>1, <2>1
  <2>4. {off \in -MaxOffset..MaxOffset : Aligns(BaseCrc(w), CandCrc(w), off)} # {}
    <3> HIDE DEF wram
    <3>1. SUFFICES ASSUME {off \in -MaxOffset..MaxOffset :
                             Aligns(BaseCrc(w), CandCrc(w), off)} = {}
                   PROVE  FALSE
      OBVIOUS
    <3>2. wram = [status |-> "FAIL", offset |-> 0]
      BY <2>2, <2>3, <3>1 DEF CheckWramCrc
    <3>3. QED
      BY <2>3, <3>2
  <2>5. QED
    BY <2>4, P16Assumption
<1>5. QED
  BY <1>2, <1>3, <1>4

(* The scenario's verdicts hold no FAIL. *)
Clean(w, nofd) ==
  LET v == Judge(Evidence(w, "baseline", nofd), Evidence(w, "candidate", FALSE), w.shape)
  IN \A k \in DOMAIN v : v[k] # "FAIL"

(* The inductive invariant.  The world and the framedump flag never change, so
   every scenario leaves the same evidence (before the checks it is what the
   sides recorded in this scenario, never in the last one), and an exit 0
   means that this evidence was judged clean. *)
GateInv ==
  /\ gateWorld \in Worlds /\ gateArgs.noFramedump \in BOOLEAN
  /\ gateArgs = [scenarios |-> gateArgs.scenarios, trace |-> gateArgs.trace,
                 noFramedump |-> gateArgs.noFramedump]
  /\ gatePc \in {"candidate", "check"} =>
       /\ "baseline" \in DOMAIN evidence
       /\ evidence["baseline"] = Evidence(gateWorld, "baseline", gateArgs.noFramedump)
  /\ gatePc = "check" =>
       /\ "candidate" \in DOMAIN evidence
       /\ evidence["candidate"] = Evidence(gateWorld, "candidate", FALSE)
  /\ gateExit = "0" => Clean(gateWorld, gateArgs.noFramedump)

(* Every step of main keeps it, the last check of a scenario included. *)
LEMMA GateInductive == GateInv /\ [GateNext]_gateVars => GateInv'
<1> SUFFICES ASSUME GateInv, [GateNext]_gateVars PROVE GateInv'
  OBVIOUS
<1>1. CASE UNCHANGED gateVars
  BY <1>1 DEF gateVars, GateInv
<1>2. ASSUME NEW fault \in Faults, RunSide("baseline", fault)
      PROVE  GateInv'
  <2>1. /\ UNCHANGED <<gateArgs, gateWorld, failed, gateExit>>
        /\ gatePc' = "candidate"
        /\ evidence' = [s \in (DOMAIN evidence) \cup {"baseline"} |->
                          IF s = "baseline"
                          THEN Evidence(gateWorld, s,
                                        ("baseline" = "baseline") /\ gateArgs.noFramedump)
                          ELSE evidence[s]]
    BY <1>2 DEF RunSide
  <2>2. /\ "baseline" \in DOMAIN evidence'
        /\ evidence'["baseline"] =
             Evidence(gateWorld, "baseline", ("baseline" = "baseline") /\ gateArgs.noFramedump)
    BY <2>1
  <2>3. (("baseline" = "baseline") /\ gateArgs.noFramedump) = gateArgs.noFramedump
    BY Zenon DEF GateInv
  <2>4. QED
    BY <2>1, <2>2, <2>3 DEF GateInv
<1>3. ASSUME NEW fault \in Faults, RunSide("candidate", fault)
      PROVE  GateInv'
  <2>1. /\ UNCHANGED <<gateArgs, gateWorld, failed, gateExit>>
        /\ gatePc = "candidate" /\ gatePc' = "check"
        /\ evidence' = [s \in (DOMAIN evidence) \cup {"candidate"} |->
                          IF s = "candidate"
                          THEN Evidence(gateWorld, s,
                                        ("candidate" = "baseline") /\ gateArgs.noFramedump)
                          ELSE evidence[s]]
    BY <1>3 DEF RunSide
  <2>2. /\ "candidate" \in DOMAIN evidence'
        /\ evidence'["candidate"] =
             Evidence(gateWorld, "candidate", ("candidate" = "baseline") /\ gateArgs.noFramedump)
        /\ "baseline" \in DOMAIN evidence =>
             /\ "baseline" \in DOMAIN evidence'
             /\ evidence'["baseline"] = evidence["baseline"]
    BY <2>1
  <2>3. (("candidate" = "baseline") /\ gateArgs.noFramedump) = FALSE
    OBVIOUS
  <2>4. QED
    BY <2>1, <2>2, <2>3 DEF GateInv
<1>4. ASSUME NEW side \in Sides, NEW fault \in Faults, GateError(side, fault)
      PROVE  GateInv'
  BY <1>4 DEF GateError, GateInv
<1>5. CASE CheckScenario
  <2>1. /\ UNCHANGED <<gateWorld, evidence>> /\ gatePc = "check"
        /\ failed' = (failed \/ \E k \in DOMAIN Verdicts : Verdicts[k] = "FAIL")
        /\ gateArgs' = [gateArgs EXCEPT !.scenarios = Tail(gateArgs.scenarios)]
        /\ gatePc' \in {"done", "baseline"}
        /\ gateExit' = "0" => ~failed'
    BY <1>5 DEF CheckScenario, None
  <2>2. gateArgs'.noFramedump = gateArgs.noFramedump
    BY <2>1 DEF GateInv
  <2>3. gateArgs' = [scenarios |-> gateArgs'.scenarios, trace |-> gateArgs'.trace,
                     noFramedump |-> gateArgs'.noFramedump]
    BY <2>1 DEF GateInv
  <2>4. gateExit' = "0" => Clean(gateWorld, gateArgs.noFramedump)
    BY <2>1, Zenon DEF GateInv, Clean, Verdicts
  <2>5. QED
    BY <2>1, <2>2, <2>3, <2>4 DEF GateInv
<1>6. QED
  BY <1>1, <1>2, <1>3, <1>4, <1>5 DEF GateNext, Sides

(* A gate that exits 0 hides no wrong candidate, for every frame count, step,
   search range and skew. *)
THEOREM GatePassesOnlyTheSound == GateSpec => []GatePassSound
<1>1. GateInit => GateInv
  BY DEF GateInit, GateInv, None
<1>2. GateInv => GatePassSound
  <2> SUFFICES ASSUME GateInv, gateExit = "0"
               PROVE  /\ gateWorld.shape \in {"native", "wide"}
                      /\ gateWorld.stop["candidate"] = Frames
                      /\ ~gateArgs.noFramedump =>
                           \A g \in Reached("baseline") \cap Reached("candidate") :
                              g < gateWorld.wrongRam
    BY DEF GatePassSound
  <2>1. /\ gateWorld \in Worlds /\ gateArgs.noFramedump \in BOOLEAN
        /\ Clean(gateWorld, gateArgs.noFramedump)
    BY DEF GateInv
  <2>2. /\ gateWorld.shape \in {"native", "wide"}
        /\ gateWorld.stop["candidate"] = Frames
        /\ ~gateArgs.noFramedump =>
             \E off \in Int : Aligns(BaseCrc(gateWorld), CandCrc(gateWorld), off)
    BY <2>1, JudgedClean DEF Clean
  <2>3. ASSUME ~gateArgs.noFramedump,
               NEW g \in Reached("baseline") \cap Reached("candidate")
        PROVE  g < gateWorld.wrongRam
    <3>1. PICK off \in Int : Aligns(BaseCrc(gateWorld), CandCrc(gateWorld), off)
      BY <2>2, <2>3
    <3>2. PICK fb \in 0..gateWorld.stop["baseline"] : g = Guest(gateWorld, "baseline", fb)
      BY <2>3 DEF Reached
    <3>3. PICK fc \in 0..gateWorld.stop["candidate"] : g = Guest(gateWorld, "candidate", fc)
      BY <2>3 DEF Reached
    <3>4. QED
      BY <2>1, <3>1, <3>2, <3>3, AlignmentIsSound
  <2>4. QED
    BY <2>2, <2>3
<1>3. QED
  BY <1>1, <1>2, GateInductive, PTL DEF GateSpec

(*****************************************************************************)
(* ws_verdicts.py: the parity check and the HUD anchor                       *)
(*****************************************************************************)
(* The numbers of a world with a parity check. *)
ParityTypes ==
  /\ vWorld.noise["native"] \in 0..Want /\ vWorld.noise["wide"] \in 0..Want
  /\ vWorld.noise["control"] \in 0..Want
  /\ vWorld.defect \in 0..Want

(* compare_center: the prefix is the first frame at which the two windows
   differ (or their length), nothing is identical throughout but equal
   windows, and a frame differs exactly when a process shows its own noise
   there or the widescreen path its defect. *)
LEMMA PrefixFacts ==
  ASSUME ParityTypes, NEW b \in {"wide", "control"}
  PROVE  LET c == CompareCenter(Series("native"), Series(b))
             bad == {f \in 0..(Want - 1) : Series("native")[f] # Series(b)[f]}
         IN /\ c.prefix \in bad \cup {Want}
            /\ \A f \in bad \cup {Want} : c.prefix <= f
            /\ c.identical = c.compared => bad = {}
            /\ \A f \in 0..(Want - 1) :
                 f \in bad <=> \/ f >= vWorld.noise["native"] \/ f >= vWorld.noise[b]
                               \/ b = "wide" /\ f >= vWorld.defect
<1> DEFINE A == Series("native")
           B == Series(b)
           bad == {f \in 0..(Want - 1) : A[f] # B[f]}
           c == CompareCenter(A, B)
<1>1. Want \in Nat /\ Want > 0
  BY VerdictAssumption
<1>2. DOMAIN A = 0..(Want - 1)
  BY DEF Series
<1>3. IsFiniteSet(0..(Want - 1)) /\ Cardinality(0..(Want - 1)) = Want
  <2>1. 0 \in Int /\ Want - 1 \in Int
    BY <1>1
  <2>2. QED
    BY <1>1, <2>1, FS_Interval
<1>4. IsFiniteSet(bad) /\ Cardinality(bad) \in Nat
  BY <1>3, FS_Subset, FS_CardinalityType
<1>5. /\ c.prefix = Min(bad \cup {Want})
      /\ c.compared = Want /\ c.identical = Want - Cardinality(bad)
  BY <1>2, <1>3 DEF CompareCenter
<1>6. \A f \in 0..(Want - 1) :
        f \in bad <=> \/ f >= vWorld.noise["native"] \/ f >= vWorld.noise[b]
                      \/ b = "wide" /\ f >= vWorld.defect
  <2>1. SUFFICES ASSUME NEW f \in 0..(Want - 1)
                 PROVE  A[f] # B[f] <=> \/ f >= vWorld.noise["native"] \/ f >= vWorld.noise[b]
                                        \/ b = "wide" /\ f >= vWorld.defect
    OBVIOUS
  <2>2. /\ A[f] = IF f >= vWorld.noise["native"] THEN "native" ELSE "same"
        /\ B[f] = IF f >= vWorld.noise[b] THEN b
                  ELSE IF b = "wide" /\ f >= vWorld.defect THEN "defect" ELSE "same"
    BY DEF Series
  <2> HIDE DEF A, B
  <2>3. CASE b = "wide"
    BY <2>2, <2>3
  <2>4. CASE b = "control"
    BY <2>2, <2>4
  <2>5. QED
    BY <2>3, <2>4
<1>7. c.identical = c.compared => bad = {}
  BY <1>1, <1>4, <1>5, FS_EmptySet
<1>8. bad \cup {Want} \subseteq Nat /\ bad \cup {Want} # {}
  BY <1>1
<1> HIDE DEF bad, c
<1>9. c.prefix \in bad \cup {Want} /\ \A f \in bad \cup {Want} : c.prefix <= f
  BY <1>5, <1>8, LeastOfNats
<1>10. QED
  BY <1>6, <1>7, <1>9 DEF bad, c

(* parity_verdict: a PASS puts the defect behind the first divergence of any
   process and behind the first frame. *)
LEMMA ParityIsSound ==
  ASSUME ParityTypes, Parity = "PASS"
  PROVE  /\ vWorld.defect > 0
         /\ vWorld.defect >= Min({vWorld.noise[s] : s \in ParitySides} \cup {Want})
<1> DEFINE par == CompareCenter(Series("native"), Series("wide"))
           con == CompareCenter(Series("native"), Series("control"))
           N == {vWorld.noise[s] : s \in ParitySides} \cup {Want}
           bw == {f \in 0..(Want - 1) : Series("native")[f] # Series("wide")[f]}
           bc == {f \in 0..(Want - 1) : Series("native")[f] # Series("control")[f]}
           d == vWorld.defect
<1>1. Want \in Nat /\ Want > 0 /\ d \in 0..Want
  BY VerdictAssumption DEF ParityTypes
<1>2. /\ Min(N) <= Want /\ Min(N) <= vWorld.noise["native"]
      /\ Min(N) <= vWorld.noise["control"] /\ Min(N) \in Nat
  <2>1. N \subseteq Nat /\ N # {}
    BY <1>1 DEF ParityTypes, ParitySides
  <2>2. Want \in N /\ vWorld.noise["native"] \in N /\ vWorld.noise["control"] \in N
    BY DEF ParitySides
  <2> HIDE DEF N
  <2>3. QED
    BY <2>1, <2>2, LeastOfNats
<1>3. /\ par.prefix \in bw \cup {Want} /\ \A f \in bw \cup {Want} : par.prefix <= f
      /\ par.identical = par.compared => bw = {}
      /\ \A f \in 0..(Want - 1) : f >= d => f \in bw
  BY PrefixFacts
<1>4. /\ con.prefix \in bc \cup {Want}
      /\ \A f \in 0..(Want - 1) :
           f \in bc => f >= vWorld.noise["native"] \/ f >= vWorld.noise["control"]
  BY PrefixFacts
<1>5. \/ par.identical = par.compared
      \/ ~(par.prefix < con.prefix) /\ con.prefix # 0
  <2> DEFINE pa == par
             co == con
  <2>1. ParityVerdict(pa, vArgs.control, co) = "PASS"
    BY DEF Parity
  <2> HIDE DEF pa, co
  <2>2. \/ pa.identical = pa.compared
        \/ ~(pa.prefix < co.prefix) /\ co.prefix # 0
    BY <2>1 DEF ParityVerdict
  <2>3. QED
    BY <2>2 DEF pa, co
<1>6. bw \subseteq 0..(Want - 1) /\ bc \subseteq 0..(Want - 1)
  OBVIOUS
<1>7. vWorld.noise["native"] \in Nat /\ vWorld.noise["control"] \in Nat
  BY <1>1 DEF ParityTypes
<1> HIDE DEF par, con, bw, bc, N, d
<1>8. CASE par.identical = par.compared
  <2>1. bw = {}
    BY <1>3, <1>8
  <2>2. d = Want
    BY <1>1, <1>3, <2>1
  <2>3. QED
    BY <1>1, <1>2, <2>2 DEF d, N
<1>9. CASE ~(par.prefix < con.prefix) /\ con.prefix # 0
  <2>1. par.prefix \in Nat /\ con.prefix \in Nat /\ con.prefix <= Want
    <3>1. bw \cup {Want} \subseteq 0..Want /\ bc \cup {Want} \subseteq 0..Want
      BY <1>1, <1>6
    <3>2. par.prefix \in 0..Want /\ con.prefix \in 0..Want
      BY <1>3, <1>4, <3>1
    <3>3. QED
      BY <1>1, <3>2
  <2>2. d >= par.prefix
    <3>1. d = Want \/ d \in 0..(Want - 1)
      BY <1>1
    <3>2. CASE d = Want
      BY <1>3, <3>2
    <3>3. CASE d \in 0..(Want - 1)
      <4>1. d \in bw
        BY <1>3, <3>3
      <4>2. QED
        BY <1>3, <4>1
    <3>4. QED
      BY <3>1, <3>2, <3>3
  <2>3. d >= con.prefix /\ con.prefix > 0
    BY <1>1, <1>9, <2>1, <2>2
  <2>4. con.prefix >= Min(N)
    BY <1>2, <1>4, <1>6, <1>7, <2>1
  <2>5. d > 0 /\ d >= Min(N)
    BY <1>1, <1>2, <2>1, <2>3, <2>4
  <2>6. QED
    BY <2>5 DEF d, N
<1>10. QED
  BY <1>5, <1>8, <1>9

(* The worlds of the three commands whose verdicts are proved sound. *)
LEMMA WorldKinds ==
  /\ \A w \in WorldOf("center-parity") \cup WorldOf("text-letterbox") :
       /\ w.noise["native"] \in 0..Want /\ w.noise["wide"] \in 0..Want
       /\ w.noise["control"] \in 0..Want /\ w.defect \in 0..Want
  /\ \A w \in WorldOf("hud-anchor") : w.bands \in Seq(Int \X Int \X Int \X Int)
<1>1. /\ WorldOf("center-parity") = ParityWorld /\ WorldOf("text-letterbox") = TextWorld
      /\ WorldOf("hud-anchor") = HudWorld
  BY DEF WorldOf
<1>2. Want \in Nat
  BY VerdictAssumption
<1>3. \A w \in ParityWorld :
       /\ w.noise["native"] \in 0..Want /\ w.noise["wide"] \in 0..Want
       /\ w.noise["control"] \in 0..Want /\ w.defect \in 0..Want
  BY DEF ParityWorld, ParitySides
<1>4. \A w \in TextWorld :
       /\ w.noise["native"] \in 0..Want /\ w.noise["wide"] \in 0..Want
       /\ w.noise["control"] \in 0..Want /\ w.defect \in 0..Want
  BY <1>2 DEF TextWorld, ParitySides
<1>5. \A w \in HudWorld : w.bands \in Bands \/ w.bands = <<>>
  BY DEF HudWorld
<1>6. \A w \in HudWorld : w.bands \in Seq(Int \X Int \X Int \X Int)
  <2>1. <<>> \in Seq(Int \X Int \X Int \X Int)
    OBVIOUS
  <2>2. Bands \subseteq Seq(Int \X Int \X Int \X Int)
    BY VerdictAssumption
  <2>3. QED
    BY <1>5, <2>1, <2>2
<1>7. QED
  BY <1>1, <1>3, <1>4, <1>6

(* What a well-formed band in the report was computed from. *)
HudChecked ==
  /\ vArgs.cmd = "hud-anchor"
  /\ BandValid(vWorld.bands)
  /\ "hud_pixels_anchored" \in DOMAIN vReport
  /\ vReport["hud_pixels_anchored"] = PixelVerdict(vWorld, HudWide(vWorld))

(* The inductive invariant: a report is empty until it is judged, each PASS in
   it is the verdict of this world under this command, and a run that exits 0
   has no FAIL in its report. *)
VerdictInv ==
  /\ vArgs.cmd \in Commands /\ vWorld \in WorldOf(vArgs.cmd)
  /\ vPc # "done" => vReport = NoReport /\ vExit = NoExit
  /\ Passed("center_parity_byte_exact") =>
       vArgs.cmd = "center-parity" /\ Parity = "PASS"
  /\ Passed("center_matches_native") =>
       vArgs.cmd = "text-letterbox" /\ Parity = "PASS"
  /\ vExit = "0" => ~ReportFailed(vReport)
  /\ Passed("elastic_bands_wellformed") => HudChecked

(* A check passed in a report that is not yet the command's. *)
PassedIn(report, check) == check \in DOMAIN report /\ report[check] = "PASS"

(* Whatever a command judges, Finish keeps the invariant when the verdicts it
   names were computed from the world. *)
LEMMA FinishKeeps ==
  ASSUME VerdictInv, NEW report, Finish(report),
         PassedIn(report, "center_parity_byte_exact") =>
           vArgs.cmd = "center-parity" /\ Parity = "PASS",
         PassedIn(report, "center_matches_native") =>
           vArgs.cmd = "text-letterbox" /\ Parity = "PASS",
         PassedIn(report, "elastic_bands_wellformed") =>
           /\ vArgs.cmd = "hud-anchor" /\ BandValid(vWorld.bands)
           /\ "hud_pixels_anchored" \in DOMAIN report
           /\ report["hud_pixels_anchored"] = PixelVerdict(vWorld, HudWide(vWorld))
  PROVE  VerdictInv'
<1>1. /\ vReport' = report /\ vPc' = "done"
      /\ vExit' = IF ReportFailed(report) THEN "1" ELSE "0"
      /\ vArgs' = vArgs /\ vWorld' = vWorld
  BY DEF Finish
<1>2. Parity' = Parity
  BY <1>1 DEF Parity, Series
<1>3. \A k : Passed(k)' <=> PassedIn(report, k)
  BY <1>1 DEF Passed, PassedIn
<1>4. vExit' = "0" => ~ReportFailed(vReport')
  BY <1>1
<1>5. Passed("elastic_bands_wellformed")' => HudChecked'
  BY <1>1, <1>3 DEF HudChecked
<1>6. QED
  BY <1>1, <1>2, <1>3, <1>4, <1>5 DEF VerdictInv

(* Every step of every command keeps it. *)
LEMMA VerdictInductive == VerdictInv /\ [VerdictNext]_vVars => VerdictInv'
<1> SUFFICES ASSUME VerdictInv, [VerdictNext]_vVars PROVE VerdictInv'
  OBVIOUS
<1>1. ASSUME UNCHANGED <<vArgs, vWorld, vReport>>,
             vPc' # "done" => vPc # "done" /\ vExit' = vExit,
             vExit' = "0" => vExit = "0"
      PROVE  VerdictInv'
  <2>1. Parity' = Parity /\ HudChecked' = HudChecked /\ \A k : Passed(k)' = Passed(k)
    BY <1>1 DEF Parity, Series, HudChecked, Passed
  <2>2. QED
    BY <1>1, <2>1 DEF VerdictInv
<1>2. CASE UNCHANGED vVars
  BY <1>1, <1>2 DEF vVars
<1>3. CASE LaunchSide
  BY <1>1, <1>3 DEF LaunchSide
<1>4. CASE CaptureSide
  <2>1. UNCHANGED <<vArgs, vWorld, vReport, vExit>> /\ vPc = "capture"
    BY <1>4 DEF CaptureSide
  <2>2. QED
    BY <1>1, <2>1
<1>5. CASE HarnessError
  <2>1. UNCHANGED <<vArgs, vWorld, vReport>> /\ vPc' = "done" /\ vExit' = "2"
    BY <1>5 DEF HarnessError
  <2>2. QED
    BY <1>1, <2>1
<1>6. CASE Uncaught
  <2>1. UNCHANGED <<vArgs, vWorld, vReport>> /\ vPc' = "done" /\ vExit' = "1"
    BY <1>6 DEF Uncaught
  <2>2. QED
    BY <1>1, <2>1
<1>7. ASSUME NEW cmd, Judging(cmd)
      PROVE  DOMAIN vReport = {}
  BY <1>7 DEF Judging, VerdictInv, NoReport
<1>8. CASE JudgeParity
  <2>0. DOMAIN vReport = {}
    BY <1>7, <1>8 DEF JudgeParity
  <2> DEFINE report == Add(vReport, "center_parity_byte_exact", Parity)
  <2>1. Finish(report) /\ vArgs.cmd = "center-parity"
    BY <1>8 DEF JudgeParity, Judging
  <2>2. DOMAIN report = {"center_parity_byte_exact"} /\ report["center_parity_byte_exact"] = Parity
    BY <2>0 DEF Add
  <2> HIDE DEF report
  <2>3. QED
    BY <2>1, <2>2, FinishKeeps DEF PassedIn
<1>9. CASE JudgeMargins
  <2>0. DOMAIN vReport = {}
    BY <1>7, <1>9 DEF JudgeMargins
  <2> DEFINE report == Add(Add(vReport, "margin_non_blank", MarginNonBlank(vWorld.pic)),
                           "native_boundary_seam", BoundarySeam(vWorld))
  <2>1. Finish(report)
    BY <1>9 DEF JudgeMargins
  <2>2. DOMAIN report = {"margin_non_blank", "native_boundary_seam"}
    BY <2>0 DEF Add
  <2> HIDE DEF report
  <2>3. QED
    BY <2>1, <2>2, FinishKeeps DEF PassedIn
<1>10. CASE JudgeSprites
  <2>0. DOMAIN vReport = {}
    BY <1>7, <1>10 DEF JudgeSprites
  <2> DEFINE report == SpriteVerdicts(vReport, vWorld)
  <2>1. Finish(report)
    BY <1>10 DEF JudgeSprites
  <2>2. DOMAIN report = {"object_render_or_cull", "object_ppu_or_presenter"}
    BY <2>0 DEF SpriteVerdicts, Add
  <2> HIDE DEF report
  <2>3. QED
    BY <2>1, <2>2, FinishKeeps DEF PassedIn
<1>11. CASE JudgeText
  <2> DEFINE report == TextVerdicts(vReport, vWorld, vSides["wide"])
  <2>1. Finish(report) /\ vArgs.cmd = "text-letterbox"
    BY <1>11 DEF JudgeText, Judging
  <2>2. /\ DOMAIN report = {"scene_is_text_or_menu", "margins_uniform",
                            "margins_are_backdrop_or_cleared", "ppu_centered_budget",
                            "center_matches_native"}
        /\ report["center_matches_native"] = Parity
    BY <1>7, <1>11 DEF JudgeText, TextVerdicts
  <2> HIDE DEF report
  <2>3. QED
    BY <2>1, <2>2, FinishKeeps DEF PassedIn
<1>12. CASE JudgeHud
  <2>0. vArgs.cmd = "hud-anchor" /\ DOMAIN vReport = {}
    BY <1>7, <1>12 DEF JudgeHud, Judging
  <2>1. CASE ~vArgs.json
    <3> DEFINE report == Add(Add(vReport, "hud_anchor_obj", "SKIP"), "hud_anchor_bg", "SKIP")
    <3>1. Finish(report)
      BY <1>12, <2>1 DEF JudgeHud
    <3>2. DOMAIN report = {"hud_anchor_obj", "hud_anchor_bg"}
      BY <2>0 DEF Add
    <3> HIDE DEF report
    <3>3. QED
      BY <3>1, <3>2, FinishKeeps DEF PassedIn
  <2>2. CASE vArgs.json
    <3> DEFINE r0 == Add(vReport, "hud_anchor_obj", ObjVerdict(vWorld.obj))
               report == BgVerdicts(r0, vWorld)
               wide == HudWide(vWorld)
               formed == IF BandValid(vWorld.bands) /\ vWorld.export.budget = Extra
                         THEN "PASS" ELSE "FAIL"
               lines == IF vWorld.export.governed /\ vWorld.bands # <<>>
                        THEN "PASS" ELSE "FAIL"
               gap == GapVerdict(vWorld, wide)
               pix == PixelVerdict(vWorld, wide)
               checks == {"elastic_bands_wellformed", "hud_lines_covered",
                          "hud_no_transparent_gap", "hud_pixels_anchored"}
    <3>1. Finish(report)
      BY <1>12, <2>2 DEF JudgeHud
    <3>2. DOMAIN r0 = {"hud_anchor_obj"}
      BY <2>0 DEF Add
    <3>3. CASE ~vWorld.export.exported
      <4>1. /\ DOMAIN report = {"hud_anchor_obj"} \cup checks
            /\ report["elastic_bands_wellformed"] = "SKIP"
        <5> HIDE DEF r0
        <5>1. report = [k \in DOMAIN r0 \cup checks |-> IF k \in checks THEN "SKIP" ELSE r0[k]]
          BY <3>3 DEF BgVerdicts
        <5> HIDE DEF report
        <5>2. QED
          BY <3>2, <5>1
      <4> HIDE DEF report
      <4>2. QED
        BY <3>1, <4>1, FinishKeeps DEF PassedIn
    <3>4. CASE vWorld.export.exported
      <4> DEFINE r1 == Add(r0, "elastic_bands_wellformed", formed)
                 r2 == Add(r1, "hud_lines_covered", lines)
                 r3 == Add(r2, "hud_no_transparent_gap", gap)
                 r4 == Add(r3, "hud_pixels_anchored", pix)
      <4>1. report = r4
        BY <3>4 DEF BgVerdicts
      <4> HIDE DEF r0, formed, lines, gap, pix, report, r1, r2, r3, r4
      <4>2. DOMAIN r1 = {"hud_anchor_obj", "elastic_bands_wellformed"}
            /\ r1["elastic_bands_wellformed"] = formed
        BY <3>2 DEF Add, r1
      <4>3. DOMAIN r2 = {"hud_anchor_obj", "elastic_bands_wellformed", "hud_lines_covered"}
            /\ r2["elastic_bands_wellformed"] = formed
        BY <4>2 DEF Add, r2
      <4>4. DOMAIN r3 = {"hud_anchor_obj", "elastic_bands_wellformed", "hud_lines_covered",
                         "hud_no_transparent_gap"}
            /\ r3["elastic_bands_wellformed"] = formed
        BY <4>3 DEF Add, r3
      <4>5. /\ DOMAIN r4 = {"hud_anchor_obj", "elastic_bands_wellformed", "hud_lines_covered",
                            "hud_no_transparent_gap", "hud_pixels_anchored"}
            /\ r4["elastic_bands_wellformed"] = formed
            /\ r4["hud_pixels_anchored"] = pix
        BY <4>4 DEF Add, r4
      <4>6. report["hud_pixels_anchored"] = PixelVerdict(vWorld, HudWide(vWorld))
        BY <4>1, <4>5 DEF pix
      <4>7. report["elastic_bands_wellformed"] = "PASS" => BandValid(vWorld.bands)
        BY <4>1, <4>5 DEF formed
      <4>8. QED
        BY <2>0, <3>1, <4>1, <4>5, <4>6, <4>7, FinishKeeps DEF PassedIn
    <3>5. QED
      BY <3>3, <3>4
  <2>3. QED
    BY <2>1, <2>2
<1>13. QED
  BY <1>2, <1>3, <1>4, <1>5, <1>6, <1>8, <1>9, <1>10, <1>11, <1>12 DEF VerdictNext

(* An invocation begins with an empty report. *)
LEMMA VerdictBegins == VerdictInit => VerdictInv
<1> SUFFICES ASSUME VerdictInit PROVE VerdictInv
  OBVIOUS
<1>1. PICK args \in Args : VerdictStart(args, WorldOf(args.cmd))
  BY DEF VerdictInit
<1>2. /\ vArgs = args /\ vWorld \in WorldOf(args.cmd)
      /\ vReport = NoReport /\ vExit = NoExit
  BY <1>1 DEF VerdictStart
<1>3. args.cmd \in Commands
  BY DEF Args
<1>4. \A k : ~Passed(k)
  BY <1>2 DEF Passed, NoReport
<1>5. QED
  BY <1>2, <1>3, <1>4 DEF VerdictInv, NoExit

(* A centre that passes was measured and is right, for every window length and
   every noise of the three processes. *)
THEOREM CentreIsSound == VerdictSpec => []CentreSound
<1>1. VerdictInv => CentreSound
  <2> SUFFICES ASSUME VerdictInv,
                      Passed("center_parity_byte_exact") \/ Passed("center_matches_native")
               PROVE  /\ vWorld.defect > 0
                      /\ vWorld.defect >= Min({vWorld.noise[s] : s \in ParitySides} \cup {Want})
    BY DEF CentreSound
  <2>1. Parity = "PASS" /\ vWorld \in WorldOf("center-parity") \cup WorldOf("text-letterbox")
    BY DEF VerdictInv
  <2>2. ParityTypes
    BY <2>1, WorldKinds DEF ParityTypes
  <2>3. QED
    BY <2>1, <2>2, ParityIsSound
<1>2. QED
  BY <1>1, VerdictBegins, VerdictInductive, PTL DEF VerdictSpec

(* Multiplication by a natural is monotone. *)
LEMMA TimesMonotone ==
  \A a, b, c \in Nat : b <= c => a * b <= a * c
<1>1. SUFFICES ASSUME NEW a \in Nat, NEW b \in Nat, NEW c \in Nat, b <= c
               PROVE  a * b <= a * c
  OBVIOUS
<1>2. PICK d \in Nat : c = b + d
  <2>1. c - b \in Nat /\ c = b + (c - b)
    BY <1>1
  <2>2. QED
    BY <2>1
<1>3. a * c = a * b + a * d /\ a * d \in Nat /\ a * b \in Nat
  BY <1>2
<1>4. QED
  BY <1>3

(* A quotient stays below w when the dividend stays below b * w. *)
LEMMA QuotientBound ==
  ASSUME NEW a \in Nat, NEW b \in Nat, NEW w \in Nat, b > 0, a < b * w
  PROVE  a \div b \in 0..(w - 1)
<1> DEFINE q == a \div b
<1>1. q \in Nat /\ b * q <= a /\ a < b * q + b
  OBVIOUS
<1> HIDE DEF q
<1>2. ASSUME w <= q
      PROVE  FALSE
  <2>1. b * w <= b * q
    BY <1>1, <1>2, TimesMonotone
  <2>2. b * w \in Nat /\ b * q \in Nat
    BY <1>1
  <2>3. QED
    BY <1>1, <2>1, <2>2
<1>3. q \in 0..(w - 1)
  BY <1>1, <1>2
<1>4. QED
  BY <1>3 DEF q

(* Source and destination columns of one segment of a band. *)
Segments == Int \X Int \X Int \X Int

(* The column a segment samples lies in the segment's source. *)
LEMMA SourceInside ==
  ASSUME NEW seg \in Segments, NEW x \in Int,
         seg[1] < seg[2], seg[3] <= x, x < seg[4]
  PROVE  /\ SegSrc(seg, x) \in Int
         /\ seg[1] <= SegSrc(seg, x) /\ SegSrc(seg, x) < seg[2]
<1> DEFINE s0 == seg[1]
           s1 == seg[2]
           k == x - seg[3]
           n == seg[4] - seg[3]
           w == s1 - s0
           a == (2 * k + 1) * w
           b == 2 * n
<1>1. /\ s0 \in Int /\ s1 \in Int /\ k \in Nat /\ n \in Nat /\ n > 0 /\ k < n
      /\ w \in Nat /\ w > 0
  BY DEF Segments
<1>2. SegSrc(seg, x) = s0 + a \div b
  BY DEF SegSrc
<1> HIDE DEF s0, s1, k, n
<1>3. a \in Nat /\ b \in Nat /\ b > 0 /\ a < b * w
  <2>1. 2 * k + 1 \in Nat /\ b - (2 * k + 1) \in Nat /\ b - (2 * k + 1) > 0
    BY <1>1
  <2> DEFINE u == 2 * k + 1
             v == b - (2 * k + 1)
  <2> HIDE DEF w
  <2>2. u \in Nat /\ v \in Nat /\ v > 0 /\ w \in Nat /\ w > 0 /\ b = u + v
    BY <1>1, <2>1
  <2> HIDE DEF u, v, b
  <2>3. u * w \in Nat /\ v * w \in Nat /\ v * w > 0 /\ b * w = u * w + v * w
    BY <2>2
  <2>4. a = u * w
    BY DEF u
  <2>5. QED
    BY <2>2, <2>3, <2>4
<1> HIDE DEF a, b, w
<1>4. a \div b \in 0..(w - 1)
  BY <1>1, <1>3, QuotientBound
<1>5. a \div b \in Int /\ 0 <= a \div b /\ a \div b <= w - 1
  BY <1>1, <1>4
<1> DEFINE q == a \div b
<1> HIDE DEF q
<1>6. q \in Int /\ 0 <= q /\ q <= (s1 - s0) - 1
  BY <1>5 DEF q, w
<1>7. s0 + q \in Int /\ s0 <= s0 + q /\ s0 + q < s1
  BY <1>1, <1>6
<1>8. QED
  BY <1>2, <1>7 DEF q, s0, s1

(* A rigid segment moves its columns by its shift and rounds nothing. *)
LEMMA RigidSource ==
  ASSUME NEW seg \in Segments, NEW x \in Int, Rigid(seg),
         seg[3] <= x, x < seg[4]
  PROVE  SegSrc(seg, x) = x - Shift(seg)
<1> DEFINE k == x - seg[3]
           w == seg[2] - seg[1]
<1>1. k \in Nat /\ w \in Nat /\ w > 0 /\ seg[1] \in Int /\ seg[4] - seg[3] = w
      /\ x - Shift(seg) = seg[1] + k
  BY DEF Segments, Rigid, Shift
<1>2. SegSrc(seg, x) = seg[1] + ((2 * k + 1) * w) \div (2 * w)
  BY <1>1 DEF SegSrc
<1> HIDE DEF k, w
<1>3. ((2 * k + 1) * w) \div (2 * w) = k
  <2>1. (2 * k + 1) * w = (2 * w) * k + w
    BY <1>1
  <2> DEFINE b == 2 * w
             m == b * k
  <2>2. b \in Nat /\ b > w /\ m \in Nat
    BY <1>1
  <2>3. (m + w) \div b = k
    <3> DEFINE q == (m + w) \div b
    <3>1. q \in Nat /\ b * q <= m + w /\ m + w < b * q + b
      <4> HIDE DEF m, b
      <4>1. QED
        BY <1>1, <2>2
    <3> HIDE DEF q, b
    <3>2. ASSUME q < k PROVE FALSE
      <4>1. q + 1 \in Nat /\ q + 1 <= k
        BY <1>1, <3>1, <3>2
      <4>2. b * (q + 1) <= b * k
        BY <1>1, <2>2, <4>1, TimesMonotone
      <4>3. b * (q + 1) = b * q + b
        BY <2>2, <3>1
      <4> DEFINE bq == b * q
      <4>4. bq \in Nat /\ bq + b <= m
        BY <2>2, <3>1, <4>2, <4>3
      <4>5. m + w < bq + b
        BY <3>1
      <4> HIDE DEF bq, m
      <4>6. QED
        BY <1>1, <2>2, <4>4, <4>5
    <3>3. ASSUME q > k PROVE FALSE
      <4>1. k + 1 \in Nat /\ k + 1 <= q
        BY <1>1, <3>1, <3>3
      <4>2. b * (k + 1) <= b * q
        BY <1>1, <2>2, <3>1, <4>1, TimesMonotone
      <4>3. b * (k + 1) = m + b
        BY <1>1, <2>2
      <4> DEFINE bq == b * q
      <4>4. bq \in Nat /\ m + b <= bq /\ bq <= m + w
        BY <2>2, <3>1, <4>2, <4>3
      <4> HIDE DEF bq, m
      <4>5. QED
        BY <1>1, <2>2, <4>4
    <3>4. q = k
      BY <1>1, <3>1, <3>2, <3>3
    <3>5. QED
      BY <3>4 DEF q
  <2>4. QED
    BY <2>1, <2>3
<1>4. QED
  BY <1>1, <1>2, <1>3

(* The fields of a band without a hole. *)
LEMMA JoinedBands ==
  ASSUME NEW band \in Seq(Segments), WellJoined(band)
  PROVE  /\ Len(band) \in Nat /\ Len(band) >= 1 /\ DOMAIN band = 1..Len(band)
         /\ \A i \in 1..Len(band) :
              /\ band[i] \in Segments
              /\ band[i][1] \in Int /\ band[i][2] \in Int
              /\ band[i][3] \in Int /\ band[i][4] \in Int
              /\ 0 <= band[i][1] /\ band[i][1] < band[i][2] /\ band[i][2] <= NativeWidth
              /\ band[i][3] < band[i][4]
              /\ i > 1 => band[i][3] = band[i - 1][4]
<1>1. Len(band) \in Nat /\ DOMAIN band = 1..Len(band) /\ band # <<>>
  BY DEF WellJoined
<1>2. Len(band) >= 1
  BY <1>1
<1>3. \A i \in 1..Len(band) : band[i] \in Segments
  BY <1>1
<1>4. \A seg \in Segments : seg[1] \in Int /\ seg[2] \in Int /\ seg[3] \in Int /\ seg[4] \in Int
  BY DEF Segments
<1>5. QED
  BY <1>1, <1>2, <1>3, <1>4 DEF WellJoined

(* A later segment begins where an earlier one has ended, or after it. *)
LEMMA BandsAscend ==
  ASSUME NEW band \in Seq(Segments), WellJoined(band),
         NEW i \in 1..Len(band), NEW j \in 1..Len(band), i < j
  PROVE  band[i][4] <= band[j][3]
<1> DEFINE n == Len(band)
           Off == {m \in 1..n : i < m /\ ~(band[i][4] <= band[m][3])}
<1>1. /\ n \in Nat
      /\ \A m \in 1..n : /\ band[m][3] \in Int /\ band[m][4] \in Int
                         /\ band[m][3] < band[m][4]
                         /\ m > 1 => band[m][3] = band[m - 1][4]
  BY JoinedBands
<1>2. Off = {}
  <2>1. SUFFICES ASSUME Off # {} PROVE FALSE
    OBVIOUS
  <2>2. Off \subseteq Nat
    BY <1>1
  <2>3. PICK m \in Off : \A y \in Off : m <= y
    BY <2>1, <2>2, LeastNat
  <2>4. m \in 1..n /\ i < m /\ ~(band[i][4] <= band[m][3]) /\ m > 1
    BY <1>1, <2>3
  <2>5. band[m][3] = band[m - 1][4] /\ m - 1 \in 1..n /\ m - 1 >= i
    BY <1>1, <2>4
  <2>6. CASE m - 1 = i
    BY <1>1, <2>4, <2>5, <2>6
  <2>7. CASE m - 1 > i
    <3>1. m - 1 \notin Off
      BY <1>1, <2>3, <2>4
    <3>2. band[i][4] <= band[m - 1][3]
      BY <2>5, <2>7, <3>1
    <3>3. QED
      BY <1>1, <2>4, <2>5, <3>2
  <2>8. QED
    BY <1>1, <2>4, <2>5, <2>6, <2>7
<1>3. QED
  BY <1>2

(* A band without a hole leaves out no column between its ends. *)
LEMMA BandsCover ==
  ASSUME NEW band \in Seq(Segments), WellJoined(band), NEW x \in Int,
         band[1][3] <= x, x < band[Len(band)][4]
  PROVE  \E i \in 1..Len(band) : band[i][3] <= x /\ x < band[i][4]
<1> DEFINE n == Len(band)
           Past == {m \in 1..n : x < band[m][4]}
<1>1. /\ n \in Nat /\ n >= 1
      /\ \A m \in 1..n : /\ band[m][3] \in Int /\ band[m][4] \in Int
                         /\ m > 1 => band[m][3] = band[m - 1][4]
  BY JoinedBands
<1>2. Past \subseteq Nat /\ n \in Past
  BY <1>1
<1>3. PICK m \in Past : \A y \in Past : m <= y
  BY <1>2, LeastNat
<1>4. m \in 1..n /\ x < band[m][4]
  BY <1>3
<1>5. band[m][3] <= x
  <2>1. CASE m = 1
    BY <2>1
  <2>2. CASE m # 1
    <3>1. m > 1 /\ m - 1 \in 1..n /\ m - 1 \notin Past
      BY <1>1, <1>3, <1>4, <2>2
    <3>2. ~(x < band[m - 1][4])
      BY <3>1
    <3>3. QED
      BY <1>1, <1>4, <3>1, <3>2
  <2>3. QED
    BY <2>1, <2>2
<1>6. QED
  BY <1>4, <1>5

(* A band that reaches both 16:9 edges writes every column exactly once, and
   from inside the native line. *)
LEMMA SampledOnce ==
  ASSUME NEW band \in Seq(Segments), WellJoined(band),
         band[1][3] = -Extra, band[Len(band)][4] = NativeWidth + Extra,
         NEW x \in -Extra..(NativeWidth + Extra - 1)
  PROVE  Cardinality({p \in Sampled(band) : p[1] = x}) = 1
<1> DEFINE S == {p \in Sampled(band) : p[1] = x}
           n == Len(band)
<1>1. NativeWidth \in Nat /\ Extra \in Nat /\ x \in Int
  BY MetricsAssumption
<1>2. PICK i \in 1..n : band[i][3] <= x /\ x < band[i][4]
  <2>1. -Extra <= x /\ x < NativeWidth + Extra
    BY <1>1
  <2>2. QED
    BY <1>1, <2>1, BandsCover
<1>3. /\ DOMAIN band = 1..n /\ n \in Nat
      /\ \A m \in 1..n :
           /\ band[m] \in Segments
           /\ band[m][1] \in Int /\ band[m][2] \in Int
           /\ band[m][3] \in Int /\ band[m][4] \in Int
           /\ 0 <= band[m][1] /\ band[m][1] < band[m][2] /\ band[m][2] <= NativeWidth
  BY JoinedBands
<1>4. SegSrc(band[i], x) \in 0..(NativeWidth - 1)
  <2>1. /\ SegSrc(band[i], x) \in Int
        /\ band[i][1] <= SegSrc(band[i], x) /\ SegSrc(band[i], x) < band[i][2]
    BY <1>1, <1>2, <1>3, SourceInside
  <2> DEFINE src == SegSrc(band[i], x)
  <2> HIDE DEF src
  <2>2. src \in Int /\ band[i][1] <= src /\ src < band[i][2]
    BY <2>1 DEF src
  <2>3. src \in 0..(NativeWidth - 1)
    BY <1>1, <1>2, <1>3, <2>2
  <2>4. QED
    BY <2>3 DEF src
<1>5. <<x, i>> \in S
  BY <1>2, <1>3, <1>4 DEF Sampled
<1>6. ASSUME NEW p \in S
      PROVE  p = <<x, i>>
  <2>1. /\ p \in (-Extra..(NativeWidth + Extra - 1)) \X (1..n) /\ p[1] = x
        /\ band[p[2]][3] <= x /\ x < band[p[2]][4]
    BY <1>3 DEF Sampled
  <2>2. p = <<x, p[2]>> /\ p[2] \in 1..n
    BY <2>1
  <2> DEFINE j == p[2]
  <2>3. j \in 1..n /\ band[j][3] <= x /\ x < band[j][4]
    BY <2>1, <2>2
  <2> HIDE DEF j
  <2>4. ~(i < j)
    <3>1. i < j => band[i][4] <= band[j][3]
      BY <2>3, BandsAscend
    <3>2. QED
      BY <1>1, <1>2, <1>3, <2>3, <3>1
  <2>5. ~(j < i)
    <3>1. j < i => band[j][4] <= band[i][3]
      BY <2>3, BandsAscend
    <3>2. QED
      BY <1>1, <1>2, <1>3, <2>3, <3>1
  <2>6. i = j
    BY <1>2, <1>3, <2>3, <2>4, <2>5
  <2>7. QED
    BY <2>2, <2>6 DEF j
<1>7. S = {<<x, i>>}
  BY <1>5, <1>6
<1>8. QED
  BY <1>7, FS_Singleton

(* On a static scanline an exit 0 means the pixels were compared, and that each
   written column holds the native column its segment samples. *)
LEMMA StillSamples ==
  ASSUME VerdictInv, vExit = "0", HudChecked, ~Identity(vWorld.bands), vWorld.still
  PROVE  \A p \in Sampled(vWorld.bands) :
           HudWide(vWorld)[p[1] + Extra] = vWorld.pic[SegSrc(vWorld.bands[p[2]], p[1])]
<1>1. PixelVerdict(vWorld, HudWide(vWorld)) # "FAIL"
  BY DEF VerdictInv, HudChecked, ReportFailed
<1>2. vWorld.bands # <<>>
  BY DEF HudChecked, BandValid, WellJoined
<1> DEFINE wide == HudWide(vWorld)
<1>3. PixelVerdict(vWorld, wide) # "FAIL"
  BY <1>1
<1> HIDE DEF wide
<1>4. \A p \in Sampled(vWorld.bands) :
           wide[p[1] + Extra] = vWorld.pic[SegSrc(vWorld.bands[p[2]], p[1])]
  BY <1>2, <1>3 DEF PixelVerdict
<1>5. QED
  BY <1>4 DEF wide

(* A native column under a rigid segment is the one the shifted column samples. *)
LEMMA RigidEndSample ==
  ASSUME NEW band \in Seq(Segments), WellJoined(band),
         NEW i \in 1..Len(band), Rigid(band[i]),
         NEW s \in 0..(NativeWidth - 1), band[i][1] <= s, s < band[i][2],
         s + Shift(band[i]) \in -Extra..(NativeWidth + Extra - 1)
  PROVE  /\ <<s + Shift(band[i]), i>> \in Sampled(band)
         /\ SegSrc(band[i], s + Shift(band[i])) = s
<1>1. /\ DOMAIN band = 1..Len(band) /\ band[i] \in Segments
      /\ band[i][1] \in Int /\ band[i][2] \in Int /\ band[i][3] \in Int /\ band[i][4] \in Int
  BY JoinedBands
<1> DEFINE seg == band[i]
           x == s + Shift(seg)
<1>2. NativeWidth \in Nat /\ s \in Int
  BY MetricsAssumption
<1>3. x \in Int /\ seg[3] <= x /\ x < seg[4] /\ x - Shift(seg) = s
  <2>1. /\ seg[1] \in Int /\ seg[2] \in Int /\ seg[3] \in Int /\ seg[4] \in Int
        /\ seg[1] <= s /\ s < seg[2] /\ seg[2] - seg[1] = seg[4] - seg[3]
        /\ Shift(seg) = seg[3] - seg[1]
    BY <1>1 DEF Rigid, Shift
  <2> DEFINE sh == Shift(seg)
             s0 == seg[1]
             s1 == seg[2]
             d0 == seg[3]
             d1 == seg[4]
  <2>2. /\ s0 \in Int /\ s1 \in Int /\ d0 \in Int /\ d1 \in Int
        /\ s0 <= s /\ s < s1 /\ s1 - s0 = d1 - d0 /\ sh = d0 - s0
    BY <2>1
  <2> HIDE DEF sh, s0, s1, d0, d1
  <2>3. s + sh \in Int /\ d0 <= s + sh /\ s + sh < d1 /\ (s + sh) - sh = s
    BY <1>2, <2>2
  <2>4. QED
    BY <2>3 DEF sh, d0, d1
<1>4. SegSrc(seg, x) = s
  <2>1. seg \in Segments /\ Rigid(seg)
    BY <1>1
  <2> HIDE DEF seg, x
  <2>2. QED
    BY <1>3, <2>1, RigidSource
<1>5. <<x, i>> \in Sampled(band)
  BY <1>1, <1>3, <1>4 DEF Sampled
<1>6. QED
  BY <1>4, <1>5

(* A HUD that passes is anchored at both 16:9 edges, for every band the engine
   may export, every width and every margin. *)
THEOREM HudIsAnchored == VerdictSpec => []HudAnchored
<1>1. VerdictInv => HudAnchored
  <2> DEFINE band == vWorld.bands
             first == band[1]
             last == band[Len(band)]
             wide == HudWide(vWorld)
  <2>1. SUFFICES ASSUME VerdictInv, vExit = "0", Passed("elastic_bands_wellformed"),
                        ~Identity(band)
                 PROVE  /\ \A x \in -Extra..(NativeWidth + Extra - 1) :
                             Cardinality({p \in Sampled(band) : p[1] = x}) = 1
                        /\ vWorld.still =>
                             /\ \A s \in 0..(first[2] - 1) :
                                   s >= first[1] => wide[s - first[1]] = vWorld.pic[s]
                             /\ \A s \in last[1]..(NativeWidth - 1) :
                                   s < last[2] => wide[s + 2 * Extra] = vWorld.pic[s]
    BY DEF HudAnchored
  <2>2. HudChecked
    BY <2>1 DEF VerdictInv
  <2>3. band \in Seq(Segments)
    BY <2>1, <2>2, WorldKinds DEF VerdictInv, HudChecked, Segments
  <2>4. WellJoined(band)
    BY <2>2 DEF HudChecked, BandValid
  <2>5. /\ first[3] = -Extra /\ last[4] = NativeWidth + Extra
        /\ Rigid(first) /\ Shift(first) = -Extra
        /\ Rigid(last) /\ Shift(last) = Extra
    BY <2>1, <2>2 DEF HudChecked, BandValid
  <2>6. /\ NativeWidth \in Nat /\ Extra \in Nat
        /\ 1 \in 1..Len(band) /\ Len(band) \in 1..Len(band)
        /\ \A i \in 1..Len(band) :
              /\ band[i][1] \in Int /\ band[i][2] \in Int
              /\ band[i][3] \in Int /\ band[i][4] \in Int
              /\ 0 <= band[i][1] /\ band[i][2] <= NativeWidth
    <3>1. NativeWidth \in Nat /\ Extra \in Nat
      BY MetricsAssumption
    <3>2. Len(band) \in Nat /\ Len(band) >= 1
      BY <2>3, <2>4, JoinedBands
    <3>3. QED
      BY <2>3, <2>4, <3>1, <3>2, JoinedBands
  <2>7. ASSUME vWorld.still
        PROVE  \A p \in Sampled(band) : wide[p[1] + Extra] = vWorld.pic[SegSrc(band[p[2]], p[1])]
    BY <2>1, <2>2, <2>7, StillSamples
  <2> HIDE DEF wide
  <2>8. ASSUME vWorld.still, NEW s \in 0..(first[2] - 1), s >= first[1]
        PROVE  wide[s - first[1]] = vWorld.pic[s]
    <3>1. first[1] = 0
      BY <2>5, <2>6 DEF Shift
    <3>2. s \in 0..(NativeWidth - 1) /\ s < first[2] /\ first[1] <= s
          /\ s + Shift(first) \in -Extra..(NativeWidth + Extra - 1)
      BY <2>5, <2>6, <2>8
    <3>3. <<s + Shift(first), 1>> \in Sampled(band) /\ SegSrc(first, s + Shift(first)) = s
      <4>1. ASSUME NEW i \in 1..Len(band), i = 1
            PROVE  /\ <<s + Shift(band[i]), i>> \in Sampled(band)
                   /\ SegSrc(band[i], s + Shift(band[i])) = s
        <5>1. /\ Rigid(band[i]) /\ band[i][1] <= s /\ s < band[i][2]
              /\ s + Shift(band[i]) \in -Extra..(NativeWidth + Extra - 1)
          BY <2>5, <3>2, <4>1
        <5> HIDE DEF band
        <5>2. QED
          BY <2>3, <2>4, <3>2, <5>1, RigidEndSample
      <4>2. QED
        BY <2>6, <4>1
    <3>4. wide[s + Shift(first) + Extra] = vWorld.pic[s]
      BY <2>7, <2>8, <3>3
    <3>5. s + Shift(first) + Extra = s - first[1]
      BY <2>5, <2>6, <3>1, <3>2
    <3>6. QED
      BY <3>4, <3>5
  <2>9. ASSUME vWorld.still, NEW s \in last[1]..(NativeWidth - 1), s < last[2]
        PROVE  wide[s + 2 * Extra] = vWorld.pic[s]
    <3>1. s \in 0..(NativeWidth - 1) /\ last[1] <= s
          /\ s + Shift(last) \in -Extra..(NativeWidth + Extra - 1)
      BY <2>5, <2>6, <2>9
    <3>2. <<s + Shift(last), Len(band)>> \in Sampled(band) /\ SegSrc(last, s + Shift(last)) = s
      BY <2>3, <2>4, <2>5, <2>6, <2>9, <3>1, RigidEndSample
    <3>3. wide[s + Shift(last) + Extra] = vWorld.pic[s]
      BY <2>7, <2>9, <3>2
    <3>4. s + Shift(last) + Extra = s + 2 * Extra
      BY <2>5, <2>6, <3>1
    <3>5. QED
      BY <3>3, <3>4
  <2>10. \A x \in -Extra..(NativeWidth + Extra - 1) :
           Cardinality({p \in Sampled(band) : p[1] = x}) = 1
    BY <2>3, <2>4, <2>5, SampledOnce
  <2>11. QED
    BY <2>8, <2>9, <2>10
<1>2. QED
  BY <1>1, VerdictBegins, VerdictInductive, PTL DEF VerdictSpec

(*****************************************************************************)
(* recon_screens.py: tilemaps, culling and the write histogram               *)
(*****************************************************************************)
(* The shape of the stage's cursor, and the step of an invocation that runs. *)
ScrCursor ==
  /\ cursor = [pos |-> cursor.pos, todo |-> cursor.todo, frame |-> cursor.frame,
               seen |-> cursor.seen, got |-> cursor.got]
  /\ cursor.frame \in Nat
  /\ scrJobs # <<>> => scrArgs.step \in Steps

(* When the ring holds a step and its overshoot, the sampling has seen every
   write of the frames behind it. *)
NothingMissed ==
  scrArgs.step + Overshoot <= RingFrames =>
    \A l \in FightSc : scrWorld.writes[l] \cap 1..cursor.frame \subseteq cursor.seen[l]

(* The inductive invariant: the two properties say nothing of a stage under way
   and are kept only because of what the cursor has already seen. *)
ScrInv == ScrCursor /\ NothingMissed /\ StaticMapsAreStatic /\ CullMeasuresMotion

(* A result file is written alone. *)
LEMMA WriteFacts ==
  ASSUME NEW file, NEW content, Write(file, content)
  PROVE  /\ DOMAIN scrFiles' = DOMAIN scrFiles \cup {file}
         /\ scrFiles'[file] = content
         /\ \A f \in DOMAIN scrFiles : f # file => scrFiles'[f] = scrFiles[f]
  BY DEF Write

(* A stage begins with nothing behind it. *)
LEMMA FreshCursor ==
  ASSUME cursor' = Start, scrJobs' # <<>> => scrArgs'.step \in Steps
  PROVE  ScrCursor' /\ NothingMissed'
<1>1. /\ cursor'.frame = 0
      /\ cursor' = [pos |-> cursor'.pos, todo |-> cursor'.todo, frame |-> cursor'.frame,
                    seen |-> cursor'.seen, got |-> cursor'.got]
  BY DEF Start
<1>2. 1..cursor'.frame = {}
  BY <1>1
<1>3. QED
  BY <1>1, <1>2 DEF ScrCursor, NothingMissed

(* A step that neither advances the frame nor reads the ring. *)
LEMMA SameReading ==
  ASSUME ScrInv, cursor'.frame = cursor.frame, cursor'.seen = cursor.seen,
         UNCHANGED <<scrJobs, scrArgs, scrWorld>>,
         cursor' = [pos |-> cursor'.pos, todo |-> cursor'.todo, frame |-> cursor'.frame,
                    seen |-> cursor'.seen, got |-> cursor'.got]
  PROVE  ScrCursor' /\ NothingMissed'
  BY DEF ScrInv, ScrCursor, NothingMissed

(* A file other than these two cannot disturb what they say. *)
LEMMA OtherFile ==
  ASSUME ScrInv, scrWorld' = scrWorld,
         scrFiles' = scrFiles \/ \E file, content : /\ file \notin {"vram", "cull"}
                                                    /\ Write(file, content)
  PROVE  StaticMapsAreStatic' /\ CullMeasuresMotion'
<1>1. CASE scrFiles' = scrFiles
  BY <1>1 DEF ScrInv, StaticMapsAreStatic, CullMeasuresMotion
<1>2. ASSUME NEW file, NEW content, file \notin {"vram", "cull"}, Write(file, content)
      PROVE  StaticMapsAreStatic' /\ CullMeasuresMotion'
  <2>1. \A f \in {"vram", "cull"} : /\ f \in DOMAIN scrFiles' <=> f \in DOMAIN scrFiles
                                    /\ f \in DOMAIN scrFiles => scrFiles'[f] = scrFiles[f]
    BY <1>2, WriteFacts
  <2>2. QED
    BY <2>1 DEF ScrInv, StaticMapsAreStatic, CullMeasuresMotion
<1>3. QED
  BY <1>1, <1>2

(* Every step of the tool keeps it. *)
LEMMA ScrInductive == ScrInv /\ [ScrNext]_scrVars => ScrInv'
<1> SUFFICES ASSUME ScrInv, [ScrNext]_scrVars PROVE ScrInv'
  OBVIOUS
<1>0. /\ cursor = [pos |-> cursor.pos, todo |-> cursor.todo, frame |-> cursor.frame,
                   seen |-> cursor.seen, got |-> cursor.got]
      /\ cursor.frame \in Nat
      /\ scrJobs # <<>> => scrArgs.step \in Steps
  BY DEF ScrInv, ScrCursor
<1>1. CASE Invoke
  <2>1. /\ cursor' = Start /\ scrArgs'.step \in Steps
        /\ UNCHANGED <<scrWorld, scrFiles>>
    BY <1>1 DEF Invoke
  <2>2. QED
    BY <2>1, FreshCursor, OtherFile DEF ScrInv
<1>2. CASE Abort
  <2>1. scrJobs' = <<>> /\ cursor' = Start /\ UNCHANGED <<scrWorld, scrFiles>>
    BY <1>2 DEF Abort
  <2>2. QED
    BY <2>1, FreshCursor, OtherFile DEF ScrInv
<1>3. CASE CaptureScene
  <2>1. PICK name : cursor' = [cursor EXCEPT !.pos = @ + 1,
                            !.got = [s \in DOMAIN @ \cup {name} |->
                                       IF s = name THEN scrWorld.enabled[name]
                                       ELSE @[s]]]
    BY <1>3 DEF CaptureScene
  <2>2. UNCHANGED <<scrJobs, scrArgs, scrWorld, scrFiles>>
    BY <1>3 DEF CaptureScene
  <2>3. QED
    BY <1>0, <2>1, <2>2, SameReading, OtherFile DEF ScrInv
<1>4. CASE LayerShot
  <2>1. /\ UNCHANGED <<scrJobs, scrArgs, scrWorld, scrFiles>>
        /\ \/ cursor' = [cursor EXCEPT !.pos = @ + 1]
           \/ \E shot : cursor' = [cursor EXCEPT !.todo = Append(@, shot)]
    BY <1>4 DEF LayerShot
  <2>2. QED
    BY <1>0, <2>1, SameReading, OtherFile DEF ScrInv
<1>5. CASE CaptureDone \/ LayersDone
  <2>1. /\ cursor' = Start /\ scrJobs # <<>> /\ UNCHANGED <<scrArgs, scrWorld>>
        /\ \E file \in {"capture", "layers"} : \E content : Write(file, content)
    BY <1>5 DEF CaptureDone, LayersDone, NextStage, Stage
  <2>2. QED
    BY <1>0, <2>1, FreshCursor, OtherFile DEF ScrInv
<1>6. CASE VramSample
  <2>1. PICK late \in 0..Overshoot :
          cursor' = [cursor EXCEPT !.frame = cursor.frame + scrArgs.step + late,
                         !.seen = [l \in FightSc |->
                            @[l] \cup (scrWorld.writes[l]
                                         \cap InRing(cursor.frame + scrArgs.step + late))]]
    BY <1>6 DEF VramSample
  <2>2. scrJobs # <<>> /\ UNCHANGED <<scrJobs, scrArgs, scrWorld, scrFiles>>
    BY <1>6 DEF VramSample, Stage
  <2>3. scrArgs.step \in Nat /\ late \in Nat /\ late <= Overshoot /\ Overshoot \in Nat
        /\ RingFrames \in Nat
    BY <1>0, <2>2, ScreensAssumption
  <2> DEFINE now == cursor.frame + scrArgs.step + late
  <2>4. /\ cursor' = [pos |-> cursor'.pos, todo |-> cursor'.todo, frame |-> cursor'.frame,
                      seen |-> cursor'.seen, got |-> cursor'.got]
        /\ cursor'.frame = now /\ now \in Nat
        /\ \A l \in FightSc : cursor'.seen[l] = cursor.seen[l]
                                 \cup (scrWorld.writes[l] \cap InRing(now))
    <3>1. now \in Nat
      BY <1>0, <2>3
    <3> DEFINE union ==
          [l \in FightSc |-> cursor.seen[l] \cup (scrWorld.writes[l] \cap InRing(now))]
    <3>2. cursor' = [cursor EXCEPT !.frame = now, !.seen = union]
      BY <2>1
    <3>3. \A l \in FightSc : union[l] = cursor.seen[l] \cup (scrWorld.writes[l] \cap InRing(now))
      OBVIOUS
    <3> HIDE DEF now, union
    <3>4. QED
      BY <1>0, <3>1, <3>2, <3>3
  <2>5. ASSUME scrArgs.step + Overshoot <= RingFrames,
               NEW l \in FightSc, NEW f \in scrWorld.writes[l] \cap 1..now
        PROVE  f \in cursor'.seen[l]
    <3>1. CASE f <= cursor.frame
      <4>1. f \in scrWorld.writes[l] \cap 1..cursor.frame
        BY <1>0, <2>3, <2>5, <3>1
      <4>2. QED
        BY <2>4, <2>5, <4>1 DEF ScrInv, NothingMissed
    <3>2. CASE f > cursor.frame
      <4>1. f \in InRing(now)
        BY <1>0, <2>3, <2>5, <3>2 DEF InRing
      <4>2. QED
        BY <2>4, <2>5, <4>1
    <3>3. QED
      BY <1>0, <2>3, <2>5, <3>1, <3>2
  <2>6. ScrCursor'
    BY <1>0, <2>2, <2>4 DEF ScrCursor
  <2>7. NothingMissed'
    BY <2>2, <2>4, <2>5 DEF NothingMissed
  <2>8. QED
    BY <2>2, <2>6, <2>7, OtherFile DEF ScrInv
<1>7. CASE VramDone
  <2>1. /\ cursor' = Start /\ scrJobs # <<>> /\ UNCHANGED <<scrArgs, scrWorld>>
        /\ cursor.frame >= FightLen
        /\ Write("vram", [l \in FightSc |-> [static |-> cursor.seen[l] = {},
                                             step |-> scrArgs.step]])
    BY <1>7 DEF VramDone, NextStage, Stage
  <2>2. /\ DOMAIN scrFiles' = DOMAIN scrFiles \cup {"vram"}
        /\ \A l \in FightSc : /\ scrFiles'["vram"][l].static <=> cursor.seen[l] = {}
                              /\ scrFiles'["vram"][l].step = scrArgs.step
        /\ \A f \in DOMAIN scrFiles : f # "vram" => scrFiles'[f] = scrFiles[f]
    <3> DEFINE found == [l \in FightSc |-> [static |-> cursor.seen[l] = {},
                                            step |-> scrArgs.step]]
    <3>1. \A l \in FightSc : found[l].static <=> cursor.seen[l] = {}
      BY Zenon
    <3>2. \A l \in FightSc : found[l].step = scrArgs.step
      OBVIOUS
    <3>3. Write("vram", found)
      BY <2>1
    <3> HIDE DEF found
    <3>4. /\ DOMAIN scrFiles' = DOMAIN scrFiles \cup {"vram"}
          /\ scrFiles'["vram"] = found
          /\ \A f \in DOMAIN scrFiles : f # "vram" => scrFiles'[f] = scrFiles[f]
      BY <3>3, WriteFacts
    <3>5. QED
      BY <3>1, <3>2, <3>4, Zenon
  <2>3. CullMeasuresMotion'
    BY <2>2 DEF ScrInv, CullMeasuresMotion
  <2>4. ASSUME NEW l \in FightSc, scrFiles'["vram"][l].static,
               scrFiles'["vram"][l].step + Overshoot <= RingFrames
        PROVE  scrWorld'.writes[l] \cap 1..FightLen = {}
    <3>1. cursor.seen[l] = {}
      BY <2>2, <2>4, Zenon
    <3>2. scrWorld.writes[l] \cap 1..cursor.frame = {}
      BY <2>2, <2>4, <3>1 DEF ScrInv, NothingMissed
    <3>3. 1..FightLen \subseteq 1..cursor.frame
      BY <1>0, <2>1, ScreensAssumption
    <3>4. QED
      BY <2>1, <3>2, <3>3
  <2>5. StaticMapsAreStatic'
    BY <2>4 DEF StaticMapsAreStatic
  <2>6. QED
    BY <1>0, <2>1, <2>3, <2>5, FreshCursor DEF ScrInv
<1>8. CASE Report
  <2>1. CASE Reportable
    <3>1. /\ cursor' = Start /\ scrJobs # <<>> /\ UNCHANGED <<scrArgs, scrWorld>>
          /\ \E content : Write("screens", content)
      BY <1>8, <2>1 DEF Report, NextStage, Stage
    <3>2. QED
      BY <1>0, <3>1, FreshCursor, OtherFile DEF ScrInv
  <2>2. CASE ~Reportable
    BY <1>2, <1>8, <2>2 DEF Report
  <2>3. QED
    BY <2>1, <2>2
<1>9. CASE Cull \/ CullRomOnly
  <2>1. /\ cursor' = Start /\ scrJobs # <<>> /\ UNCHANGED <<scrArgs, scrWorld>>
    BY <1>9 DEF Cull, CullRomOnly, NextStage, Stage
  <2>2. \E content \in {"running", "none"} : Write("cull", content)
    <3>1. CASE Cull
      <4>1. PICK came : Enter("attract_fight", TRUE, came) /\ Write("cull", came)
        BY <3>1 DEF Cull
      <4>2. came = "running"
        BY <4>1 DEF Enter, ReachedAs, Trusted
      <4>3. QED
        BY <4>1, <4>2
    <3>2. CASE CullRomOnly
      BY <3>2 DEF CullRomOnly, ScrInv, CullMeasuresMotion
    <3>3. QED
      BY <1>9, <3>1, <3>2
  <2>3. /\ "vram" \in DOMAIN scrFiles' <=> "vram" \in DOMAIN scrFiles
        /\ "vram" \in DOMAIN scrFiles => scrFiles'["vram"] = scrFiles["vram"]
        /\ scrFiles'["cull"] \in {"running", "none"}
    <3>1. PICK content \in {"running", "none"} : Write("cull", content)
      BY <2>2
    <3>2. /\ DOMAIN scrFiles' = DOMAIN scrFiles \cup {"cull"}
          /\ scrFiles'["cull"] = content
          /\ \A g \in DOMAIN scrFiles : g # "cull" => scrFiles'[g] = scrFiles[g]
      BY <3>1, WriteFacts
    <3>3. QED
      BY <3>1, <3>2
  <2>4. StaticMapsAreStatic' /\ CullMeasuresMotion'
    BY <2>1, <2>3 DEF ScrInv, StaticMapsAreStatic, CullMeasuresMotion
  <2>5. QED
    BY <1>0, <2>1, <2>4, FreshCursor DEF ScrInv
<1>10. CASE UNCHANGED scrVars
  BY <1>10 DEF scrVars, ScrInv, ScrCursor, NothingMissed, StaticMapsAreStatic, CullMeasuresMotion
<1>11. QED
  BY <1>1, <1>2, <1>3, <1>4, <1>5, <1>6, <1>7, <1>8, <1>9, <1>10 DEF ScrNext, StageFails

(* The tool starts without files. *)
LEMMA ScrStart == ASSUME NEW writeSets, ScrInit(writeSets) PROVE ScrInv
<1>1. /\ cursor = Start /\ scrJobs = <<>> /\ DOMAIN scrFiles = {}
  BY DEF ScrInit
<1>2. cursor.frame = 0 /\ 1..cursor.frame = {}
  BY <1>1 DEF Start
<1>3. QED
  BY <1>1, <1>2 DEF ScrInv, ScrCursor, NothingMissed, StaticMapsAreStatic, CullMeasuresMotion, Start

(* A tilemap called static was written by nothing in the sampled fight, for
   every ring length and step. *)
THEOREM StaticMaps == ASSUME NEW writeSets PROVE ScrSpec(writeSets) => []StaticMapsAreStatic
<1>1. ScrInv => StaticMapsAreStatic
  BY DEF ScrInv
<1>2. ScrInit(writeSets) => ScrInv
  BY ScrStart
<1>3. QED
  BY <1>1, <1>2, ScrInductive, PTL DEF ScrSpec

(* A cull measurement was taken in a running fight or not at all. *)
THEOREM CullMoves == ASSUME NEW writeSets PROVE ScrSpec(writeSets) => []CullMeasuresMotion
<1>1. ScrInv => CullMeasuresMotion
  BY DEF ScrInv
<1>2. ScrInit(writeSets) => ScrInv
  BY ScrStart
<1>3. QED
  BY <1>1, <1>2, ScrInductive, PTL DEF ScrSpec

(* MapCell inverts MapWord on all four screen sizes. *)
LEMMA CellOfItsWord ==
  ASSUME NEW sc \in Nat,
         NEW tx \in 0..(ScreenTiles(sc).w - 1), NEW ty \in 0..(ScreenTiles(sc).h - 1)
  PROVE  MapCell(ScreenTiles(sc), MapWord(ScreenTiles(sc), tx, ty)) = [tx |-> tx, ty |-> ty]
<1> DEFINE tiles == ScreenTiles(sc)
           word == MapWord(tiles, tx, ty)
<1>1. tiles.w \in {32, 64} /\ tiles.h \in {32, 64}
  BY DEF ScreenTiles
<1>2. tx \in Int /\ ty \in Int /\ 0 <= tx /\ 0 <= ty /\ tx < tiles.w /\ ty < tiles.h
  BY <1>1
<1> HIDE DEF tiles
<1>3. word = (ty % 32) * 32 + (tx % 32) + (IF tx >= 32 /\ tiles.w > 32 THEN 1024 ELSE 0)
              + (IF ty >= 32 /\ tiles.h > 32 THEN (IF tiles.w > 32 THEN 2048 ELSE 1024) ELSE 0)
  BY DEF MapWord
<1>4. /\ tx % 32 = IF tx >= 32 THEN tx - 32 ELSE tx
      /\ ty % 32 = IF ty >= 32 THEN ty - 32 ELSE ty
  BY <1>1, <1>2
<1> HIDE DEF word
<1> DEFINE bottom == tiles.h > 32 /\ word >= (IF tiles.w > 32 THEN 2048 ELSE 1024)
           w == IF bottom THEN word - (IF tiles.w > 32 THEN 2048 ELSE 1024) ELSE word
           right == tiles.w > 32 /\ w >= 1024
           v == IF right THEN w - 1024 ELSE w
<1>5. (bottom <=> ty >= 32) /\ (right <=> tx >= 32) /\ v = (ty % 32) * 32 + (tx % 32)
  BY <1>1, <1>2, <1>3, <1>4
<1>6. v % 32 = tx % 32 /\ v \div 32 = ty % 32
  BY <1>2, <1>4, <1>5
<1>7. MapCell(tiles, word) = [tx |-> (IF right THEN 32 ELSE 0) + (v % 32),
                              ty |-> (IF bottom THEN 32 ELSE 0) + (v \div 32)]
  BY DEF MapCell
<1> HIDE DEF bottom, right, v, w
<1>8. MapCell(tiles, word) = [tx |-> tx, ty |-> ty]
  BY <1>1, <1>2, <1>4, <1>5, <1>6, <1>7
<1>9. QED
  BY <1>8 DEF tiles, word

(* The write histogram names the cell that was written. *)
THEOREM CellsAreNamed == ASSUME NEW writeSets PROVE ScrSpec(writeSets) => []HistogramNamesTheCell
<1>1. HistogramNamesTheCell
  BY CellOfItsWord DEF HistogramNamesTheCell
<1>2. QED
  BY <1>1, PTL

(*****************************************************************************)
(* recon_gate.py: the live-fight gate                                        *)
(*****************************************************************************)
(* Two elements of a set that has two at least. *)
LEMMA TwoOf ==
  ASSUME NEW S, IsFiniteSet(S), Cardinality(S) >= 2
  PROVE  \E x, y \in S : x # y
<1>1. Cardinality(S) \in Nat /\ Cardinality(S) # 0 /\ Cardinality(S) # 1
  BY FS_CardinalityType
<1>2. S # {} /\ ~ \E x : S = {x}
  BY <1>1, FS_EmptySet, FS_Singleton
<1>3. PICK x \in S : TRUE
  BY <1>2
<1>4. S # {x}
  BY <1>2
<1>5. QED
  BY <1>3, <1>4

(* What an address of each behaviour reads in a sample. *)
LEMMA ValueFacts ==
  ASSUME NEW b \in Behaviours, NEW s
  PROVE  /\ b = "constant" => ValueAt(b, s) = "clear"
         /\ b = "battle" => ValueAt(b, s) = IF s.screen \in BattleFamily THEN "set" ELSE "clear"
         /\ b = "latched" =>
              ValueAt(b, s) = IF s.screen \in {"fight", "after"} THEN "set" ELSE "clear"
         /\ b \in {"counter", "rng"} /\ s.screen = "fight" => ValueAt(b, s) = s.label
<1>1. b = "constant" => ValueAt(b, s) = "clear"
  BY SMT DEF ValueAt
<1>2. b = "battle" => ValueAt(b, s) = IF s.screen \in BattleFamily THEN "set" ELSE "clear"
  BY SMT DEF ValueAt
<1>3. b = "latched" => ValueAt(b, s) = IF s.screen \in {"fight", "after"} THEN "set" ELSE "clear"
  BY SMT DEF ValueAt
<1>4. b \in {"counter", "rng"} /\ s.screen = "fight" => ValueAt(b, s) = s.label
  BY SMT DEF ValueAt
<1>5. QED
  BY <1>1, <1>2, <1>3, <1>4

(* On a wide sweep only a mode word is constant over the live samples and
   different in all the others: constants and latches agree with a sample
   after the fight, a battle word with a banked quote, and what counts is not
   constant. *)
LEMMA UniqueIsMode ==
  ASSUME NEW a, behaviour[a] \in Behaviours, NEW sweep, sweep \subseteq AttractOffsets,
         SweepIsWide(sweep \cup StateScenes), Unique(a, sweep \cup StateScenes)
  PROVE  behaviour[a] = "mode"
<1> DEFINE samples == sweep \cup StateScenes
           live == Live(samples)
           value(s) == ValueAt(behaviour[a], s)
<1>1. live \subseteq AttractOffsets /\ IsFiniteSet(live) /\ \A s \in live : s.live
  <2>1. live \subseteq AttractOffsets /\ \A s \in live : s.live
    BY SampleAssumption DEF Live
  <2>2. QED
    BY <2>1, SampleAssumption, FS_Subset
<1>2. PICK s1, s2 \in live : s1 # s2
  BY <1>1, TwoOf DEF SweepIsWide
<1>3. /\ s1.screen = "fight" /\ s2.screen = "fight" /\ s1.label # s2.label
  BY <1>1, <1>2, SampleAssumption
<1>4. \A s \in live : value(s) \in Values(a, live)
  BY DEF Values
<1>5. value(s1) = value(s2)
  <2> DEFINE f == [s \in live |-> value(s)]
  <2>1. f \in Surjection(live, Values(a, live))
    BY DEF Surjection, Values
  <2>2. IsFiniteSet(Values(a, live))
    BY <1>1, <2>1, FS_Surjection
  <2>3. Cardinality(Values(a, live)) = 1
    BY DEF Unique
  <2>4. PICK v : Values(a, live) = {v}
    BY <2>2, <2>3, FS_Singleton
  <2>5. QED
    BY <1>2, <1>4, <2>4
<1>6. ASSUME NEW s \in samples, ~s.live
      PROVE  value(s) # value(s1)
  <2>1. s \in samples \ live
    BY <1>6 DEF Live
  <2>2. value(s) \in Values(a, samples \ live)
    BY <2>1 DEF Values
  <2>3. Values(a, live) \cap Values(a, samples \ live) = {}
    BY DEF Unique
  <2>4. QED
    BY <1>2, <1>4, <2>2, <2>3
<1>7. PICK after \in samples : after.screen = "after" /\ ~after.live
  <2>1. PICK after \in samples : after.screen = "after"
    BY DEF SweepIsWide
  <2>2. ~after.live
    BY <2>1, SampleAssumption
  <2>3. QED
    BY <2>1, <2>2
<1>8. PICK lost \in StateScenes : lost.screen \in {"quote", "round end"} /\ ~lost.live
  BY SampleAssumption
<1>9. lost \in samples
  BY <1>8
<1>10. behaviour[a] # "constant"
  BY <1>6, <1>7, ValueFacts
<1>11. behaviour[a] # "battle"
  BY <1>3, <1>6, <1>8, <1>9, ValueFacts DEF BattleFamily
<1>12. behaviour[a] # "latched"
  BY <1>3, <1>6, <1>7, ValueFacts
<1>13. behaviour[a] \notin {"counter", "rng"}
  BY <1>3, <1>5, ValueFacts
<1>14. QED
  BY <1>10, <1>11, <1>12, <1>13 DEF Behaviours

(* The rows of a confirm file. *)
ConfirmRows ==
  {[addr |-> a, fight |-> Ticks(behaviour[a], "fight"),
    quote |-> Ticks(behaviour[a], "quote")] : a \in Addresses}

(* What the stages' files hold, whichever invocation wrote them. *)
FilesHold ==
  /\ "sweep" \in DOMAIN gateFiles => gateFiles["sweep"] \subseteq AttractOffsets
  /\ "states" \in DOMAIN gateFiles => gateFiles["states"] = StateScenes
  /\ "confirm" \in DOMAIN gateFiles => gateFiles["confirm"] = ConfirmRows

(* The inductive invariant: a verdict is right because of the files it reads,
   which earlier invocations may have left. *)
ReconGateInv ==
  /\ behaviour \in [Addresses -> Behaviours]
  /\ FilesHold /\ GateSeparates

(* The row Classify looks up is the address's own. *)
LEMMA ConfirmedTicks ==
  ASSUME NEW a \in Addresses, gateFiles["confirm"] = ConfirmRows
  PROVE  /\ TicksOf(a, "fight") = Ticks(behaviour[a], "fight")
         /\ TicksOf(a, "quote") = Ticks(behaviour[a], "quote")
<1> DEFINE R == [addr |-> a, fight |-> Ticks(behaviour[a], "fight"),
                 quote |-> Ticks(behaviour[a], "quote")]
           row == CHOOSE r \in ConfirmRows : r.addr = a
<1>1. R \in ConfirmRows /\ R.addr = a
  BY DEF ConfirmRows
<1>2. \A r \in ConfirmRows : r.addr = a => r = R
  BY DEF ConfirmRows
<1>3. row = R
  BY <1>1, <1>2
<1>4. R.fight = Ticks(behaviour[a], "fight") /\ R.quote = Ticks(behaviour[a], "quote")
  OBVIOUS
<1> HIDE DEF R
<1>5. QED
  BY <1>3, <1>4 DEF TicksOf

(* A stage's file is written alone. *)
LEMMA GateWriteFacts ==
  ASSUME NEW name, NEW content, GateWrites(name, content)
  PROVE  /\ behaviour' = behaviour
         /\ DOMAIN gateFiles' = DOMAIN gateFiles \cup {name}
         /\ gateFiles'[name] = content
         /\ \A f \in DOMAIN gateFiles : f # name => gateFiles'[f] = gateFiles[f]
  BY DEF GateWrites

(* A stage other than the verdict keeps the invariant when its file holds what
   it measured. *)
LEMMA GateWriteKeeps ==
  ASSUME ReconGateInv, NEW name, NEW content, GateWrites(name, content), name # "verdict",
         name = "sweep" => content \subseteq AttractOffsets,
         name = "states" => content = StateScenes,
         name = "confirm" => content = ConfirmRows
  PROVE  ReconGateInv'
<1>1. /\ behaviour' = behaviour
      /\ DOMAIN gateFiles' = DOMAIN gateFiles \cup {name}
      /\ gateFiles'[name] = content
      /\ \A f \in DOMAIN gateFiles : f # name => gateFiles'[f] = gateFiles[f]
  BY GateWriteFacts
<1>2. ConfirmRows' = ConfirmRows
  BY <1>1 DEF ConfirmRows
<1>3. FilesHold'
  BY <1>1, <1>2 DEF ReconGateInv, FilesHold
<1>4. GateSeparates'
  BY <1>1 DEF ReconGateInv, GateSeparates
<1>5. QED
  BY <1>1, <1>3, <1>4 DEF ReconGateInv

(* Every step of the tool keeps it, the verdict from stale files included. *)
LEMMA ReconGateInductive == ReconGateInv /\ [ReconGateNext]_reconGateVars => ReconGateInv'
<1> SUFFICES ASSUME ReconGateInv, [ReconGateNext]_reconGateVars PROVE ReconGateInv'
  OBVIOUS
<1>1. CASE UNCHANGED <<behaviour, gateFiles>>
  <2>1. ConfirmRows' = ConfirmRows
    BY <1>1 DEF ConfirmRows
  <2>2. QED
    BY <1>1, <2>1 DEF ReconGateInv, FilesHold, GateSeparates
<1>2. CASE Sweep
  BY <1>2, GateWriteKeeps DEF Sweep
<1>3. CASE States
  BY <1>3, GateWriteKeeps DEF States
<1>4. CASE Confirm
  BY <1>4, GateWriteKeeps DEF Confirm, ConfirmRows
<1>5. CASE Diff
  BY <1>5, GateWriteKeeps DEF Diff
<1>6. CASE Narrow
  BY <1>6, GateWriteKeeps DEF Narrow
<1>7. CASE Liveness
  BY <1>7, GateWriteKeeps DEF Liveness
<1>8. CASE Writers
  BY <1>8, GateWriteKeeps DEF Writers
<1>9. CASE Verdict
  <2> DEFINE samples == gateFiles["sweep"] \cup gateFiles["states"]
             verdict == [a \in Addresses |-> Classify(a, samples)]
             lively == {a \in Addresses : verdict[a] = "liveness"}
             named(live) == [verdict |-> verdict, samples |-> samples,
                             mode |-> GateMode, liveness |-> live]
  <2>1. /\ {"sweep", "states", "confirm", "writers"} \subseteq DOMAIN gateFiles
        /\ \E live \in lively \cup {"none"} : GateWrites("verdict", {named(live)})
    BY <1>9 DEF Verdict, GateStage, Reads
  <2>2. PICK live \in lively \cup {"none"} : GateWrites("verdict", {named(live)})
    BY <2>1
  <2>3. /\ gateFiles["sweep"] \subseteq AttractOffsets /\ gateFiles["states"] = StateScenes
        /\ gateFiles["confirm"] = ConfirmRows
    BY <2>1 DEF ReconGateInv, FilesHold
  <2>4. ASSUME SweepIsWide(samples), NEW a \in Addresses, verdict[a] = "mode"
        PROVE  behaviour[a] = "mode"
    <3>1. Unique(a, samples)
      BY <2>4 DEF Classify
    <3>2. behaviour[a] \in Behaviours
      BY DEF ReconGateInv
    <3>3. QED
      BY <2>3, <2>4, <3>1, <3>2, UniqueIsMode
  <2>5. ASSUME live # "none"
        PROVE  Ticks(behaviour[live], "fight") > 0 /\ Ticks(behaviour[live], "quote") = 0
    <3>1. live \in Addresses /\ Classify(live, samples) = "liveness"
      BY <2>2, <2>5
    <3>2. TicksOf(live, "fight") >= MinTicks /\ TicksOf(live, "quote") = 0
      BY <3>1 DEF Classify
    <3>3. MinTicks \in Nat /\ MinTicks > 0
      BY GateAssumption
    <3>4. Ticks(behaviour[live], "fight") \in Nat
      BY <3>3 DEF Ticks
    <3>5. QED
      BY <2>3, <3>1, <3>2, <3>3, <3>4, ConfirmedTicks
  <2>6. /\ named(live).verdict = verdict /\ named(live).samples = samples
        /\ named(live).liveness = live
    OBVIOUS
  <2> HIDE DEF named, verdict, samples
  <2>7. /\ behaviour' = behaviour /\ gateFiles'["verdict"] = {named(live)}
        /\ DOMAIN gateFiles' = DOMAIN gateFiles \cup {"verdict"}
        /\ \A f \in DOMAIN gateFiles : f # "verdict" => gateFiles'[f] = gateFiles[f]
    BY <2>2, GateWriteFacts
  <2>8. ConfirmRows' = ConfirmRows
    BY <2>7 DEF ConfirmRows
  <2>9. FilesHold'
    BY <2>7, <2>8 DEF ReconGateInv, FilesHold
  <2>10. \A g \in gateFiles'["verdict"] : g = named(live)
    BY <2>7
  <2>11. ASSUME NEW g \in gateFiles'["verdict"], SweepIsWide(g.samples)
         PROVE  /\ \A a \in Addresses : g.verdict[a] = "mode" => behaviour'[a] = "mode"
                /\ g.liveness # "none" => /\ Ticks(behaviour'[g.liveness], "fight") > 0
                                          /\ Ticks(behaviour'[g.liveness], "quote") = 0
    <3>1. g.verdict = verdict /\ g.samples = samples /\ g.liveness = live
      BY <2>6, <2>10
    <3>2. QED
      BY <2>4, <2>5, <2>7, <2>11, <3>1
  <2>12. GateSeparates'
    BY <2>11 DEF GateSeparates
  <2>13. QED
    BY <2>7, <2>9, <2>12 DEF ReconGateInv
<1>10. QED
  BY <1>1, <1>2, <1>3, <1>4, <1>5, <1>6, <1>7, <1>8, <1>9
     DEF ReconGateNext, GateInvoke, GateStageFails, DiffRaises, reconGateVars

(* A published gate separates, for every table of samples and every shortlist. *)
THEOREM GateAlwaysSeparates == ReconGateSpec => []GateSeparates
<1>1. ReconGateInit => ReconGateInv
  BY DEF ReconGateInit, ReconGateInv, FilesHold, GateSeparates
<1>2. ReconGateInv => GateSeparates
  BY DEF ReconGateInv
<1>3. QED
  BY <1>1, <1>2, ReconGateInductive, PTL DEF ReconGateSpec

(*****************************************************************************)
(* recon_camera.py: the camera word                                          *)
(*****************************************************************************)
(* A clamped scroll register, and its hold after the last frame. *)
LEMMA ScrollRange ==
  ASSUME scroll \in Scrolls
  PROVE  /\ Len(scroll) \in Nat
         /\ \A f \in FightFrames : At(f) \in Nat /\ 2 * At(f) < ScrollModulus
         /\ At(Len(scroll) + 1) = At(Len(scroll))
<1>1. /\ scroll \in Seq(Nat) /\ Len(scroll) \in Nat /\ DOMAIN scroll = 1..Len(scroll)
      /\ \A f \in 1..Len(scroll) : scroll[f] \in Nat /\ 2 * scroll[f] < ScrollModulus
  BY ClampAssumption
<1>2. QED
  BY <1>1 DEF At, FightFrames

(* A scroll that never steps is one value throughout. *)
LEMMA SteadyIsFixed ==
  ASSUME scroll \in Scrolls, \A f \in FightFrames : At(f + 1) = At(f)
  PROVE  \A f, g \in FightFrames : At(f) = At(g)
<1> DEFINE Off == {n \in FightFrames : At(n) # At(1)}
<1>1. Len(scroll) \in Nat
  BY ScrollRange
<1>2. Off = {}
  <2>1. SUFFICES ASSUME Off # {} PROVE FALSE
    OBVIOUS
  <2>2. Off \subseteq Nat
    BY <1>1 DEF FightFrames
  <2>3. PICK n \in Off : \A m \in Off : n <= m
    BY <2>1, <2>2, LeastNat
  <2>4. n # 1 /\ n \in FightFrames
    BY <2>3
  <2>5. n - 1 \in FightFrames /\ n - 1 \notin Off /\ (n - 1) + 1 = n
    BY <1>1, <2>2, <2>3, <2>4 DEF FightFrames
  <2>6. At(n - 1) = At(1) /\ At(n) = At(n - 1)
    BY <2>5
  <2>7. QED
    BY <2>3, <2>6
<1>3. QED
  BY <1>2

(* Among the words that follow the camera only the copy agrees with a moving
   register on every frame: twice, minus or one frame ahead of a scroll below
   half the modulus is the scroll itself only where it is 0 or stands still. *)
LEMMA OnlyTheCopyAgrees ==
  ASSUME scroll \in Scrolls, follows[Latched] \in Follows,
         Mismatches(Latched) = {}, Slope = "moves"
  PROVE  follows[Latched] = "copy"
<1> DEFINE M == ScrollModulus
<1>1. \A f \in FightFrames : WordAt(Latched, f) % M = At(f)
  BY DEF Mismatches
<1>2. ~ \A f, g \in FightFrames : At(f) = At(g)
  BY DEF Slope
<1>3. M \in Nat /\ M > 0
  BY CameraAssumption
<1>4. \A f \in FightFrames : At(f) \in Nat /\ 2 * At(f) < M
  BY ScrollRange
<1>5. ASSUME \A f \in FightFrames : At(f) = 0
      PROVE  FALSE
  BY <1>2, <1>5
<1>6. CASE follows[Latched] = "still"
  <2>1. \A f \in FightFrames : WordAt(Latched, f) = 0
    BY <1>6, SMT DEF WordAt
  <2>2. 0 % M = 0
    BY <1>3
  <2>3. QED
    BY <1>1, <1>5, <2>1, <2>2
<1>7. CASE follows[Latched] = "double"
  <2>1. \A f \in FightFrames : WordAt(Latched, f) = 2 * At(f)
    BY <1>7, SMT DEF WordAt
  <2>2. \A v \in Nat : 2 * v < M => (2 * v) % M = 2 * v
    BY <1>3
  <2>3. \A f \in FightFrames : 2 * At(f) = At(f)
    BY <1>1, <1>4, <2>1, <2>2
  <2>4. \A f \in FightFrames : At(f) = 0
    BY <1>4, <2>3
  <2>5. QED
    BY <1>5, <2>4
<1>8. CASE follows[Latched] = "against"
  <2>1. \A f \in FightFrames : WordAt(Latched, f) = 0 - At(f)
    BY <1>8, SMT DEF WordAt
  <2>2. \A v \in Nat : v # 0 /\ 2 * v < M => (0 - v) % M = M - v
    BY <1>3
  <2>3. \A f \in FightFrames : At(f) = 0
    BY <1>1, <1>3, <1>4, <2>1, <2>2
  <2>4. QED
    BY <1>5, <2>3
<1>9. CASE follows[Latched] = "ahead"
  <2>1. \A f \in FightFrames : WordAt(Latched, f) = At(f + 1)
    BY <1>9, SMT DEF WordAt
  <2>2. \A v \in Nat : 2 * v < M => v % M = v
    BY <1>3
  <2>3. ASSUME NEW f \in FightFrames
        PROVE  At(f + 1) = At(f)
    <3>1. Len(scroll) \in Nat /\ At(Len(scroll) + 1) = At(Len(scroll))
      BY ScrollRange
    <3>2. CASE f = Len(scroll)
      BY <3>1, <3>2
    <3>3. CASE f # Len(scroll)
      <4>1. f + 1 \in FightFrames
        BY <3>1, <3>3 DEF FightFrames
      <4>2. QED
        BY <1>1, <1>4, <2>1, <2>2, <4>1
    <3>4. QED
      BY <3>2, <3>3
  <2>4. QED
    BY <1>2, <2>3, SteadyIsFixed
<1>10. QED
  BY <1>6, <1>7, <1>8, <1>9 DEF Follows

(* The inductive invariant: the two files hold what the world shows. *)
CamInv ==
  /\ scroll \in Scrolls /\ follows \in [Words -> Follows]
  /\ "verify" \in DOMAIN camFiles =>
       \A w \in DOMAIN camFiles["verify"] : camFiles["verify"][w] = Mismatches(w)
  /\ "camera" \in DOMAIN camFiles =>
       /\ camFiles["camera"].mismatches = Mismatches(Latched)
       /\ camFiles["camera"].layer = Slope

(* A stage's file keeps it when it holds what the stage measured. *)
LEMMA CamWriteKeeps ==
  ASSUME CamInv, NEW name, NEW content, CamWrites(name, content),
         name = "verify" => \A w \in DOMAIN content : content[w] = Mismatches(w),
         name = "camera" => content.mismatches = Mismatches(Latched) /\ content.layer = Slope
  PROVE  CamInv'
<1>1. /\ UNCHANGED <<scroll, follows>>
      /\ DOMAIN camFiles' = DOMAIN camFiles \cup {name}
      /\ camFiles'[name] = content
      /\ \A f \in DOMAIN camFiles : f # name => camFiles'[f] = camFiles[f]
  BY DEF CamWrites
<1>2. Slope' = Slope /\ \A w : Mismatches(w)' = Mismatches(w)
  BY <1>1 DEF Slope, Mismatches, FightFrames, At, WordAt
<1>3. QED
  BY <1>1, <1>2 DEF CamInv

(* Every step of the tool keeps it. *)
LEMMA CamInductive == CamInv /\ [CamNext]_camVars => CamInv'
<1> SUFFICES ASSUME CamInv, [CamNext]_camVars PROVE CamInv'
  OBVIOUS
<1>1. CASE UNCHANGED <<scroll, follows, camFiles>>
  <2>1. Slope' = Slope /\ \A w : Mismatches(w)' = Mismatches(w)
    BY <1>1 DEF Slope, Mismatches, FightFrames, At, WordAt
  <2>2. QED
    BY <1>1, <2>1 DEF CamInv
<1>2. CASE CamRaises
  BY <1>1, <1>2 DEF CamRaises
<1>3. CASE Find
  BY <1>3, CamWriteKeeps DEF Find
<1>4. CASE Verify
  <2>1. CASE Candidates = {}
    BY <1>2, <1>4, <2>1 DEF Verify
  <2>2. CASE Candidates # {}
    <3>1. CamWrites("verify", [w \in Candidates |-> Mismatches(w)])
      BY <1>4, <2>2 DEF Verify
    <3>2. QED
      BY <3>1, CamWriteKeeps
  <2>3. QED
    BY <2>1, <2>2
<1>5. CASE Raster
  BY <1>5, CamWriteKeeps DEF Raster
<1>6. CASE CamWriters
  BY <1>6, CamWriteKeeps DEF CamWriters
<1>7. CASE CamReport
  <2>1. CASE Latched \notin DOMAIN camFiles["verify"]
    BY <1>2, <1>7, <2>1 DEF CamReport
  <2>2. CASE Latched \in DOMAIN camFiles["verify"]
    <3> DEFINE content == [range |-> {WordAt(Latched, f) : f \in FightFrames},
                           slope1 |-> DOMAIN camFiles["verify"],
                           mismatches |-> camFiles["verify"][Latched], layer |-> Slope]
    <3>1. /\ "verify" \in DOMAIN camFiles /\ CamWrites("camera", content)
      BY <1>7, <2>2 DEF CamReport, CamStage, CamReads
    <3>2. /\ content.mismatches = camFiles["verify"][Latched] /\ content.layer = Slope
      OBVIOUS
    <3> HIDE DEF content
    <3>3. camFiles["verify"][Latched] = Mismatches(Latched)
      BY <2>2, <3>1 DEF CamInv
    <3>4. QED
      BY <3>1, <3>2, <3>3, CamWriteKeeps
  <2>3. QED
    BY <2>1, <2>2
<1>8. QED
  BY <1>1, <1>2, <1>3, <1>4, <1>5, <1>6, <1>7
     DEF CamNext, CamInvoke, CamStageFails, CamSeries, camVars

(* A word reported as the camera of a moving layer is the copy of its scroll,
   for every clamped scroll and every follower. *)
THEOREM CameraFound == CamSpec => []CameraIsTheScroll
<1>1. CamInit => CamInv
  BY DEF CamInit, CamInv
<1>2. CamInv => CameraIsTheScroll
  BY CameraAssumption, OnlyTheCopyAgrees DEF CamInv, CameraIsTheScroll
<1>3. QED
  BY <1>1, <1>2, CamInductive, PTL DEF CamSpec

(*****************************************************************************)
(* The state hunts                                                           *)
(*****************************************************************************)
(* The shape of the hunt's rotation. *)
HuntTypes ==
  /\ huntPc \in {"poll", "save", "done"} /\ huntTool \in Tools
  /\ shown \subseteq Groups
  /\ roll \in Slots /\ rolling \subseteq Slots
  /\ disk = [s \in Slots |-> disk[s]]

(* The slots this hunt has filled and the files it has banked are its own. *)
OwnFiles ==
  /\ \A s \in rolling : disk[s].by = "this hunt"
  /\ \A b \in banked : b.file.by = "this hunt"

(* A staging hunt banks each group it has seen exactly once. *)
OnePerGroup ==
  huntTool = "stagehunt" =>
       /\ seen \subseteq Groups
       /\ \A b \in banked : b.group \in seen
       /\ \A g \in seen : \E b \in banked : {x \in banked : x.group = g} = {b}
       /\ huntExit = "0" => seen = Groups /\ huntPc = "done"

(* The inductive invariant: what is promoted next is what the other slot holds. *)
HuntInv == HuntTypes /\ OwnFiles /\ OnePerGroup

(* A promotion takes the previous save, which this hunt has made. *)
LEMMA PromotedFacts ==
  ASSUME HuntInv, NEW groups
  PROVE  /\ Promotable => disk[1 - roll].by = "this hunt"
         /\ Promotable => Promoted(groups) = {[group |-> g, file |-> disk[1 - roll]] : g \in groups}
         /\ ~Promotable => Promoted(groups) = {}
         /\ \A b \in Promoted(groups) : b.file.by = "this hunt" /\ b.group \in groups
<1>1. Promotable => disk[1 - roll].by = "this hunt"
  BY DEF Promotable, HuntInv, OwnFiles
<1>2. /\ Promotable => Promoted(groups) = {[group |-> g, file |-> disk[1 - roll]] : g \in groups}
      /\ ~Promotable => Promoted(groups) = {}
  BY DEF Promoted
<1>3. ASSUME NEW b \in Promoted(groups)
      PROVE  b.file.by = "this hunt" /\ b.group \in groups
  <2>1. PICK g \in groups : b = [group |-> g, file |-> disk[1 - roll]] /\ Promotable
    BY <1>2, <1>3, Zenon
  <2>2. b.file = disk[1 - roll] /\ b.group = g
    BY <2>1
  <2>3. QED
    BY <1>1, <2>1, <2>2
<1>4. QED
  BY <1>1, <1>2, <1>3

(* Every step of either hunt keeps it. *)
LEMMA HuntInductive == HuntInv /\ [HuntNext]_huntVars => HuntInv'
<1> SUFFICES ASSUME HuntInv, [HuntNext]_huntVars PROVE HuntInv'
  OBVIOUS
<1>1. ASSUME NEW g \in Groups, SurfaceAppears(g) \/ SurfaceClears(g)
      PROVE  HuntInv'
  BY <1>1 DEF SurfaceAppears, SurfaceClears, HuntInv, HuntTypes, OwnFiles, OnePerGroup
<1>2. CASE PollScreen
  <2>1. /\ huntTool = "statehunt" /\ huntPc' = "save"
        /\ UNCHANGED <<huntTool, shown, roll, rolling, disk, huntExit>>
        /\ banked' = banked \/ \E g \in shown : banked' = banked \cup Promoted({g})
    BY <1>2 DEF PollScreen
  <2>2. \A b \in banked' : b.file.by = "this hunt"
    <3>1. \A g \in shown : \A b \in Promoted({g}) : b.file.by = "this hunt"
      BY PromotedFacts, Zenon
    <3>2. \A b \in banked : b.file.by = "this hunt"
      BY DEF HuntInv, OwnFiles
    <3>3. QED
      BY <2>1, <3>1, <3>2
  <2>3. HuntTypes' /\ OwnFiles'
    BY <2>1, <2>2 DEF HuntInv, HuntTypes, OwnFiles
  <2>4. OnePerGroup'
    BY <2>1 DEF OnePerGroup
  <2>5. QED
    BY <2>3, <2>4 DEF HuntInv
<1>3. CASE PollStaging
  <2> DEFINE new == shown \ seen
             entry(g) == [group |-> g, file |-> disk[1 - roll]]
  <2>1. /\ huntTool = "stagehunt" /\ huntPc = "poll" /\ huntPc' = "save"
        /\ UNCHANGED <<huntTool, shown, roll, rolling, disk, huntExit>>
        /\ banked' = banked \cup Promoted(new)
        /\ seen' = IF Promotable THEN seen \cup new ELSE seen
    BY <1>3 DEF PollStaging
  <2>2. /\ shown \subseteq Groups /\ seen \subseteq Groups
        /\ \A b \in banked : b.group \in seen
        /\ \A g \in seen : \E b \in banked : {x \in banked : x.group = g} = {b}
        /\ huntExit # "0"
    BY <2>1 DEF HuntInv, HuntTypes, OnePerGroup
  <2>3. HuntTypes' /\ OwnFiles'
    BY <2>1, PromotedFacts DEF HuntInv, HuntTypes, OwnFiles
  <2>4. CASE Promotable
    <3>1. banked' = banked \cup {entry(g) : g \in new} /\ seen' = seen \cup new
      BY <2>1, <2>4, PromotedFacts
    <3>2. \A g \in new : entry(g).group = g
      OBVIOUS
    <3>3. \A b \in banked' : b.group \in seen'
      BY <2>2, <3>1, <3>2
    <3>4. ASSUME NEW g \in seen, NEW x \in banked', x.group = g
          PROVE  x \in banked
      BY <3>1, <3>2, <3>4
    <3>5. ASSUME NEW g \in new, NEW x \in banked', x.group = g
          PROVE  x = entry(g)
      <4>1. x \notin banked
        BY <2>2, <3>5
      <4>2. PICK h \in new : x = entry(h)
        BY <3>1, <4>1
      <4>3. QED
        BY <3>2, <3>5, <4>2
    <3>6. ASSUME NEW g \in seen'
          PROVE  \E b \in banked' : {x \in banked' : x.group = g} = {b}
      <4>1. CASE g \in seen
        <5>1. {x \in banked' : x.group = g} = {x \in banked : x.group = g}
          BY <3>1, <3>4, <4>1
        <5>2. QED
          BY <2>2, <3>1, <4>1, <5>1
      <4>2. CASE g \in new
        <5>1. entry(g) \in banked' /\ entry(g).group = g
          BY <3>1, <3>2, <4>2
        <5>2. {x \in banked' : x.group = g} = {entry(g)}
          BY <3>5, <4>2, <5>1
        <5>3. QED
          BY <5>1, <5>2
      <4>3. QED
        BY <3>1, <3>6, <4>1, <4>2
    <3>7. QED
      BY <2>1, <2>2, <2>3, <3>1, <3>3, <3>6 DEF HuntInv, OnePerGroup
  <2>5. CASE ~Promotable
    <3>1. banked' = banked /\ seen' = seen
      BY <2>1, <2>5, PromotedFacts
    <3>2. QED
      BY <2>1, <2>2, <2>3, <3>1 DEF HuntInv, OnePerGroup
  <2>6. QED
    BY <2>4, <2>5
<1>4. ASSUME NEW ok \in BOOLEAN, SaveRolling(ok)
      PROVE  HuntInv'
  <2>1. /\ huntPc = "save" /\ huntPc' = "poll" /\ roll \in Slots /\ rolling \subseteq Slots
        /\ disk = [s \in Slots |-> disk[s]]
        /\ UNCHANGED <<huntTool, shown, seen, banked, huntExit>>
        /\ disk' = IF ok THEN [disk EXCEPT ![roll] = Saved(shown)] ELSE disk
        /\ rolling' = IF ok THEN rolling \cup {roll} ELSE rolling
        /\ roll' = 1 - roll
    BY <1>4 DEF SaveRolling, HuntInv, HuntTypes
  <2>2. Saved(shown).by = "this hunt"
    BY DEF Saved
  <2>3. HuntTypes'
    BY <2>1 DEF HuntInv, HuntTypes, Slots
  <2>4. \A s \in rolling' : disk'[s].by = "this hunt"
    BY <2>1, <2>2 DEF HuntInv, OwnFiles
  <2>5. OwnFiles' /\ OnePerGroup'
    BY <2>1, <2>4 DEF HuntInv, OwnFiles, OnePerGroup
  <2>6. QED
    BY <2>3, <2>5 DEF HuntInv
<1>5. CASE NotYetDue
  BY <1>5 DEF NotYetDue, HuntInv, HuntTypes, OwnFiles, OnePerGroup
<1>6. CASE HuntEnds
  BY <1>6 DEF HuntEnds, HuntInv, HuntTypes, OwnFiles, OnePerGroup
<1>7. CASE HuntRaises
  BY <1>7 DEF HuntRaises, HuntInv, HuntTypes, OwnFiles, OnePerGroup
<1>8. CASE UNCHANGED huntVars
  BY <1>8 DEF huntVars, HuntInv, HuntTypes, OwnFiles, OnePerGroup
<1>9. QED
  BY <1>1, <1>2, <1>3, <1>4, <1>5, <1>6, <1>7, <1>8 DEF HuntNext

(* Every banked state is one this hunt saved, and a staging hunt that exits 0
   has one of each group. *)
THEOREM HuntBanks == HuntSpec => []HuntBanksItsOwn
<1>1. HuntInit => HuntInv
  BY DEF HuntInit, HuntStart, HuntInv, HuntTypes, OwnFiles, OnePerGroup, Slots, Tools
<1>2. HuntInv => HuntBanksItsOwn
  BY FS_Singleton DEF HuntInv, OwnFiles, OnePerGroup, HuntBanksItsOwn
<1>3. QED
  BY <1>1, <1>2, HuntInductive, PTL DEF HuntSpec
==============================================================================
