--------------------------- MODULE WsPatch_lemmas ---------------------------
(* What each operation of the patch module returns, for every state of the
   patch: the facts the proofs about its callers rest on. *)
EXTENDS WsPatch, TLAPS

(* The bookkeeping of a sound patch state: flags and margins agree, and a
   patched image is one the module knows it patched. *)
Sound(p) ==
  /\ p.armed <=> p.applied
  /\ p.armed => p.armedExtra > 0 /\ p.armedExtra = p.written
  /\ ~p.armed => p.armedExtra = 0 /\ p.written = 0
  /\ p.rom > 0 => p.applied /\ p.written = p.rom

(* An unarmed state is sound and records nothing. *)
LEMMA UnarmedFacts ==
  ASSUME NEW image \in Images
  PROVE  /\ Unarmed(image) \in Patches
         /\ Sound(Unarmed(image))
         /\ Unarmed(image).rom = image
         /\ ~Unarmed(image).armed /\ ~Unarmed(image).applied
  BY WsPatchAssumption, SMT
     DEF Unarmed, Patches, Sound, Images, Margins, Peers, NoPeer, NoImage,
         Short, Foreign, Vanilla

(* Disarm leaves a clean slate over an image without the replacement, and
   changes no byte it did not write. *)
LEMMA DisarmedFacts ==
  ASSUME NEW p \in Patches, Sound(p)
  PROVE  /\ Disarmed(p) \in Patches
         /\ Sound(Disarmed(p))
         /\ ~Disarmed(p).armed /\ ~Disarmed(p).applied
         /\ p.rom <= 0 => Disarmed(p).rom = p.rom
         /\ p.rom > 0  => Disarmed(p).rom = Vanilla
<1>1. p.rom \in Int /\ p.written \in Int
  BY WsPatchAssumption, SMT
     DEF Patches, Images, Margins, NoImage, Short, Foreign, Vanilla
<1>2. ASSUME p.rom > 0
      PROVE  StillOurs(p)
  BY <1>1, <1>2, SMT DEF StillOurs, HasSite, Sound, NoImage, Short
<1>3. ASSUME p.rom <= 0
      PROVE  p.rom \in Images /\ (StillOurs(p) => p.rom = Vanilla)
  BY <1>1, <1>3, WsPatchAssumption, SMT
     DEF StillOurs, Sound, Patches, Images, Margins, NoImage, Short, Foreign,
         Vanilla
<1>4. Vanilla \in Images
  BY DEF Images
<1>5. CASE p.rom > 0
  BY <1>1, <1>2, <1>4, <1>5, UnarmedFacts, SMT DEF Disarmed
<1>6. CASE p.rom <= 0
  <2>1. Disarmed(p) = Unarmed(p.rom)
    BY <1>3, <1>6, SMT DEF Disarmed
  <2>2. QED
    BY <1>1, <1>3, <1>6, <2>1, UnarmedFacts, SMT
<1>7. QED
  BY <1>1, <1>5, <1>6, SMT

(* SetNetplaySession touches the agreement only. *)
LEMMA WithNetplayFacts ==
  ASSUME NEW p \in Patches, NEW on \in BOOLEAN, NEW peer \in Peers
  PROVE  LET q == WithNetplay(p, on, peer)
         IN /\ q \in Patches
            /\ q.rom = p.rom /\ q.armed = p.armed /\ q.applied = p.applied
            /\ q.netActive = on /\ q.netPeer = peer
            /\ Sound(p) => Sound(q)
<1> DEFINE q == WithNetplay(p, on, peer)
<1>1. q \in Patches
  BY Zenon DEF WithNetplay, Patches
<1>2. /\ q.rom = p.rom /\ q.armed = p.armed /\ q.applied = p.applied
      /\ q.written = p.written /\ q.armedExtra = p.armedExtra
      /\ q.netActive = on /\ q.netPeer = peer
  BY SMT DEF WithNetplay, Patches
<1>3. Sound(p) => Sound(q)
  BY <1>2, Zenon DEF Sound
<1>4. QED
  BY <1>1, <1>2, <1>3, Zenon

(* A change of image touches nothing else. *)
LEMMA ImageFacts ==
  ASSUME NEW p \in Patches, NEW image \in Images
  PROVE  LET q == [ p EXCEPT !.rom = image ]
         IN /\ q \in Patches
            /\ q.rom = image /\ q.armed = p.armed /\ q.applied = p.applied
            /\ Sound(p) => Sound(q)
  BY SMT DEF Patches, Sound, Images, NoImage, Short, Foreign, Vanilla

(* The site loop either writes the requested margin over vanilla bytes or
   leaves the state unarmed. *)
LEMMA AppliedFacts ==
  ASSUME NEW p \in Patches, NEW extra \in Margins, NEW killed \in BOOLEAN,
         Sound(p), ~p.armed
  PROVE  LET q == Applied(p, extra, killed)
         IN /\ q \in Patches
            /\ Sound(q)
            /\ q.rom # p.rom => q.rom = extra /\ extra > 0 /\ p.rom = Vanilla /\ ~killed
            /\ q.rom > 0 <=> q.applied
<1> DEFINE q == Applied(p, extra, killed)
<1>1. /\ p.rom \in Int /\ extra \in Int /\ 0 <= extra /\ extra <= WsExtraMax
      /\ EncodableMax \in Int
  BY WsPatchAssumption, SMT
     DEF Patches, Images, Margins, NoImage, Short, Foreign, Vanilla
<1>2. CASE Applies(p, extra, killed)
  <2>1. extra > 0 /\ p.rom = Vanilla /\ ~killed
    BY <1>1, <1>2, SMT DEF Applies, Emits
  <2>2. q =
          [ p EXCEPT !.rom = extra, !.applied = TRUE, !.written = extra,
                     !.armed = TRUE, !.armedExtra = extra ]
    BY <1>2 DEF Applied
  <2>3. extra \in 1 .. WsExtraMax
    BY <1>1, <2>1, WsPatchAssumption, SMT
  <2>4. q \in Patches
    BY <2>2, <2>3, Zenon DEF Patches
  <2>5. /\ q.rom = extra /\ q.applied = TRUE /\ q.written = extra
        /\ q.armed = TRUE /\ q.armedExtra = extra
    BY <2>2, SMT DEF Patches
  <2>6. Sound(q)
    BY <2>1, <2>5, SMT DEF Sound
  <2>7. QED
    BY <1>1, <2>1, <2>4, <2>5, <2>6, SMT
<1>3. CASE ~Applies(p, extra, killed)
  <2>1. q = [ p EXCEPT !.armed = FALSE, !.armedExtra = 0 ]
    BY <1>3 DEF Applied
  <2>2. 0 \in Margins
    BY WsPatchAssumption, SMT DEF Margins
  <2>3. q \in Patches
    BY <2>1, <2>2, Zenon DEF Patches
  <2>4. /\ q.rom = p.rom /\ q.applied = p.applied /\ q.written = p.written
        /\ q.armed = FALSE /\ q.armedExtra = 0
    BY <2>1, SMT DEF Patches
  <2>5. ~p.applied /\ p.written = 0 /\ ~(p.rom > 0)
    BY Zenon DEF Sound
  <2>6. Sound(q)
    BY <2>4, <2>5, Zenon DEF Sound
  <2>7. QED
    BY <2>3, <2>4, <2>5, <2>6, Zenon
<1>4. QED
  BY <1>2, <1>3

(* Armed from a clean slate: the image changes only to the requested margin,
   from vanilla bytes, in a wide session that agrees with its peer. *)
LEMMA ArmedFromCleanSlate ==
  ASSUME NEW p \in Patches, NEW extra \in Margins, NEW wide \in BOOLEAN,
         NEW killed \in BOOLEAN, Sound(p), ~p.armed
  PROVE  LET q == Armed(p, extra, wide, killed)
         IN /\ q \in Patches
            /\ Sound(q)
            /\ q.rom # p.rom => /\ q.rom = extra /\ extra > 0 /\ wide
                                /\ p.rom = Vanilla /\ ~killed
                                /\ NetplayAllows(p, extra)
            /\ q.rom > 0 <=> q.applied
<1>1. extra \in Int
  BY SMT DEF Margins
<1>2. \/ Armed(p, extra, wide, killed) = p
      \/ /\ wide /\ extra > 0 /\ NetplayAllows(p, extra)
         /\ Armed(p, extra, wide, killed) = Applied(p, extra, killed)
  BY <1>1, SMT DEF Armed
<1>3. ~p.applied /\ ~(p.rom > 0)
  BY Zenon DEF Sound
<1> DEFINE Good(q) ==
             /\ q \in Patches
             /\ Sound(q)
             /\ q.rom # p.rom => /\ q.rom = extra /\ extra > 0 /\ wide
                                 /\ p.rom = Vanilla /\ ~killed
                                 /\ NetplayAllows(p, extra)
             /\ q.rom > 0 <=> q.applied
<1>4. Good(p)
  BY <1>3, Zenon
<1>5. ASSUME wide, extra > 0, NetplayAllows(p, extra)
      PROVE  Good(Applied(p, extra, killed))
  <2> DEFINE a == Applied(p, extra, killed)
  <2>1. /\ a \in Patches /\ Sound(a)
        /\ a.rom # p.rom => a.rom = extra /\ p.rom = Vanilla /\ ~killed
        /\ a.rom > 0 <=> a.applied
    BY AppliedFacts, Zenon
  <2> HIDE DEF a
  <2>2. Good(a)
    BY <1>5, <2>1, Zenon
  <2>3. QED
    BY <2>2, Zenon DEF a
<1> HIDE DEF Good
<1>6. Good(Armed(p, extra, wide, killed))
  BY <1>2, <1>4, <1>5, SMT
<1>7. QED
  BY <1>6, Zenon DEF Good

(* Armed from anywhere: the books stay sound, and bytes the signature does
   not match stay where they are. *)
LEMMA ArmedFacts ==
  ASSUME NEW p \in Patches, NEW extra \in Margins, NEW wide \in BOOLEAN,
         NEW killed \in BOOLEAN, Sound(p)
  PROVE  LET q == Armed(p, extra, wide, killed)
         IN /\ q \in Patches
            /\ Sound(q)
            /\ p.rom = Foreign => q.rom = Foreign
<1> DEFINE idle == IF p.armed THEN Disarmed(p) ELSE p
           q == Armed(p, extra, wide, killed)
<1>1. /\ idle \in Patches /\ Sound(idle)
      /\ p.rom = Foreign => idle.rom = Foreign
  BY DisarmedFacts, SMT DEF Foreign
<1>2. ~idle.armed
  BY DisarmedFacts, Zenon
<1>3. extra \in Int
  BY SMT DEF Margins
<1>4. q \in { p, idle, Applied(idle, extra, killed) }
  BY <1>3, SMT DEF Armed
<1> HIDE DEF idle, q
<1>5. CASE q \in { p, idle }
  BY <1>1, <1>5, Zenon DEF q
<1>6. CASE q = Applied(idle, extra, killed)
  <2>1. q \in Patches /\ Sound(q) /\ (q.rom # idle.rom => idle.rom = Vanilla)
    BY <1>1, <1>2, <1>6, AppliedFacts, Zenon
  <2>2. q \in Patches /\ Sound(q) /\ (p.rom = Foreign => q.rom = Foreign)
    BY <1>1, <2>1, SMT DEF Foreign, Vanilla
  <2>3. QED
    BY <2>2, Zenon DEF q
<1>7. QED
  BY <1>4, <1>5, <1>6, Zenon
=============================================================================
