--------------------------- MODULE WsPatch_proofs ---------------------------
(* gwed_ws_patch.c, for every margin: the patch module under callers in any
   order, and the bytes it writes, executed. *)
EXTENDS OamClip, WsPatchApi, WsPatch_lemmas

(***************************************************************************)
(* The patch module: its books and its orphans                             *)
(***************************************************************************)
(* The inductive invariant: the type and the soundness of the books.  NoOrphan
   and BooksAgree are its two halves and neither is inductive alone, because
   Arm trusts the books to decide whether to disarm first. *)
LEMMA SoundBooks == Spec => [](TypeOK /\ Sound(patch))
<1>1. Init => TypeOK /\ Sound(patch)
  BY UnarmedFacts, Zenon DEF Init, TypeOK
<1>2. TypeOK /\ Sound(patch) /\ [Next]_patch => (TypeOK /\ Sound(patch))'
  <2> SUFFICES ASSUME patch \in Patches, Sound(patch), [Next]_patch
               PROVE  patch' \in Patches /\ Sound(patch')
    BY Zenon DEF TypeOK, Sound
  <2>1. CASE Arm
    BY <2>1, ArmedFacts, Zenon DEF Arm
  <2>2. CASE Disarm
    BY <2>2, DisarmedFacts, Zenon DEF Disarm
  <2>3. CASE SetNetplaySession
    BY <2>3, WithNetplayFacts, Zenon DEF SetNetplaySession
  <2>4. CASE ReplaceImage
    BY <2>4, ImageFacts, Zenon DEF ReplaceImage
  <2>5. CASE Overwrite
    <3>1. Foreign \in Images
      BY DEF Images
    <3>2. QED
      BY <2>5, <3>1, ImageFacts, Zenon DEF Overwrite
  <2>6. CASE UNCHANGED patch
    BY <2>6, Zenon DEF Sound
  <2>7. QED
    BY <2>1, <2>2, <2>3, <2>4, <2>5, <2>6, Zenon DEF Next
<1>3. QED
  BY <1>1, <1>2, PTL DEF Spec

(* Whatever callers do, the replacement is never left in an image that the
   module would not restore. *)
THEOREM NeverOrphaned == Spec => []NoOrphan
<1>1. Sound(patch) => NoOrphan
  BY Zenon DEF Sound, NoOrphan
<1>2. QED
  BY <1>1, SoundBooks, PTL

(* Whatever callers do, the flags and margins tell one story. *)
THEOREM BooksAlwaysAgree == Spec => []BooksAgree
<1>1. Sound(patch) => BooksAgree
  BY Zenon DEF Sound, BooksAgree
<1>2. QED
  BY <1>1, SoundBooks, PTL

(* Bytes the signature does not match are never touched. *)
THEOREM ForeignAlwaysKept == Spec => ForeignKept
<1>1. /\ TypeOK /\ Sound(patch)
      /\ [Next]_patch
      => [ patch.rom = Foreign => patch'.rom = Foreign \/ ReplaceImage ]_patch
  <2> SUFFICES ASSUME patch \in Patches, Sound(patch), Next, patch.rom = Foreign
               PROVE  patch'.rom = Foreign \/ ReplaceImage
    BY Zenon DEF TypeOK
  <2>1. CASE Arm
    <3>1. PICK extra \in Margins, wide \in BOOLEAN, killed \in BOOLEAN :
                 patch' = Armed(patch, extra, wide, killed)
      BY <2>1, Zenon DEF Arm
    <3>2. Armed(patch, extra, wide, killed).rom = Foreign
      BY ArmedFacts, Zenon
    <3>3. QED
      BY <3>1, <3>2, SMT
  <2>2. CASE Disarm
    <3>1. patch.rom <= 0
      BY SMT DEF Foreign
    <3>2. QED
      BY <2>2, <3>1, DisarmedFacts, Zenon DEF Disarm
  <2>3. CASE SetNetplaySession
    <3>1. PICK active \in BOOLEAN, peer \in Peers :
                 patch' = WithNetplay(patch, active, peer)
      BY <2>3, Zenon DEF SetNetplaySession
    <3>2. WithNetplay(patch, active, peer).rom = patch.rom
      BY WithNetplayFacts
    <3>3. QED
      BY <3>1, <3>2, SMT
  <2>4. CASE ReplaceImage
    BY <2>4, Zenon
  <2>5. CASE Overwrite
    <3>1. Foreign \in Images
      BY DEF Images
    <3>2. QED
      BY <2>5, <3>1, ImageFacts, Zenon DEF Overwrite
  <2>6. QED
    BY <2>1, <2>2, <2>3, <2>4, <2>5, Zenon DEF Next
<1>2. QED
  BY <1>1, SoundBooks, PTL DEF Spec, ForeignKept

(***************************************************************************)
(* The bytes at the site: for every margin the emitter encodes and every   *)
(* 16-bit X, the replacement accepts exactly the widened range, and what   *)
(* it accepts keeps its ninth bit                                          *)
(***************************************************************************)
(* The accumulator values from which each sequence accepts. *)
FirstNegative == IF code = "patched" THEN 65536 - SpriteBias - margin
                                     ELSE 65536 - SpriteBias
FirstRight == IF code = "patched" THEN 256 + margin ELSE 256

(* The inductive invariant: at each instruction, what the comparisons behind
   it have established about x and left in the carry. *)
PathInv ==
  /\ pc \in { Site, Site + 3, Site + 5, Site + 8, Site + 10, AcceptPc, RejectPc }
  /\ pc = Site + 3 => (carry <=> x >= FirstRight)
  /\ pc = Site + 5 => x >= FirstRight
  /\ pc = Site + 8 => x >= FirstRight /\ (carry <=> x >= FirstNegative)
  /\ pc = Site + 10 =>
       IF code = "patched" THEN x < FirstRight \/ x >= FirstNegative
                           ELSE x >= FirstRight /\ x < FirstNegative
  /\ pc = AcceptPc => /\ x < FirstRight \/ x >= FirstNegative
                      /\ carry <=> x >= 256
  /\ pc = RejectPc => x >= FirstRight /\ x < FirstNegative

(* What the emitter accepts to encode: 1 .. 112. *)
LEMMA EncodableMargins ==
  ASSUME NEW m \in Nat, ~EmitDeclines(m)
  PROVE  m \in 1 .. 112
  BY SMT DEF EmitDeclines, SpriteBias

(* The bytes of the replacement, and the immediates a CMP reads from them. *)
LEMMA EmittedBytes ==
  ASSUME NEW m \in 1 .. 112
  PROVE  /\ EmitBytes(m)[1] = 201 /\ EmitBytes(m)[4] = 144
         /\ EmitBytes(m)[5] = 5   /\ EmitBytes(m)[6] = 201
         /\ EmitBytes(m)[9] = 144 /\ EmitBytes(m)[10] = 101
         /\ EmitBytes(m)[11] = 201
         /\ EmitBytes(m)[2] + 256 * EmitBytes(m)[3] = 256 + m
         /\ EmitBytes(m)[7] + 256 * EmitBytes(m)[8] = 65536 - 32 - m
         /\ EmitBytes(m)[12] + 256 * EmitBytes(m)[13] = 256
<1>1. LoByte(256 + m) + 256 * HiByte(256 + m) = 256 + m
  BY SMT DEF LoByte, HiByte
<1>2. LoByte(-(32 + m)) + 256 * HiByte(-(32 + m)) = 65536 - 32 - m
  BY SMT DEF LoByte, HiByte
<1>3. LoByte(101) = 101
  BY SMT DEF LoByte
<1>4. RejectBranch = 101
  BY SMT DEF RejectBranch, RejectPc, Site
<1>5. QED
  BY <1>1, <1>2, <1>3, <1>4, SMT DEF EmitBytes, SpriteBias

(* ClipTypeOK in the form arithmetic uses. *)
LEMMA Ranges ==
  ASSUME ClipTypeOK
  PROVE  /\ x \in Int /\ 0 <= x /\ x < 65536
         /\ code = "patched" => margin \in 1 .. 112
         /\ code # "patched" => code = "vanilla"
         /\ carry \in BOOLEAN
<1>1. x \in Int /\ 0 <= x /\ x < 65536
  BY OamClipAssumption, SMT DEF ClipTypeOK
<1>2. margin \in Nat
  BY OamClipAssumption, SMT DEF ClipTypeOK
<1>3. code = "patched" => ~EmitDeclines(margin)
  BY SMT DEF ClipTypeOK
<1>4. code = "patched" => margin \in 1 .. 112
  BY <1>2, <1>3, EncodableMargins, SMT
<1>5. carry \in BOOLEAN /\ (code # "patched" => code = "vanilla")
  BY SMT DEF ClipTypeOK
<1>6. QED
  BY <1>1, <1>4, <1>5, SMT

(* What is at the program counter when the replacement is in place. *)
LEMMA PatchedFetch ==
  ASSUME code = "patched", margin \in 1 .. 112
  PROVE  /\ pc = Site      => Byte(0) = 201 /\ Immediate = 256 + margin
         /\ pc = Site + 3  => Byte(0) = 144 /\ Byte(1) = 5
         /\ pc = Site + 5  => Byte(0) = 201 /\ Immediate = 65504 - margin
         /\ pc = Site + 8  => Byte(0) = 144 /\ Byte(1) = 101
         /\ pc = Site + 10 => Byte(0) = 201 /\ Immediate = 256
<1> DEFINE B == EmitBytes(margin)
<1>1. Bytes = B
  BY SMT DEF Bytes
<1>2. /\ B[1] = 201 /\ B[4] = 144 /\ B[5] = 5 /\ B[6] = 201 /\ B[9] = 144
      /\ B[10] = 101 /\ B[11] = 201 /\ B[2] + 256 * B[3] = 256 + margin
      /\ B[7] + 256 * B[8] = 65536 - 32 - margin
      /\ B[12] + 256 * B[13] = 256
  BY EmittedBytes, SMT
<1> HIDE DEF B
<1>3. QED
  BY <1>1, <1>2, SMT DEF Byte, Immediate, Site

(* What is at the program counter in the ROM as shipped. *)
LEMMA VanillaFetch ==
  ASSUME code = "vanilla"
  PROVE  /\ pc = Site      => Byte(0) = 201 /\ Immediate = 256
         /\ pc = Site + 3  => Byte(0) = 144 /\ Byte(1) = 8
         /\ pc = Site + 5  => Byte(0) = 201 /\ Immediate = 65504
         /\ pc = Site + 8  => Byte(0) = 176 /\ Byte(1) = 3
         /\ pc = Site + 10 => Byte(0) = 76  /\ Immediate = RejectPc
<1>1. Bytes = VanillaBytes
  BY SMT DEF Bytes
<1>2. QED
  BY <1>1, SMT DEF Byte, Immediate, Site, VanillaBytes, RejectPc

(* The four kinds of step, by the opcode at the program counter. *)
LEMMA StepKind ==
  ASSUME ClipNext, x \in Int
  PROVE  /\ pc \in Site .. Site + 12
         /\ UNCHANGED << code, margin, x >>
         /\ Byte(0) = 201 => /\ pc' = pc + 3
                             /\ Immediate \in Int => carry' \in BOOLEAN
                             /\ carry' <=> x >= Immediate
         /\ Byte(0) = 144 => /\ carry  => pc' = pc + 2
                             /\ ~carry => pc' = pc + 2 + Displacement(Byte(1))
                             /\ carry' = carry
         /\ Byte(0) = 176 => /\ carry  => pc' = pc + 2 + Displacement(Byte(1))
                             /\ ~carry => pc' = pc + 2
                             /\ carry' = carry
         /\ Byte(0) = 76 => pc' = Immediate /\ carry' = carry
<1>1. CASE Cmp
  <2>1. /\ pc \in Site .. Site + 12 /\ UNCHANGED << code, margin, x >>
        /\ Byte(0) = 201 /\ pc' = pc + 3 /\ carry' = (x >= Immediate)
    BY <1>1, SMT DEF Cmp, InSite, Site, SiteLen
  <2>2. carry' <=> x >= Immediate
    BY <2>1, Zenon
  <2>3. ASSUME Immediate \in Int
        PROVE  carry' \in BOOLEAN
    BY <2>1, <2>3, SMT
  <2>4. QED
    BY <2>1, <2>2, <2>3, SMT
<1>2. CASE Bcc
  BY <1>2, SMT DEF Bcc, Branch, InSite, Site, SiteLen
<1>3. CASE Bcs
  BY <1>3, SMT DEF Bcs, Branch, InSite, Site, SiteLen
<1>4. CASE Jmp
  BY <1>4, SMT DEF Jmp, InSite, Site, SiteLen
<1>5. QED
  BY <1>1, <1>2, <1>3, <1>4 DEF ClipNext

(* A step of the replacement keeps PathInv. *)
LEMMA PatchedStep ==
  ASSUME ClipTypeOK, PathInv, ClipNext, code = "patched"
  PROVE  PathInv' /\ carry' \in BOOLEAN /\ pc' \in Site .. RejectPc
<1>0. x \in Int /\ 0 <= x /\ x < 65536 /\ margin \in 1 .. 112 /\ carry \in BOOLEAN
  BY Ranges, SMT
<1>1. code' = code /\ margin' = margin /\ x' = x /\ pc \in Site .. Site + 12
  BY <1>0, StepKind, SMT
<1>2. pc \in { Site, Site + 3, Site + 5, Site + 8, Site + 10 }
  BY <1>1, SMT DEF PathInv, AcceptPc, RejectPc, Site, SiteLen
<1>3. CASE pc = Site
  <2>1. pc' = Site + 3 /\ carry' \in BOOLEAN /\ (carry' <=> x >= 256 + margin)
    BY <1>0, <1>3, PatchedFetch, StepKind, SMT
  <2>2. QED
    BY <1>0, <1>1, <2>1, SMT
       DEF PathInv, FirstRight, FirstNegative, Site, SiteLen, AcceptPc, RejectPc
<1>4. CASE pc = Site + 3
  <2>1. /\ carry  => pc' = pc + 2
        /\ ~carry => pc' = pc + 2 + Displacement(5)
        /\ carry' = carry
    BY <1>0, <1>4, PatchedFetch, StepKind, SMT
  <2>2. carry <=> x >= 256 + margin
    BY <1>4, SMT DEF PathInv, FirstRight, Site, SiteLen, AcceptPc, RejectPc
  <2>3. QED
    BY <1>0, <1>1, <1>4, <2>1, <2>2, SMT
       DEF PathInv, FirstRight, FirstNegative, Displacement, Site, SiteLen,
           AcceptPc, RejectPc
<1>5. CASE pc = Site + 5
  <2>1. pc' = Site + 8 /\ carry' \in BOOLEAN /\ (carry' <=> x >= 65504 - margin)
    <3>1. pc' = pc + 3 /\ carry' \in BOOLEAN /\ (carry' <=> x >= 65504 - margin)
      BY <1>0, <1>5, PatchedFetch, StepKind, SMT
    <3>2. QED
      BY <1>5, <3>1, SMT DEF Site
  <2>2. x >= 256 + margin
    BY <1>5, SMT DEF PathInv, FirstRight, Site, SiteLen, AcceptPc, RejectPc
  <2>3. QED
    BY <1>0, <1>1, <2>1, <2>2, SMT
       DEF PathInv, FirstRight, FirstNegative, SpriteBias, Site, SiteLen,
           AcceptPc, RejectPc
<1>6. CASE pc = Site + 8
  <2>1. /\ carry  => pc' = pc + 2
        /\ ~carry => pc' = pc + 2 + Displacement(101)
        /\ carry' = carry
    BY <1>0, <1>6, PatchedFetch, StepKind, SMT
  <2>2. x >= 256 + margin /\ (carry <=> x >= 65504 - margin)
    BY <1>0, <1>6, SMT
       DEF PathInv, FirstRight, FirstNegative, SpriteBias, Site, SiteLen,
           AcceptPc, RejectPc
  <2>3. QED
    BY <1>0, <1>1, <1>6, <2>1, <2>2, SMT
       DEF PathInv, FirstRight, FirstNegative, SpriteBias, Displacement, Site,
           SiteLen, AcceptPc, RejectPc
<1>7. CASE pc = Site + 10
  <2>1. pc' = pc + 3 /\ carry' \in BOOLEAN /\ (carry' <=> x >= 256)
    BY <1>0, <1>7, PatchedFetch, StepKind, SMT
  <2>2. x < 256 + margin \/ x >= 65504 - margin
    BY <1>0, <1>7, SMT
       DEF PathInv, FirstRight, FirstNegative, SpriteBias, Site, SiteLen,
           AcceptPc, RejectPc
  <2>3. QED
    BY <1>0, <1>1, <1>7, <2>1, <2>2, SMT
       DEF PathInv, FirstRight, FirstNegative, SpriteBias, Site, SiteLen,
           AcceptPc, RejectPc
<1>8. QED
  BY <1>2, <1>3, <1>4, <1>5, <1>6, <1>7, SMT

(* A step of the vanilla sequence keeps PathInv. *)
LEMMA VanillaStep ==
  ASSUME ClipTypeOK, PathInv, ClipNext, code = "vanilla"
  PROVE  PathInv' /\ carry' \in BOOLEAN /\ pc' \in Site .. RejectPc
<1>0. x \in Int /\ 0 <= x /\ x < 65536 /\ carry \in BOOLEAN
  BY Ranges, SMT
<1>1. code' = code /\ margin' = margin /\ x' = x /\ pc \in Site .. Site + 12
  BY <1>0, StepKind, SMT
<1>2. pc \in { Site, Site + 3, Site + 5, Site + 8, Site + 10 }
  BY <1>1, SMT DEF PathInv, AcceptPc, RejectPc, Site, SiteLen
<1>3. CASE pc = Site
  <2>1. pc' = pc + 3 /\ carry' \in BOOLEAN /\ (carry' <=> x >= 256)
    BY <1>0, <1>3, VanillaFetch, StepKind, SMT
  <2>2. QED
    BY <1>0, <1>1, <1>3, <2>1, SMT
       DEF PathInv, FirstRight, FirstNegative, Site, SiteLen, AcceptPc, RejectPc
<1>4. CASE pc = Site + 3
  <2>1. /\ carry  => pc' = pc + 2
        /\ ~carry => pc' = pc + 2 + Displacement(8)
        /\ carry' = carry
    BY <1>0, <1>4, VanillaFetch, StepKind, SMT
  <2>2. carry <=> x >= 256
    BY <1>4, SMT DEF PathInv, FirstRight, Site, SiteLen, AcceptPc, RejectPc
  <2>3. QED
    BY <1>0, <1>1, <1>4, <2>1, <2>2, SMT
       DEF PathInv, FirstRight, FirstNegative, Displacement, Site, SiteLen,
           AcceptPc, RejectPc
<1>5. CASE pc = Site + 5
  <2>1. pc' = pc + 3 /\ carry' \in BOOLEAN /\ (carry' <=> x >= 65504)
    BY <1>0, <1>5, VanillaFetch, StepKind, SMT
  <2>2. x >= 256
    BY <1>5, SMT DEF PathInv, FirstRight, Site, SiteLen, AcceptPc, RejectPc
  <2>3. QED
    BY <1>0, <1>1, <1>5, <2>1, <2>2, SMT
       DEF PathInv, FirstRight, FirstNegative, SpriteBias, Site, SiteLen,
           AcceptPc, RejectPc
<1>6. CASE pc = Site + 8
  <2>1. /\ carry  => pc' = pc + 2 + Displacement(3)
        /\ ~carry => pc' = pc + 2
        /\ carry' = carry
    BY <1>0, <1>6, VanillaFetch, StepKind, SMT
  <2>2. x >= 256 /\ (carry <=> x >= 65504)
    BY <1>0, <1>6, SMT
       DEF PathInv, FirstRight, FirstNegative, SpriteBias, Site, SiteLen,
           AcceptPc, RejectPc
  <2>3. QED
    BY <1>0, <1>1, <1>6, <2>1, <2>2, SMT
       DEF PathInv, FirstRight, FirstNegative, SpriteBias, Displacement, Site,
           SiteLen, AcceptPc, RejectPc
<1>7. CASE pc = Site + 10
  <2>1. pc' = RejectPc /\ carry' = carry
    BY <1>0, <1>7, VanillaFetch, StepKind, SMT
  <2>2. x >= 256 /\ x < 65504
    BY <1>0, <1>7, SMT
       DEF PathInv, FirstRight, FirstNegative, SpriteBias, Site, SiteLen,
           AcceptPc, RejectPc
  <2>3. QED
    BY <1>0, <1>1, <2>1, <2>2, SMT
       DEF PathInv, FirstRight, FirstNegative, SpriteBias, Site, SiteLen,
           AcceptPc, RejectPc
<1>8. QED
  BY <1>2, <1>3, <1>4, <1>5, <1>6, <1>7, SMT

(* Every reachable program counter is one of seven, and each carries the
   facts PathInv states. *)
THEOREM PathInvariant == ClipSpec => [](ClipTypeOK /\ PathInv)
<1>1. ClipInit => ClipTypeOK /\ PathInv
  BY SMT DEF ClipInit, ClipTypeOK, PathInv, Site, SiteLen, AcceptPc, RejectPc
<1>2. ClipTypeOK /\ PathInv /\ [ClipNext]_clipVars => (ClipTypeOK /\ PathInv)'
  <2>1. CASE UNCHANGED clipVars
    BY <2>1 DEF clipVars, ClipTypeOK, PathInv, FirstRight, FirstNegative
  <2>2. ASSUME ClipTypeOK, PathInv, ClipNext
        PROVE  (ClipTypeOK /\ PathInv)'
    <3>1. PathInv' /\ carry' \in BOOLEAN /\ pc' \in Site .. RejectPc
      BY <2>2, Ranges, PatchedStep, VanillaStep
    <3>2. UNCHANGED << code, margin, x >>
      BY <2>2, Ranges, StepKind, SMT
    <3>3. QED
      BY <2>2, <3>1, <3>2, SMT DEF ClipTypeOK, EmitDeclines
  <2>3. QED
    BY <2>1, <2>2
<1>3. QED
  BY <1>1, <1>2, PTL DEF ClipSpec

(* Both sequences accept exactly the range they are meant to, at every margin
   the emitter encodes and for every accumulator value. *)
THEOREM AcceptSet == ClipSpec => []AcceptSetExact
<1>1. ASSUME ClipTypeOK, PathInv
      PROVE  AcceptSetExact
  BY <1>1, Ranges, SMT
     DEF PathInv, AcceptSetExact, Accepts, Native, Widened, Signed,
         FirstRight, FirstNegative, Site, SiteLen, AcceptPc, RejectPc,
         SpriteBias
<1>2. QED
  BY <1>1, PathInvariant, PTL

(* An accepted X survives the nine-bit encoding at every encodable margin. *)
THEOREM RoundTrip == ClipSpec => []AcceptedXRoundTrips
<1>1. ASSUME ClipTypeOK, PathInv
      PROVE  AcceptedXRoundTrips
  <2> SUFFICES ASSUME pc = AcceptPc, ~EmitDeclines(margin)
               PROVE  DecodeOamX(RawX, margin) = Signed(x)
    BY SMT DEF AcceptedXRoundTrips
  <2>1. /\ x \in Int /\ 0 <= x /\ x < 65536 /\ carry \in BOOLEAN
        /\ code # "patched" => code = "vanilla"
    BY <1>1, Ranges, SMT
  <2>2. margin \in 1 .. 112
    BY <1>1, OamClipAssumption, EncodableMargins, SMT DEF ClipTypeOK
  <2>3. /\ x < 256 + margin \/ x >= 65504 - margin
        /\ carry <=> x >= 256
    BY <1>1, <2>1, <2>2, SMT
       DEF PathInv, FirstRight, FirstNegative, Site, SiteLen, AcceptPc,
           RejectPc, SpriteBias
  <2>4. RawX = IF x < 256 THEN x ELSE (x % 256) + 256
    BY <2>1, <2>3, SMT DEF RawX
  <2>5. CASE x < 256 + margin
    <3>1. RawX = x
      BY <2>1, <2>2, <2>4, <2>5, SMT
    <3>2. QED
      BY <2>1, <2>2, <2>5, <3>1, SMT DEF DecodeOamX, Signed
  <2>6. CASE x >= 65504 - margin
    <3>1. RawX = x - 65024
      BY <2>1, <2>2, <2>4, <2>6, SMT
    <3>2. QED
      BY <2>1, <2>2, <2>6, <3>1, SMT DEF DecodeOamX, Signed
  <2>7. QED
    BY <2>3, <2>5, <2>6
<1>2. QED
  BY <1>1, PathInvariant, PTL

(* The patch changes the carry of no X that vanilla accepts. *)
THEOREM CarryKept == ClipSpec => []NativeCarryKept
<1>1. ASSUME ClipTypeOK, PathInv
      PROVE  NativeCarryKept
  BY <1>1, Ranges, SMT
     DEF PathInv, NativeCarryKept, Native, Signed,
         FirstRight, FirstNegative, Site, SiteLen, AcceptPc, RejectPc,
         SpriteBias
<1>2. QED
  BY <1>1, PathInvariant, PTL
=============================================================================
