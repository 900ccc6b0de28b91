------------------------- MODULE Localization_proofs -------------------------
(* For every cart, table, set of languages and fallbacks: the table at work  *)
(* stays well typed, and a window with one owner always resolves.  For every *)
(* set of windows, texts and captures: a table that the generators wrote and *)
(* the checks accepted shows on the windows they own what was authored.      *)
(* For every set of dialogue screens, texts and letters: the page a quote    *)
(* needs is the one that lies in the window.                                 *)
EXTENDS TableGenerators, DialoguePages, SequenceTheorems, FiniteSetTheorems,
        WellFoundedInduction, TLAPS

-----------------------------------------------------------------------------
(* The first language of a chain that carries a payload exists. *)

Below == { ss \in Nat \X Nat : ss[1] < ss[2] }

LEMMA BelowWellFounded == IsWellFoundedOn(Below, Nat)
  BY NatLessThanWellFounded, Zenon DEF OpToRel, Below

(* The pairs of Below. *)
LEMMA PairBelow == ASSUME NEW a \in Nat, NEW b \in Nat, a < b
                   PROVE  <<a, b>> \in Below
<1>1. <<a, b>>[1] = a /\ <<a, b>>[2] = b
  BY Zenon
<1>2. <<a, b>> \in Nat \X Nat
  BY Zenon
<1> QED
  BY <1>1, <1>2, Zenon DEF Below

(* A non-empty set of naturals has a least element. *)
LEMMA LeastNatural == ASSUME NEW T, T \subseteq Nat, T # {}
                      PROVE  \E i \in T : \A j \in T : i <= j
<1>1. PICK i \in T : \A j \in T : ~ (<<j, i>> \in Below)
  BY BelowWellFounded, WFMin, Zenon
<1>2. \A j \in T : ~ (j < i)
  <2> TAKE j \in T
  <2>1. i \in Nat /\ j \in Nat
    OBVIOUS
  <2> QED
    BY <1>1, <2>1, PairBelow, Zenon
<1> QED
  BY <1>2, SMT

(* The bytes a patch writes are bytes its guard recognises, whatever the     *)
(* language and the fallbacks.                                               *)
LEMMA TargetAllowed == ASSUME NEW p, NEW l PROVE Target(p, l) \in Allowed(p)
<1> DEFINE held == { i \in 1..Len(Chains[l]) : Chains[l][i] \in DOMAIN p.pay }
           first == CHOOSE i \in held : \A j \in held : i <= j
<1>1. CASE held = {}
  BY <1>1, Zenon DEF Target, Allowed
<1>2. CASE held # {}
  <2>1. held \subseteq Nat
    BY SMT
  <2> HIDE DEF held
  <2>2. first \in held
    BY <1>2, <2>1, LeastNatural, Zenon
  <2>3. Chains[l][first] \in DOMAIN p.pay
    <3> HIDE DEF first
    <3> QED BY <2>2, Zenon DEF held
  <2>4. Target(p, l) = p.pay[Chains[l][first]]
    BY <1>2, Zenon DEF Target, held
  <2> HIDE DEF first
  <2> QED
    BY <2>3, <2>4, Zenon DEF Allowed
<1> QED
  BY <1>1, <1>2, Zenon

-----------------------------------------------------------------------------
(* What the table's entries and one step of a pass are. *)

(* The indices of a table are positive numbers. *)
LEMMA TableIndices == ASSUME NEW t, IsTable(t)
                      PROVE  Len(t) \in Nat /\ DOMAIN t = 1..Len(t)
<1> DEFINE Entered == { t[i] : i \in DOMAIN t }
<1>1. t \in Seq(Entered)
  BY Zenon DEF IsTable
<1> HIDE DEF Entered
<1> QED
  BY <1>1, SMT

(* Every byte string an entry recognises covers exactly its window.          *)
LEMMA EntryType == ASSUME NEW t, IsTable(t), NEW i \in DOMAIN t
                   PROVE  /\ Cells(t[i]) \subseteq Addr
                          /\ \A b \in Allowed(t[i]) : b \in [Cells(t[i]) -> Byte]
<1>1. IsPatch(t[i])
  BY Zenon DEF IsTable
<1> QED
  BY <1>1, Zenon DEF IsPatch, Allowed

(* An entry leaves an image over the same cells. *)
LEMMA StepType == ASSUME NEW t, IsTable(t), NEW i \in DOMAIN t, NEW l,
                         NEW img \in [Addr -> Byte]
                  PROVE  Step(img, t[i], l) \in [Addr -> Byte]
<1> DEFINE target == Target(t[i], l)
           written == [a \in DOMAIN img |-> IF a \in Cells(t[i]) THEN target[a] ELSE img[a]]
<1>1. target \in [Cells(t[i]) -> Byte]
  BY EntryType, TargetAllowed, Zenon
<1>2. Write(img, t[i], l) = written
  BY Zenon DEF Write
<1>3. written \in [Addr -> Byte]
  <2> HIDE DEF target
  <2>1. \A a \in Addr : (IF a \in Cells(t[i]) THEN target[a] ELSE img[a]) \in Byte
    BY <1>1, Zenon
  <2> QED BY <2>1, Zenon
<1> QED
  BY <1>2, <1>3, Zenon DEF Step

(* An entry whose guard holds leaves its target in its window.               *)
LEMMA OwnWindow == ASSUME NEW t, IsTable(t), NEW i \in DOMAIN t, NEW l,
                          NEW img \in [Addr -> Byte],
                          Window(img, t[i]) \in Allowed(t[i])
                   PROVE  Window(Step(img, t[i], l), t[i]) = Target(t[i], l)
<1> DEFINE target == Target(t[i], l)
           written == [a \in DOMAIN img |-> IF a \in Cells(t[i]) THEN target[a] ELSE img[a]]
<1>1. target \in [Cells(t[i]) -> Byte] /\ Cells(t[i]) \subseteq Addr
  BY EntryType, TargetAllowed, Zenon
<1>2. Step(img, t[i], l) = written
  BY Zenon DEF Step, Write
<1>3. [a \in Cells(t[i]) |-> written[a]] = target
  <2> HIDE DEF target
  <2>1. \A a \in Cells(t[i]) : written[a] = target[a]
    BY <1>1, Zenon
  <2> QED BY <1>1, <2>1, Zenon
<1> QED
  BY <1>2, <1>3, Zenon DEF Window

(* Whatever an entry does, it leaves a window it shares no address with.     *)
LEMMA OtherWindow == ASSUME NEW t, IsTable(t), NEW i \in DOMAIN t, NEW j \in DOMAIN t,
                            NEW l, NEW img \in [Addr -> Byte],
                            \A a \in Cells(t[i]) : a \notin Cells(t[j])
                     PROVE  Window(Step(img, t[j], l), t[i]) = Window(img, t[i])
<1> DEFINE target == Target(t[j], l)
           written == [a \in DOMAIN img |-> IF a \in Cells(t[j]) THEN target[a] ELSE img[a]]
<1>1. Cells(t[i]) \subseteq Addr
  BY EntryType, Zenon
<1>2. Step(img, t[j], l) \in {img, written}
  BY Zenon DEF Step, Write
<1>3. \A a \in Cells(t[i]) : Step(img, t[j], l)[a] = img[a]
  <2> HIDE DEF target
  <2>1. \A a \in Cells(t[i]) : a \in DOMAIN img /\ a \notin Cells(t[j])
    BY <1>1, Zenon
  <2>2. \A a \in Cells(t[i]) : written[a] = img[a]
    BY <2>1, Zenon
  <2> HIDE DEF written
  <2> QED BY <1>2, <2>2, Zenon
<1> QED
  BY <1>3, Zenon DEF Window

-----------------------------------------------------------------------------

(* RomTypeOK: the image stays an image of the cart, for every table.         *)
THEOREM TypeCorrect == RomSpec => []RomTypeOK
<1>1. RomInit => RomTypeOK
  BY SMT DEF RomInit, RomTypeOK
<1>2. RomTypeOK /\ [RomNext]_romVars => RomTypeOK'
  <2> SUFFICES ASSUME RomTypeOK, [RomNext]_romVars PROVE RomTypeOK'
    OBVIOUS
  <2> USE DEF RomTypeOK
  <2>1. CASE ApplyPatch
    <3>1. cursor \in DOMAIN table
      BY <2>1, TableIndices, SMT DEF ApplyPatch
    <3>2. image' \in [Addr -> Byte]
      BY <2>1, <3>1, StepType, Zenon DEF ApplyPatch
    <3>3. cursor' \in Nat \ {0}
      BY <2>1, SMT DEF ApplyPatch
    <3> QED
      BY <2>1, <3>2, <3>3, Zenon DEF ApplyPatch
  <2>2. CASE SwitchLanguage
    <3>1. cursor' \in Nat \ {0}
      BY <2>2, SMT DEF SwitchLanguage
    <3> QED
      BY <2>2, <3>1, Zenon DEF SwitchLanguage
  <2>3. CASE UNCHANGED romVars
    BY <2>3, Zenon DEF romVars
  <2> QED
    BY <2>1, <2>2, <2>3, Zenon DEF RomNext
<1> QED
  BY <1>1, <1>2, PTL DEF RomSpec

(* SingleOwnerResolves is inductive with the types: a window with one owner  *)
(* is written by that owner only, the cart's bytes are among those it        *)
(* recognises, and a new pass starts with nothing promised.                  *)
Resolved(i) ==
  /\ Window(image, table[i]) \in Allowed(table[i])
  /\ cursor > i => Window(image, table[i]) = Target(table[i], lang)

(* On the cart before any entry has run nothing has been touched. *)
LEMMA CartResolves == RomInit /\ RomTypeOK => SingleOwnerResolves
<1> SUFFICES ASSUME RomInit, RomTypeOK, NEW i \in DOMAIN table, SoleOwner(i)
             PROVE  Resolved(i)
  BY Zenon DEF SingleOwnerResolves, Resolved
<1>1. Window(image, table[i]) = table[i].source
  BY Zenon DEF RomInit, SoleOwner
<1>2. Window(image, table[i]) \in Allowed(table[i])
  BY <1>1, Zenon DEF Allowed
<1>3. ~ (cursor > i)
  <2>1. i \in Nat \ {0}
    BY TableIndices, SMT DEF RomTypeOK
  <2>2. cursor = 1
    BY Zenon DEF RomInit
  <2> QED BY <2>1, <2>2, SMT
<1> QED
  BY <1>2, <1>3, Zenon DEF Resolved

(* A step of a pass leaves what a sole owner has left. *)
LEMMA PassResolves == ASSUME RomTypeOK, SingleOwnerResolves, ApplyPatch
                      PROVE  SingleOwnerResolves'
<1>1. /\ image \in [Addr -> Byte] /\ IsTable(table) /\ cursor \in Nat \ {0}
      /\ cursor <= Len(table)
      /\ image' = Step(image, table[cursor], lang) /\ cursor' = cursor + 1
      /\ rom' = rom /\ table' = table /\ lang' = lang
  BY Zenon DEF RomTypeOK, ApplyPatch
<1>2. DOMAIN table = 1..Len(table) /\ Len(table) \in Nat
  BY TableIndices DEF RomTypeOK
<1>3. cursor \in DOMAIN table
  BY <1>1, <1>2, SMT
<1>4. ASSUME NEW i \in DOMAIN table, SoleOwner(i)
      PROVE  /\ Window(image', table[i]) \in Allowed(table[i])
             /\ cursor' > i => Window(image', table[i]) = Target(table[i], lang)
  <2>1. Resolved(i)
    BY <1>4, Zenon DEF SingleOwnerResolves, Resolved
  <2>2. CASE i = cursor
    <3>1. Window(image', table[i]) = Target(table[i], lang)
      BY <1>1, <2>1, <2>2, OwnWindow, Zenon DEF Resolved
    <3> QED
      BY <3>1, TargetAllowed, Zenon
  <2>3. CASE i # cursor
    <3>1. \A a \in Cells(table[i]) : a \notin Cells(table[cursor])
      BY <1>3, <1>4, <2>3, Zenon DEF SoleOwner
    <3>2. Window(Step(image, table[cursor], lang), table[i]) = Window(image, table[i])
      <4>1. image \in [Addr -> Byte] /\ IsTable(table)
        BY <1>1
      <4> QED
        BY <1>3, <3>1, <4>1, OtherWindow, Zenon
    <3>3. cursor' > i => cursor > i
      BY <1>1, <1>2, <2>3, SMT
    <3> QED
      BY <1>1, <2>1, <3>2, <3>3, Zenon DEF Resolved
  <2> QED
    BY <2>2, <2>3
<1>5. \A i \in DOMAIN table : SoleOwner(i)' <=> SoleOwner(i)
  BY <1>1, Zenon DEF SoleOwner
<1> QED
  BY <1>1, <1>4, <1>5, Zenon DEF SingleOwnerResolves

(* SingleOwnerResolves, for every table, every set of fallbacks and every    *)
(* sequence of language switches: one owner means one step.                  *)
THEOREM OneOwnerResolves == RomSpec => []SingleOwnerResolves
<1>1. RomInit /\ RomTypeOK => SingleOwnerResolves
  BY CartResolves
<1>2. RomTypeOK /\ SingleOwnerResolves /\ [RomNext]_romVars => SingleOwnerResolves'
  <2> SUFFICES ASSUME RomTypeOK, SingleOwnerResolves, [RomNext]_romVars
               PROVE  SingleOwnerResolves'
    OBVIOUS
  <2>1. CASE ApplyPatch
    BY <2>1, PassResolves, Zenon
  <2>2. CASE SwitchLanguage
    <3>1. /\ cursor' = 1 /\ rom' = rom /\ table' = table /\ image' = image
      BY <2>2, Zenon DEF SwitchLanguage
    <3>2. \A i \in DOMAIN table : ~ (cursor' > i)
      BY <3>1, TableIndices, SMT DEF RomTypeOK
    <3> QED
      BY <3>1, <3>2, Zenon DEF SingleOwnerResolves, SoleOwner
  <2>3. CASE UNCHANGED romVars
    BY <2>3, Zenon DEF romVars, SingleOwnerResolves, SoleOwner
  <2> QED
    BY <2>1, <2>2, <2>3, Zenon DEF RomNext
<1> QED
  BY <1>1, <1>2, TypeCorrect, PTL DEF RomSpec
-----------------------------------------------------------------------------
(* Flattening and deduplicating sequences. *)

(* A set of naturals that holds 0 and, with each number, the next, holds them all. *)
LEMMA Climb ==
  ASSUME NEW T, 0 \in T, \A n \in Nat : n \in T => n + 1 \in T
  PROVE  \A n \in Nat : n \in T
<1> DEFINE out == {n \in Nat : n \notin T}
<1>1. SUFFICES ASSUME out # {} PROVE FALSE
  OBVIOUS
<1>2. PICK n \in out : \A m \in out : n <= m
  BY <1>1, LeastNatural, Zenon
<1>3. n \in Nat /\ n # 0
  OBVIOUS
<1>4. n - 1 \in Nat /\ ~(n <= n - 1) /\ (n - 1) + 1 = n
  BY <1>3
<1>5. n - 1 \in T
  BY <1>2, <1>4
<1>6. QED
  BY <1>4, <1>5

(* What FlattenSeq computes step by step: the recursive function inside it exists. *)
Flattens(f, s, n) == f = [i \in 1..n |-> IF i = 1 THEN s[i] ELSE f[i-1] \o s[i]]

(* That recursive function exists for every sequence of sequences. *)
LEMMA FlattensExists ==
  ASSUME NEW s
  PROVE  \A n \in Nat : \E f : Flattens(f, s, n)
<1> DEFINE T == {n \in Nat : \E f : Flattens(f, s, n)}
<1>1. 0 \in T
  <2>1. Flattens([i \in 1..0 |-> 0], s, 0)
    BY DEF Flattens
  <2>2. QED
    BY <2>1
<1>2. ASSUME NEW n \in Nat, n \in T PROVE n + 1 \in T
  <2>1. PICK g : Flattens(g, s, n)
    BY <1>2
  <2> DEFINE f == [i \in 1..(n+1) |-> IF i = 1 THEN s[i] ELSE g[i-1] \o s[i]]
  <2>2. \A i \in 1..(n+1) : i # 1 => f[i-1] = g[i-1]
    <3> SUFFICES ASSUME NEW i \in 1..(n+1), i # 1 PROVE f[i-1] = g[i-1]
      OBVIOUS
    <3>1. i - 1 \in 1..n /\ i - 1 \in 1..(n+1)
      OBVIOUS
    <3>2. f[i-1] = IF i-1 = 1 THEN s[i-1] ELSE g[(i-1)-1] \o s[i-1]
      BY <3>1
    <3>3. g[i-1] = IF i-1 = 1 THEN s[i-1] ELSE g[(i-1)-1] \o s[i-1]
      <4>1. g = [k \in 1..n |-> IF k = 1 THEN s[k] ELSE g[k-1] \o s[k]]
        BY <2>1 DEF Flattens
      <4>2. QED
        BY <3>1, <4>1
    <3>4. QED
      BY <3>2, <3>3
  <2>3. Flattens(f, s, n+1)
    <3>1. f = [i \in 1..(n+1) |-> IF i = 1 THEN s[i] ELSE f[i-1] \o s[i]]
      BY <2>2
    <3>2. QED
      BY <3>1 DEF Flattens
  <2>4. QED
    BY <2>3
<1> HIDE DEF T
<1>3. \A n \in Nat : n \in T
  BY <1>1, <1>2, Climb
<1>4. QED
  BY <1>3 DEF T

(* FlattenSeq appends one piece after another. *)
LEMMA FlattenSteps ==
  ASSUME NEW s, Len(s) \in Nat \ {0}
  PROVE  \E f : /\ FlattenSeq(s) = f[Len(s)]
                /\ f[1] = s[1]
                /\ \A i \in 2..Len(s) : f[i] = f[i-1] \o s[i]
<1> DEFINE f == CHOOSE g : g = [i \in 1..Len(s) |-> IF i = 1 THEN s[i] ELSE g[i-1] \o s[i]]
<1>1. FlattenSeq(s) = f[Len(s)]
  BY DEF FlattenSeq
<1>2. \E g : g = [i \in 1..Len(s) |-> IF i = 1 THEN s[i] ELSE g[i-1] \o s[i]]
  BY FlattensExists DEF Flattens
<1>3. f = [i \in 1..Len(s) |-> IF i = 1 THEN s[i] ELSE f[i-1] \o s[i]]
  BY <1>2, Zenon
<1> HIDE DEF f
<1>4. f[1] = s[1] /\ \A i \in 2..Len(s) : f[i] = f[i-1] \o s[i]
  <2>1. \A i \in 1..Len(s) : f[i] = IF i = 1 THEN s[i] ELSE f[i-1] \o s[i]
    BY <1>3
  <2>2. 1 \in 1..Len(s) /\ \A i \in 2..Len(s) : i \in 1..Len(s) /\ i # 1
    OBVIOUS
  <2>3. QED
    BY <2>1, <2>2, Zenon
<1>5. QED
  BY <1>1, <1>4

(* One piece flattens to itself. *)
LEMMA FlattenOne ==
  ASSUME NEW s, Len(s) = 1
  PROVE  FlattenSeq(s) = s[1]
<1>1. Len(s) \in Nat \ {0}
  OBVIOUS
<1>2. PICK f : FlattenSeq(s) = f[Len(s)] /\ f[1] = s[1]
  BY <1>1, FlattenSteps
<1>3. QED
  BY <1>2

(* Two pieces flatten to their concatenation. *)
LEMMA FlattenTwo ==
  ASSUME NEW s, Len(s) = 2
  PROVE  FlattenSeq(s) = s[1] \o s[2]
<1>1. Len(s) \in Nat \ {0} /\ 2 \in 2..Len(s) /\ 2 - 1 = 1
  OBVIOUS
<1>2. PICK f : /\ FlattenSeq(s) = f[Len(s)] /\ f[1] = s[1]
               /\ \A i \in 2..Len(s) : f[i] = f[i-1] \o s[i]
  BY <1>1, FlattenSteps
<1>3. f[2] = f[2-1] \o s[2]
  BY <1>1, <1>2, Zenon
<1>4. f[2] = s[1] \o s[2]
  BY <1>1, <1>2, <1>3
<1>5. QED
  BY <1>2, <1>4

(* FlattenSteps for every sequence at once.                                  *)
LEMMA FlattenStepsAll ==
  \A s : Len(s) \in Nat \ {0} =>
    \E f : /\ FlattenSeq(s) = f[Len(s)]
          /\ f[1] = s[1]
          /\ \A i \in 2..Len(s) : f[i] = f[i-1] \o s[i]
  BY FlattenSteps

(* Two sequences of pieces, piece for piece as long as each other and related
   element by element, flatten to sequences related element by element. *)
LEMMA FlattenAlike ==
  ASSUME NEW A, NEW B, NEW R, NEW s \in Seq(Seq(A)), NEW t \in Seq(Seq(B)), Len(s) = Len(t),
         \A i \in 1..Len(s) :
           /\ Len(s[i]) = Len(t[i])
           /\ \A k \in 1..Len(s[i]) : <<s[i][k], t[i][k]>> \in R
  PROVE  /\ FlattenSeq(s) \in Seq(A) /\ FlattenSeq(t) \in Seq(B)
         /\ Len(FlattenSeq(s)) = Len(FlattenSeq(t))
         /\ \A k \in 1..Len(FlattenSeq(s)) : <<FlattenSeq(s)[k], FlattenSeq(t)[k]>> \in R
<1>1. CASE Len(s) = 0
  <2>1. FlattenSeq(s) = s /\ FlattenSeq(t) = t
    BY <1>1 DEF FlattenSeq
  <2>2. s = <<>> /\ t = <<>>
    BY <1>1, EmptySeq
  <2>3. QED
    BY <2>1, <2>2, EmptySeq
<1>2. CASE Len(s) # 0
  <2>1. Len(s) \in Nat \ {0}
    BY <1>2, LenProperties
  <2> DEFINE n == Len(s)
  <2>2. PICK f : /\ FlattenSeq(s) = f[n] /\ f[1] = s[1]
                 /\ \A i \in 2..n : f[i] = f[i-1] \o s[i]
    BY <2>1, FlattenStepsAll, Zenon
  <2>3. PICK g : /\ FlattenSeq(t) = g[n] /\ g[1] = t[1]
                 /\ \A i \in 2..n : g[i] = g[i-1] \o t[i]
    <3>1. Len(t) \in Nat \ {0} /\ Len(t) = n
      BY <2>1
    <3>2. \E g : /\ FlattenSeq(t) = g[Len(t)] /\ g[1] = t[1]
                 /\ \A i \in 2..Len(t) : g[i] = g[i-1] \o t[i]
      BY <3>1, FlattenStepsAll, Zenon
    <3>3. QED
      BY <3>1, <3>2, Zenon
  <2> DEFINE Like(x, y) == /\ x \in Seq(A) /\ y \in Seq(B) /\ Len(x) = Len(y)
                           /\ \A k \in 1..Len(x) : <<x[k], y[k]>> \in R
             T == {i \in Nat : i + 1 <= n => Like(f[i+1], g[i+1])}
  <2>4. \A i \in 1..n : Like(s[i], t[i])
    <3> SUFFICES ASSUME NEW i \in 1..n PROVE Like(s[i], t[i])
      OBVIOUS
    <3>1. i \in 1..Len(s) /\ i \in 1..Len(t)
      OBVIOUS
    <3>2. s[i] \in Seq(A) /\ t[i] \in Seq(B)
      BY <3>1, ElementOfSeq, Zenon
    <3>3. QED
      BY <3>1, <3>2
  <2>5. ASSUME NEW x, NEW y, NEW u, NEW v, Like(x, y), Like(u, v)
        PROVE  Like(x \o u, y \o v)
    <3>1. /\ Len(x) \in Nat /\ Len(u) \in Nat /\ x \o u \in Seq(A) /\ y \o v \in Seq(B)
          /\ Len(x \o u) = Len(x) + Len(u) /\ Len(y \o v) = Len(x) + Len(u)
      <4>1. x \in Seq(A) /\ u \in Seq(A) /\ y \in Seq(B) /\ v \in Seq(B)
        BY <2>5
      <4>2. Len(x) = Len(y) /\ Len(u) = Len(v)
        BY <2>5
      <4>3. Len(x) \in Nat /\ Len(u) \in Nat
        BY <4>1, LenProperties
      <4>4. x \o u \in Seq(A) /\ Len(x \o u) = Len(x) + Len(u)
        BY <4>1, ConcatProperties
      <4>5. y \o v \in Seq(B) /\ Len(y \o v) = Len(y) + Len(v)
        BY <4>1, ConcatProperties
      <4>6. QED
        BY <4>2, <4>3, <4>4, <4>5
    <3>2. ASSUME NEW k \in 1..(Len(x) + Len(u))
          PROVE  <<(x \o u)[k], (y \o v)[k]>> \in R
      <4>1. /\ (x \o u)[k] = IF k <= Len(x) THEN x[k] ELSE u[k - Len(x)]
            /\ (y \o v)[k] = IF k <= Len(x) THEN y[k] ELSE v[k - Len(x)]
        <5>1. x \in Seq(A) /\ u \in Seq(A) /\ y \in Seq(B) /\ v \in Seq(B)
          BY <2>5
        <5>2. Len(y) = Len(x) /\ Len(v) = Len(u)
          BY <2>5
        <5>3. (x \o u)[k] = IF k <= Len(x) THEN x[k] ELSE u[k - Len(x)]
          BY <5>1, ConcatProperties
        <5>4. k \in 1..(Len(y) + Len(v))
          BY <5>2
        <5>5. (y \o v)[k] = IF k <= Len(y) THEN y[k] ELSE v[k - Len(y)]
          BY <5>1, <5>4, ConcatProperties
        <5>6. QED
          BY <5>2, <5>3, <5>5
      <4>2. CASE k <= Len(x)
        BY <2>5, <3>1, <4>1, <4>2
      <4>3. CASE ~(k <= Len(x))
        <5>1. k - Len(x) \in 1..Len(u)
          BY <3>1, <4>3
        <5>2. QED
          BY <2>5, <4>1, <4>3, <5>1
      <4>4. QED
        BY <4>2, <4>3
    <3>3. QED
      BY <3>1, <3>2
  <2> HIDE DEF Like
  <2>6. 0 \in T
    BY <2>1, <2>2, <2>3, <2>4
  <2>7. ASSUME NEW i \in Nat, i \in T PROVE i + 1 \in T
    <3>1. SUFFICES ASSUME i + 2 <= n PROVE Like(f[i+2], g[i+2])
      OBVIOUS
    <3>2. Like(f[i+1], g[i+1])
      BY <2>1, <2>7, <3>1
    <3>3. i + 2 \in 1..n /\ i + 2 \in 2..n /\ (i + 2) - 1 = i + 1
      BY <2>1, <3>1
    <3>4. f[i+2] = f[i+1] \o s[i+2] /\ g[i+2] = g[i+1] \o t[i+2]
      BY <2>2, <2>3, <3>3
    <3>5. Like(s[i+2], t[i+2])
      BY <2>4, <3>3
    <3>6. QED
      BY <2>5, <3>2, <3>4, <3>5
  <2> HIDE DEF T
  <2>8. \A i \in Nat : i \in T
    BY <2>6, <2>7, Climb
  <2>9. n - 1 \in T /\ (n - 1) + 1 = n
    BY <2>1, <2>8
  <2>10. Like(f[n], g[n])
    BY <2>1, <2>9 DEF T
  <2>11. QED
    BY <2>2, <2>3, <2>10 DEF Like
<1>3. QED
  BY <1>1, <1>2

(* Flattening loses no element. *)
LEMMA FlattenHolds ==
  ASSUME NEW A, NEW s \in Seq(Seq(A))
  PROVE  \A j \in 1..Len(s) : \A k \in 1..Len(s[j]) :
           \E m \in 1..Len(FlattenSeq(s)) : FlattenSeq(s)[m] = s[j][k]
<1> SUFFICES ASSUME NEW j \in 1..Len(s), NEW k \in 1..Len(s[j])
             PROVE  \E m \in 1..Len(FlattenSeq(s)) : FlattenSeq(s)[m] = s[j][k]
  OBVIOUS
<1> DEFINE n == Len(s)
<1>1. n \in Nat \ {0} /\ j \in Nat /\ j <= n
  BY LenProperties
<1>2. PICK f : /\ FlattenSeq(s) = f[n] /\ f[1] = s[1]
               /\ \A i \in 2..n : f[i] = f[i-1] \o s[i]
  BY <1>1, FlattenSteps
<1>3. \A i \in 1..n : s[i] \in Seq(A)
  BY ElementOfSeq
<1> DEFINE Has(x) == \E m \in 1..Len(x) : x[m] = s[j][k]
           T == {i \in Nat : i + 1 <= n => f[i+1] \in Seq(A) /\ (j <= i + 1 => Has(f[i+1]))}
<1>4. ASSUME NEW x \in Seq(A), NEW y \in Seq(A), Has(x) \/ Has(y)
      PROVE  Has(x \o y)
  <2>1. /\ Len(x) \in Nat /\ Len(y) \in Nat /\ Len(x \o y) = Len(x) + Len(y)
        /\ \A m \in 1..(Len(x) + Len(y)) :
             (x \o y)[m] = IF m <= Len(x) THEN x[m] ELSE y[m - Len(x)]
    BY ConcatProperties, LenProperties
  <2>2. CASE Has(x)
    <3>1. PICK m \in 1..Len(x) : x[m] = s[j][k]
      BY <2>2
    <3>2. m \in 1..(Len(x) + Len(y)) /\ m <= Len(x)
      BY <2>1
    <3>3. (x \o y)[m] = s[j][k]
      BY <2>1, <3>1, <3>2
    <3>4. QED
      BY <2>1, <3>2, <3>3
  <2>3. CASE Has(y)
    <3>1. PICK m \in 1..Len(y) : y[m] = s[j][k]
      BY <2>3
    <3>2. /\ Len(x) + m \in 1..(Len(x) + Len(y)) /\ ~(Len(x) + m <= Len(x))
          /\ (Len(x) + m) - Len(x) = m
      BY <2>1
    <3>3. (x \o y)[Len(x) + m] = s[j][k]
      BY <2>1, <3>1, <3>2
    <3>4. QED
      BY <2>1, <3>2, <3>3
  <2>4. QED
    BY <1>4, <2>2, <2>3
<1>5. Has(s[j])
  OBVIOUS
<1> HIDE DEF Has
<1>6. 0 \in T
  <2>1. f[0+1] = s[1] /\ 1 \in 1..n
    BY <1>1, <1>2
  <2>2. j <= 0 + 1 => j = 1
    BY <1>1
  <2>3. QED
    BY <1>3, <1>5, <2>1, <2>2
<1>7. ASSUME NEW i \in Nat, i \in T PROVE i + 1 \in T
  <2>1. SUFFICES ASSUME i + 2 <= n
                 PROVE  f[i+2] \in Seq(A) /\ (j <= i + 2 => Has(f[i+2]))
    OBVIOUS
  <2>2. f[i+1] \in Seq(A) /\ (j <= i + 1 => Has(f[i+1]))
    BY <1>1, <1>7, <2>1
  <2>3. i + 2 \in 1..n /\ i + 2 \in 2..n /\ (i + 2) - 1 = i + 1
    BY <1>1, <2>1
  <2>4. f[i+2] = f[i+1] \o s[i+2]
    BY <1>2, <2>3
  <2>5. s[i+2] \in Seq(A)
    BY <1>3, <2>3
  <2>6. f[i+2] \in Seq(A)
    BY <2>2, <2>4, <2>5, ConcatProperties
  <2>7. ASSUME j <= i + 2 PROVE Has(f[i+1]) \/ Has(s[i+2])
    <3>1. j <= i + 1 \/ j = i + 2
      BY <1>1, <2>7
    <3>2. QED
      BY <1>5, <2>2, <3>1
  <2>8. QED
    BY <1>4, <2>2, <2>4, <2>5, <2>6, <2>7
<1> HIDE DEF T
<1>8. \A i \in Nat : i \in T
  BY <1>6, <1>7, Climb
<1>9. n - 1 \in T /\ (n - 1) + 1 = n
  BY <1>1, <1>8
<1>10. Has(f[n])
  BY <1>1, <1>9 DEF T
<1>11. QED
  BY <1>2, <1>10 DEF Has

(* Blocks of one length stay where they are. *)
LEMMA FlattenBlocks ==
  ASSUME NEW w \in {1, 4}, NEW A, NEW s \in Seq(Seq(A)), Len(s) # 0,
         \A i \in 1..Len(s) : Len(s[i]) = w
  PROVE  /\ FlattenSeq(s) \in Seq(A) /\ Len(FlattenSeq(s)) = w * Len(s)
         /\ \A i \in 1..Len(s), k \in 1..w : FlattenSeq(s)[w * (i - 1) + k] = s[i][k]
<1> DEFINE n == Len(s)
<1>1. n \in Nat \ {0}
  BY LenProperties
<1>2. PICK f : /\ FlattenSeq(s) = f[n] /\ f[1] = s[1]
               /\ \A i \in 2..n : f[i] = f[i-1] \o s[i]
  BY <1>1, FlattenSteps
<1>3. \A i \in 1..n : s[i] \in Seq(A)
  BY ElementOfSeq
<1> DEFINE In(x, i) == /\ x \in Seq(A) /\ Len(x) = w * i
                       /\ \A j \in 1..i, k \in 1..w : x[w * (j - 1) + k] = s[j][k]
           T == {i \in Nat : i + 1 <= n => In(f[i+1], i + 1)}
<1>4. ASSUME NEW x, NEW i \in Nat, In(x, i), i + 1 \in 1..n
      PROVE  In(x \o s[i+1], i + 1)
  <2> DEFINE y == s[i+1]
  <2>1. x \in Seq(A) /\ y \in Seq(A) /\ Len(x) = w * i /\ Len(y) = w
    BY <1>3, <1>4
  <2>2. /\ x \o y \in Seq(A) /\ Len(x \o y) = Len(x) + Len(y)
        /\ \A m \in 1..(Len(x) + Len(y)) :
             (x \o y)[m] = IF m <= Len(x) THEN x[m] ELSE y[m - Len(x)]
    BY <2>1, ConcatProperties
  <2>3. ASSUME NEW j \in 1..(i+1), NEW k \in 1..w
        PROVE  (x \o y)[w * (j - 1) + k] = s[j][k]
    <3>1. CASE j <= i
      <4>1. j \in 1..i /\ w * (j - 1) + k \in 1..(Len(x) + Len(y)) /\ w * (j - 1) + k <= Len(x)
        <5>1. CASE w = 1
          BY <2>1, <3>1, <5>1
        <5>2. CASE w = 4
          BY <2>1, <3>1, <5>2
        <5>3. QED
          BY <5>1, <5>2
      <4>2. x[w * (j - 1) + k] = s[j][k]
        BY <1>4, <4>1
      <4>3. QED
        BY <2>2, <4>1, <4>2
    <3>2. CASE j = i + 1
      <4>1. /\ w * (j - 1) + k \in 1..(Len(x) + Len(y)) /\ ~(w * (j - 1) + k <= Len(x))
            /\ (w * (j - 1) + k) - Len(x) = k
        BY <2>1, <3>2
      <4>2. (x \o y)[w * (j - 1) + k] = y[(w * (j - 1) + k) - Len(x)]
        <5> HIDE DEF y
        <5>1. QED
          BY <2>2, <4>1
      <4>3. (x \o y)[w * (j - 1) + k] = y[k]
        <5> HIDE DEF y
        <5>1. QED
          BY <4>1, <4>2
      <4>4. QED
        BY <3>2, <4>3, Zenon
    <3>3. j <= i \/ j = i + 1
      OBVIOUS
    <3>4. QED
      BY <3>1, <3>2, <3>3
  <2>4. x \o y \in Seq(A) /\ Len(x \o y) = w * (i + 1)
    <3> HIDE DEF y
    <3>1. QED
      BY <2>1, <2>2
  <2>5. QED
    BY <2>3, <2>4, Zenon
<1>5. In(s[1], 1)
  <2>1. 1 \in 1..n
    BY <1>1
  <2>2. \A j \in 1..1, k \in 1..w : j = 1 /\ w * (j - 1) + k = k
    OBVIOUS
  <2>3. QED
    BY <1>3, <2>1, <2>2
<1> HIDE DEF In
<1>6. 0 \in T
  BY <1>2, <1>5
<1>7. ASSUME NEW i \in Nat, i \in T PROVE i + 1 \in T
  <2>1. SUFFICES ASSUME i + 2 <= n PROVE In(f[i+2], i + 2)
    OBVIOUS
  <2>2. In(f[i+1], i + 1)
    BY <1>1, <1>7, <2>1
  <2>3. i + 2 \in 1..n /\ i + 2 \in 2..n /\ (i + 2) - 1 = i + 1 /\ (i + 1) + 1 = i + 2
    BY <1>1, <2>1
  <2>4. f[i+2] = f[i+1] \o s[i+2]
    BY <1>2, <2>3
  <2>5. In(f[i+1] \o s[(i+1)+1], (i + 1) + 1)
    BY <1>4, <2>2, <2>3
  <2>6. QED
    BY <2>3, <2>4, <2>5
<1> HIDE DEF T
<1>8. \A i \in Nat : i \in T
  BY <1>6, <1>7, Climb
<1>9. n - 1 \in T /\ (n - 1) + 1 = n
  BY <1>1, <1>8
<1>10. In(f[n], n)
  BY <1>1, <1>9 DEF T
<1>11. QED
  BY <1>2, <1>10 DEF In

(* A function on 1..n is a sequence of that length. *)
LEMMA ListLen ==
  ASSUME NEW n \in Nat, NEW f, f = [i \in 1..n |-> f[i]]
  PROVE  f \in Seq({f[i] : i \in 1..n}) /\ Len(f) = n
  OBVIOUS

(* Distinct keeps every element it does not skip. *)
LEMMA DistinctHolds ==
  ASSUME NEW s, NEW n \in Nat, DOMAIN s = 1..n, NEW skip
  PROVE  \A i \in 1..n : s[i] \notin skip =>
           \E k \in 1..Len(Distinct(s, skip)) : Distinct(s, skip)[k] = s[i]
<1> SUFFICES ASSUME NEW i \in 1..n, s[i] \notin skip
             PROVE  \E k \in 1..Len(Distinct(s, skip)) : Distinct(s, skip)[k] = s[i]
  OBVIOUS
<1> DEFINE F == {j \in DOMAIN s : s[j] \notin skip /\ \A m \in 1..(j - 1) : s[m] # s[j]}
           upto(j) == {m \in F : m <= j}
           e(k) == s[CHOOSE j \in F : Cardinality(upto(j)) = k]
<1>1. Distinct(s, skip) = [k \in 1..Cardinality(F) |-> e(k)]
  BY DEF Distinct
<1>2. IsFiniteSet(F) /\ Cardinality(F) \in Nat /\ F \subseteq Nat
  <2>1. IsFiniteSet(1..n)
    BY FS_Interval
  <2>2. F \subseteq 1..n
    OBVIOUS
  <2>3. QED
    BY <2>1, <2>2, FS_Subset, FS_CardinalityType
<1>3. PICK j \in F : s[j] = s[i]
  <2> DEFINE T == {m \in 1..n : s[m] = s[i]}
  <2>1. T \subseteq Nat /\ i \in T
    OBVIOUS
  <2>2. PICK m \in T : \A h \in T : m <= h
    BY <2>1, LeastNatural, Zenon
  <2>3. ASSUME NEW h \in 1..(m - 1) PROVE s[h] # s[m]
    <3>1. h \in 1..n /\ ~(m <= h)
      BY <2>2
    <3>2. QED
      BY <2>2, <3>1
  <2>4. m \in F
    BY <2>2, <2>3
  <2>5. QED
    BY <2>2, <2>4
<1> HIDE DEF F
<1>4. \A m \in F : /\ upto(m) \subseteq F /\ IsFiniteSet(upto(m))
                   /\ Cardinality(upto(m)) \in 1..Cardinality(F)
  <2> SUFFICES ASSUME NEW m \in F
               PROVE  /\ upto(m) \subseteq F /\ IsFiniteSet(upto(m))
                      /\ Cardinality(upto(m)) \in 1..Cardinality(F)
    OBVIOUS
  <2>1. upto(m) \subseteq F /\ m \in upto(m)
    BY <1>2
  <2>2. IsFiniteSet(upto(m)) /\ Cardinality(upto(m)) <= Cardinality(F)
    BY <1>2, <2>1, FS_Subset
  <2>3. Cardinality(upto(m)) \in Nat /\ Cardinality(upto(m)) # 0
    BY <2>1, <2>2, FS_CardinalityType, FS_EmptySet
  <2>4. QED
    BY <1>2, <2>1, <2>2, <2>3
<1>5. \A m, h \in F : m < h => Cardinality(upto(m)) # Cardinality(upto(h))
  <2> SUFFICES ASSUME NEW m \in F, NEW h \in F, m < h
               PROVE  Cardinality(upto(m)) # Cardinality(upto(h))
    OBVIOUS
  <2>1. upto(m) \subseteq upto(h) /\ h \in upto(h) /\ h \notin upto(m)
    <3>1. m \in Nat /\ h \in Nat /\ h <= h /\ ~(h <= m)
      BY <1>2
    <3>2. \A v \in F : v <= m => v <= h
      BY <1>2, <3>1
    <3>3. QED
      BY <3>1, <3>2
  <2>2. upto(m) # upto(h)
    BY <2>1
  <2> HIDE DEF upto
  <2>3. QED
    BY <1>4, <2>1, <2>2, FS_Subset
<1> DEFINE k == Cardinality(upto(j))
<1>6. k \in 1..Cardinality(F)
  BY <1>4
<1>7. \A h \in F : Cardinality(upto(h)) = k => h = j
  BY <1>2, <1>5
<1> HIDE DEF upto
<1>8. (CHOOSE h \in F : Cardinality(upto(h)) = k) = j
  BY <1>3, <1>7
<1>9. Distinct(s, skip)[k] = s[j]
  BY <1>1, <1>6, <1>8
<1>10. Len(Distinct(s, skip)) = Cardinality(F)
  BY <1>1, <1>2
<1>11. QED
  BY <1>2, <1>3, <1>6, <1>9, <1>10

(* Distinct makes a sequence. *)
LEMMA DistinctDomain ==
  ASSUME NEW s, NEW n \in Nat, DOMAIN s = 1..n, NEW skip
  PROVE  LET d == Distinct(s, skip)
         IN Len(d) \in Nat /\ DOMAIN d = 1..Len(d) /\ d \in Seq({d[k] : k \in 1..Len(d)})
<1> DEFINE F == {j \in DOMAIN s : s[j] \notin skip /\ \A m \in 1..(j - 1) : s[m] # s[j]}
           d == Distinct(s, skip)
<1>1. DOMAIN d = 1..Cardinality(F) /\ d = [k \in 1..Cardinality(F) |-> d[k]]
  BY DEF Distinct
<1>2. Cardinality(F) \in Nat
  <2>1. IsFiniteSet(1..n) /\ F \subseteq 1..n
    BY FS_Interval
  <2>2. QED
    BY <2>1, FS_Subset, FS_CardinalityType
<1> HIDE DEF F, d
<1>3. d \in Seq({d[k] : k \in 1..Cardinality(F)}) /\ Len(d) = Cardinality(F)
  BY <1>1, <1>2
<1>4. QED
  BY <1>1, <1>2, <1>3 DEF d

(* Flattening keeps the elements' type. *)
LEMMA FlattenType ==
  ASSUME NEW A, NEW s \in Seq(Seq(A))
  PROVE  FlattenSeq(s) \in Seq(A)
<1> DEFINE R == {<<a, a>> : a \in A}
<1>1. \A i \in 1..Len(s) : \A k \in 1..Len(s[i]) : <<s[i][k], s[i][k]>> \in R
  BY ElementOfSeq
<1> HIDE DEF R
<1>2. QED
  BY <1>1, FlattenAlike

-----------------------------------------------------------------------------
(* The build of the dialogue pages. *)

(* What PagesInit says of the language. *)
Authored ==
  /\ fontMode \in {"cell", "line"}
  /\ \A a \in DOMAIN authored : authored[a] \in Seq(Range(authored[a]))

(* A covered row has a screen. *)
LEMMA SurfaceIsOne ==
  ASSUME NEW a, Covered(a)
  PROVE  SurfaceOf(a) \in Surfaces
  BY DEF Covered, SurfaceOf

(* What the build has checked of every quote it kept. *)
LEMMA QuoteFacts ==
  ASSUME Build, NEW q \in Quotes
  PROVE  /\ q \in DOMAIN authored /\ FirstLine(q) /\ q \in Nat
         /\ DOMAIN authored \subseteq DOMAIN Dialogue
         /\ fontMode = "line" \/ Chars(q) # <<>>
         /\ SurfaceOf(q) \in Surfaces
         /\ SurfaceOf(q).first \in Nat /\ SurfaceOf(q).last \in Nat
         /\ LatinFontTiles <= SurfaceOf(q).first
         /\ Base(q) \in Nat /\ SurfaceOf(q).first <= Base(q)
         /\ pages[q].base = Base(q) /\ pages[q].art = PageArt(q) /\ pages[q].guard = Guard(q)
         /\ Base(q) + Len(PageArt(q)) - 1 <= SurfaceOf(q).last
         /\ Guard(q) # <<>>
<1>1. /\ q \in DOMAIN authored /\ FirstLine(q) /\ (fontMode = "line" \/ Chars(q) # <<>>)
      /\ Quotes \subseteq DOMAIN authored
  BY DEF Quotes
<1>2. /\ BuildStands
      /\ pages = [r \in Quotes |-> [base |-> Base(r), art |-> PageArt(r), guard |-> Guard(r)]]
  BY DEF Build
<1>3. \A a \in DOMAIN authored : a \in DOMAIN Dialogue /\ Covered(a)
  BY <1>2 DEF BuildStands
<1>4. q \in Nat /\ DOMAIN authored \subseteq DOMAIN Dialogue
  BY <1>1, <1>3, PagesAssumption
<1>5. SurfaceOf(q) \in Surfaces
  BY <1>1, <1>3, SurfaceIsOne
<1>6. /\ SurfaceOf(q).first \in Nat /\ SurfaceOf(q).last \in Nat
      /\ LatinFontTiles <= SurfaceOf(q).first
  <2>1. SurfaceStands(SurfaceOf(q))
    BY <1>2, <1>5 DEF BuildStands
  <2>2. SurfaceOf(q).first \in Nat /\ SurfaceOf(q).last \in Nat
    BY <1>5, PagesAssumption
  <2>3. SurfaceOf(q).first >= LatinFontTiles
    BY <2>1 DEF SurfaceStands
  <2>4. QED
    BY <2>2, <2>3 DEF LatinFontTiles
<1>7. Base(q) \in Nat /\ SurfaceOf(q).first <= Base(q)
  <2> DEFINE E == {r \in Quotes : SurfaceOf(r) = SurfaceOf(q) /\ r < q}
  <2>1. E \subseteq DOMAIN Dialogue
    BY <1>1, <1>4
  <2>2. Cardinality(E) \in Nat
    BY <2>1, PagesAssumption, FS_Subset, FS_CardinalityType
  <2>3. Base(q) = SurfaceOf(q).first + Cardinality(E)
    BY DEF Base
  <2> HIDE DEF E
  <2>4. QED
    BY <1>6, <2>2, <2>3
<1>8. pages[q].base = Base(q) /\ pages[q].art = PageArt(q) /\ pages[q].guard = Guard(q)
  BY <1>2
<1>9. pages[q].base + Len(pages[q].art) - 1 <= SurfaceOf(q).last /\ pages[q].guard # <<>>
  BY <1>2 DEF BuildStands
<1>10. QED
  BY <1>1, <1>4, <1>5, <1>6, <1>7, <1>8, <1>9

(* The page of q lies in the window of its own screen. *)
LaidFor(q) ==
  /\ DOMAIN vram = PageWindow(SurfaceOf(q))
  /\ \A t \in PageTiles(q) : vram[t] = pages[q].art[t - pages[q].base + 1]

(* A tile of the page that is up shows the page's art. *)
LEMMA PageTileArt ==
  ASSUME Build, NEW q \in Quotes, LaidFor(q), Len(PageArt(q)) \in Nat,
         NEW k \in 1..Len(PageArt(q))
  PROVE  Art(Base(q) + k - 1) = PageArt(q)[k]
<1> DEFINE t == Base(q) + k - 1
<1>1. /\ Base(q) \in Nat /\ SurfaceOf(q).first <= Base(q) /\ SurfaceOf(q).first \in Nat
      /\ SurfaceOf(q).last \in Nat /\ pages[q].base = Base(q) /\ pages[q].art = PageArt(q)
      /\ Base(q) + Len(PageArt(q)) - 1 <= SurfaceOf(q).last
  BY QuoteFacts
<1>2. t \in Base(q)..(Base(q) + Len(PageArt(q)) - 1) /\ t - Base(q) + 1 = k
  BY <1>1
<1>3. t \in SurfaceOf(q).first..SurfaceOf(q).last
  BY <1>1, <1>2
<1>4. t \in DOMAIN vram
  BY <1>3 DEF LaidFor, PageWindow
<1>5. t \in PageTiles(q)
  BY <1>1, <1>2 DEF PageTiles
<1>6. vram[t] = pages[q].art[t - pages[q].base + 1]
  BY <1>5 DEF LaidFor
<1>7. vram[t] = PageArt(q)[k]
  BY <1>1, <1>2, <1>6
<1> HIDE DEF t
<1>8. Art(t) = PageArt(q)[k]
  BY <1>4, <1>7 DEF Art
<1>9. QED
  BY <1>8 DEF t

(* A tile of the dialogue font is never under a page. *)
LEMMA FontTileArt ==
  ASSUME Build, NEW q \in Quotes, LaidFor(q), NEW t \in Nat, t < LatinFontTiles
  PROVE  Art(t) = <<"font", t>>
<1>1. LatinFontTiles <= SurfaceOf(q).first /\ SurfaceOf(q).first \in Nat
  BY QuoteFacts
<1>2. t \notin SurfaceOf(q).first..SurfaceOf(q).last
  BY <1>1 DEF LatinFontTiles
<1>3. t \notin DOMAIN vram
  BY <1>2 DEF LaidFor, PageWindow
<1>4. QED
  BY <1>3 DEF Art

(* The rows of a quote were built from its own page. *)
LEMMA QuoteRowsFacts ==
  ASSUME Build, NEW q \in Quotes
  PROVE  /\ Len(QuoteRows(q)) \in {1, 2} /\ DOMAIN QuoteRows(q) = 1..Len(QuoteRows(q))
         /\ QuoteRows(q)[1] = q
         /\ Len(QuoteRows(q)) = 2 => QuoteRows(q)[2] = q + 128
         /\ \A i \in DOMAIN QuoteRows(q) :
              /\ QuoteRows(q)[i] \in DOMAIN authored
              /\ cells[QuoteRows(q)[i]] = RowCells(q, QuoteRows(q)[i])
<1>1. /\ q \in DOMAIN authored /\ FirstLine(q) /\ q \in Nat
      /\ DOMAIN authored \subseteq DOMAIN Dialogue
  BY QuoteFacts
<1>2. \/ QuoteRows(q) = <<q>>
      \/ QuoteRows(q) = <<q, q + 128>> /\ q + 128 \in DOMAIN authored
  BY DEF QuoteRows
<1>3. cells = [a \in DOMAIN Dialogue |-> CellsOf(a)]
  BY DEF Build
<1>4. QuoteOf(q) = q /\ QuoteOf(q + 128) = q
  <2>1. (q + 128) \div 128 = q \div 128 + 1
    BY <1>1
  <2>2. (q \div 128) \in Nat /\ (q \div 128) % 2 = 0
    BY <1>1 DEF FirstLine
  <2>3. (q \div 128 + 1) % 2 # 0
    BY <2>2
  <2>4. ~FirstLine(q + 128) /\ (q + 128) - 128 = q
    BY <1>1, <2>1, <2>3 DEF FirstLine
  <2>5. QED
    BY <1>1, <2>4 DEF QuoteOf
<1>5. ASSUME NEW a \in DOMAIN authored, QuoteOf(a) = q, a \in Range(QuoteRows(q))
      PROVE  cells[a] = RowCells(q, a)
  <2>1. Rewritten(a)
    BY <1>5 DEF Rewritten
  <2>2. CellsOf(a) = RowCells(q, a)
    BY <1>5, <2>1 DEF CellsOf
  <2>3. QED
    BY <1>1, <1>3, <2>2
<1>6. CASE QuoteRows(q) = <<q>>
  <2>1. Len(<<q>>) = 1 /\ DOMAIN <<q>> = 1..1 /\ <<q>>[1] = q /\ q \in Range(<<q>>)
    BY DEF Range
  <2>2. cells[q] = RowCells(q, q)
    BY <1>1, <1>4, <1>5, <1>6, <2>1
  <2>3. QED
    BY <1>1, <1>6, <2>1, <2>2
<1>7. CASE QuoteRows(q) = <<q, q + 128>> /\ q + 128 \in DOMAIN authored
  <2> DEFINE z == q + 128
  <2>1. /\ Len(<<q, z>>) = 2 /\ DOMAIN <<q, z>> = 1..2 /\ <<q, z>>[1] = q /\ <<q, z>>[2] = z
        /\ q \in Range(<<q, z>>) /\ z \in Range(<<q, z>>)
    BY DEF Range
  <2>2. cells[q] = RowCells(q, q) /\ cells[z] = RowCells(q, z)
    BY <1>1, <1>4, <1>5, <1>7, <2>1
  <2>3. QED
    BY <1>1, <1>7, <2>1, <2>2
<1>8. QED
  BY <1>2, <1>6, <1>7

(* The texts of a quote's rows are sequences over one alphabet.              *)
LEMMA RowTexts ==
  ASSUME Build, Authored, NEW q \in Quotes
  PROVE  LET s == [h \in DOMAIN QuoteRows(q) |-> authored[QuoteRows(q)[h]]]
         IN \E A : s \in Seq(Seq(A)) /\ Len(s) = Len(QuoteRows(q))
<1> DEFINE A == UNION {Range(authored[a]) : a \in DOMAIN authored}
           s == [h \in DOMAIN QuoteRows(q) |-> authored[QuoteRows(q)[h]]]
<1>1. /\ Len(QuoteRows(q)) \in {1, 2} /\ DOMAIN QuoteRows(q) = 1..Len(QuoteRows(q))
      /\ \A h \in DOMAIN QuoteRows(q) : QuoteRows(q)[h] \in DOMAIN authored
  BY QuoteRowsFacts
<1>2. \A a \in DOMAIN authored : authored[a] \in Seq(A)
  <2> SUFFICES ASSUME NEW a \in DOMAIN authored PROVE authored[a] \in Seq(A)
    OBVIOUS
  <2>1. authored[a] \in Seq(Range(authored[a])) /\ Range(authored[a]) \subseteq A
    BY DEF Authored
  <2> HIDE DEF A
  <2>2. QED
    BY <2>1, SeqMonotonic
<1> HIDE DEF A
<1>3. \A h \in 1..Len(QuoteRows(q)) : s[h] \in Seq(A)
  BY <1>1, <1>2
<1>4. s = [h \in 1..Len(QuoteRows(q)) |-> s[h]]
  BY <1>1
<1> HIDE DEF s
<1>5. s \in Seq(Seq(A)) /\ Len(s) = Len(QuoteRows(q))
  BY <1>1, <1>3, <1>4
<1>6. QED
  BY <1>5 DEF s

(* A quote's full-width letters form a sequence.                             *)
LEMMA CharsDomain ==
  ASSUME Build, Authored, NEW q \in Quotes
  PROVE  /\ Len(Chars(q)) \in Nat /\ DOMAIN Chars(q) = 1..Len(Chars(q))
         /\ Chars(q) \in Seq({Chars(q)[k] : k \in 1..Len(Chars(q))})
<1> DEFINE s == [h \in DOMAIN QuoteRows(q) |-> authored[QuoteRows(q)[h]]]
           said == FlattenSeq(s)
<1>1. PICK A : s \in Seq(Seq(A))
  BY RowTexts
<1> HIDE DEF s
<1>2. said \in Seq(A)
  BY <1>1, FlattenType
<1>3. Len(said) \in Nat /\ DOMAIN said = 1..Len(said)
  BY <1>2, LenProperties
<1>4. Chars(q) = Distinct(said, DOMAIN Latin)
  BY DEF Chars, s
<1> HIDE DEF said
<1>5. QED
  BY <1>3, <1>4, DistinctDomain

(* Cell mode: every full-width letter of a quote's rows has its place. *)
LEMMA CharsHold ==
  ASSUME Build, Authored, NEW q \in Quotes, NEW i \in DOMAIN QuoteRows(q),
         NEW j \in DOMAIN authored[QuoteRows(q)[i]], FullWidth(authored[QuoteRows(q)[i]][j])
  PROVE  /\ Len(Chars(q)) \in Nat
         /\ Position(Chars(q), authored[QuoteRows(q)[i]][j]) \in 1..Len(Chars(q))
         /\ Chars(q)[Position(Chars(q), authored[QuoteRows(q)[i]][j])]
              = authored[QuoteRows(q)[i]][j]
<1> DEFINE s == [h \in DOMAIN QuoteRows(q) |-> authored[QuoteRows(q)[h]]]
           c == authored[QuoteRows(q)[i]][j]
           said == FlattenSeq(s)
<1>1. DOMAIN QuoteRows(q) = 1..Len(QuoteRows(q))
  BY QuoteRowsFacts
<1>2. PICK A : s \in Seq(Seq(A)) /\ Len(s) = Len(QuoteRows(q))
  BY RowTexts
<1>3. s \in Seq(Seq(A)) /\ Len(s) = Len(QuoteRows(q)) /\ s[i] = authored[QuoteRows(q)[i]]
  BY <1>2
<1>4. i \in 1..Len(s) /\ j \in 1..Len(s[i]) /\ s[i][j] = c
  <2>1. i \in 1..Len(s)
    BY <1>1, <1>2
  <2>4. authored[QuoteRows(q)[i]] \in Seq(A)
    <3> HIDE DEF s
    <3>1. s[i] \in Seq(A)
      BY <1>3, <2>1, ElementOfSeq
    <3>2. QED
      BY <1>3, <3>1
  <2>2. DOMAIN authored[QuoteRows(q)[i]] = 1..Len(authored[QuoteRows(q)[i]])
    BY <2>4, LenProperties
  <2>3. QED
    BY <1>3, <2>1, <2>2
<1> HIDE DEF s, c
<1>5. PICK m \in 1..Len(said) : said[m] = c
  <2>1. \A h \in 1..Len(s) : \A k \in 1..Len(s[h]) : \E m \in 1..Len(said) : said[m] = s[h][k]
    BY <1>3, FlattenHolds
  <2>2. QED
    BY <1>4, <2>1
<1>6. said \in Seq(A)
  BY <1>3, FlattenType
<1>7. Len(said) \in Nat /\ DOMAIN said = 1..Len(said)
  BY <1>6, LenProperties
<1>8. Chars(q) = Distinct(said, DOMAIN Latin)
  BY DEF Chars, s
<1>9. c \notin DOMAIN Latin
  BY DEF FullWidth, c
<1> HIDE DEF said
<1>10. \E k \in 1..Len(Chars(q)) : Chars(q)[k] = c
  <2>1. \A h \in 1..Len(said) : said[h] \notin DOMAIN Latin =>
          \E k \in 1..Len(Chars(q)) : Chars(q)[k] = said[h]
    <3>1. \A skip : \A h \in 1..Len(said) : said[h] \notin skip =>
            \E k \in 1..Len(Distinct(said, skip)) : Distinct(said, skip)[k] = said[h]
      BY <1>7, DistinctHolds
    <3> DEFINE kept == Distinct(said, DOMAIN Latin)
    <3>2. \A h \in 1..Len(said) : said[h] \notin DOMAIN Latin =>
            \E k \in 1..Len(kept) : kept[k] = said[h]
      BY <3>1, Zenon
    <3>3. kept = Chars(q)
      BY <1>8
    <3> HIDE DEF kept
    <3>4. QED
      BY <3>2, <3>3
  <2>2. QED
    BY <1>5, <1>9, <2>1
<1>11. Len(Chars(q)) \in Nat /\ DOMAIN Chars(q) = 1..Len(Chars(q))
  BY <1>7, <1>8, DistinctDomain
<1>12. Position(Chars(q), c) \in DOMAIN Chars(q) /\ Chars(q)[Position(Chars(q), c)] = c
  BY <1>10, <1>11 DEF Position
<1>13. QED
  BY <1>11, <1>12 DEF c

(* Cell mode: the page is four tiles of each letter in order. *)
LEMMA CellPage ==
  ASSUME fontMode # "line", NEW q, Len(Chars(q)) \in Nat, DOMAIN Chars(q) = 1..Len(Chars(q)),
         NEW p \in 1..Len(Chars(q)), NEW k \in 1..4
  PROVE  /\ Len(PageArt(q)) = 4 * Len(Chars(q))
         /\ PageArt(q)[4 * (p - 1) + k] = <<Chars(q)[p], k>>
<1> DEFINE s == [i \in DOMAIN Chars(q) |-> [h \in 1..4 |-> <<Chars(q)[i], h>>]]
           A == {Chars(q)[i] : i \in DOMAIN Chars(q)} \X (1..4)
           n == Len(Chars(q))
<1>1. PageArt(q) = FlattenSeq(s)
  BY DEF PageArt
<1>2. \A i \in 1..n : s[i] \in Seq(A) /\ Len(s[i]) = 4
  <2> SUFFICES ASSUME NEW i \in 1..n PROVE s[i] \in Seq(A) /\ Len(s[i]) = 4
    OBVIOUS
  <2>1. s[i] = [h \in 1..4 |-> <<Chars(q)[i], h>>]
    OBVIOUS
  <2>2. \A h \in 1..4 : <<Chars(q)[i], h>> \in A
    OBVIOUS
  <2> HIDE DEF A, s
  <2>3. QED
    BY <2>1, <2>2
<1>3. s[p][k] = <<Chars(q)[p], k>>
  OBVIOUS
<1>4. s = [i \in 1..n |-> s[i]]
  OBVIOUS
<1> HIDE DEF A, s
<1>5. s \in Seq(Seq(A)) /\ Len(s) = n
  BY <1>2, <1>4
<1>6. Len(s) # 0
  BY <1>5
<1>7. /\ Len(FlattenSeq(s)) = 4 * Len(s)
      /\ \A i \in 1..Len(s), h \in 1..4 : FlattenSeq(s)[4 * (i - 1) + h] = s[i][h]
  <2>1. \A i \in 1..Len(s) : Len(s[i]) = 4
    BY <1>2, <1>5
  <2>2. QED
    BY <1>5, <1>6, <2>1, FlattenBlocks
<1>8. QED
  BY <1>1, <1>3, <1>5, <1>7

(* Line mode: every half column of a row has its place in the row's tiles. *)
LEMMA LineTilesFacts ==
  ASSUME Authored, NEW a \in DOMAIN authored
  PROVE  /\ Len(LineTiles(a)) \in Nat
         /\ LineTiles(a) \in Seq({LineTiles(a)[k] : k \in 1..Len(LineTiles(a))})
         /\ \A i \in DOMAIN authored[a], part \in {"top", "bottom"} :
              /\ Position(LineTiles(a), <<authored[a][i], part>>) \in 1..Len(LineTiles(a))
              /\ LineTiles(a)[Position(LineTiles(a), <<authored[a][i], part>>)]
                   = <<authored[a][i], part>>
<1> DEFINE said == authored[a]
           C == Range(said)
           A == C \X {"top", "bottom"}
           s == [i \in DOMAIN said |-> << <<said[i], "top">>, <<said[i], "bottom">> >>]
           tiles == LineTiles(a)
<1>1. said \in Seq(C)
  BY DEF Authored
<1>2. Len(said) \in Nat /\ DOMAIN said = 1..Len(said)
  BY <1>1, LenProperties
<1>3. tiles = Distinct(FlattenSeq(s), {})
  BY DEF LineTiles, Halves
<1>4. \A i \in 1..Len(said) :
        /\ s[i] \in Seq(A) /\ Len(s[i]) = 2
        /\ s[i][1] = <<said[i], "top">> /\ s[i][2] = <<said[i], "bottom">>
  <2> SUFFICES ASSUME NEW i \in 1..Len(said)
               PROVE  /\ s[i] \in Seq(A) /\ Len(s[i]) = 2
                      /\ s[i][1] = <<said[i], "top">> /\ s[i][2] = <<said[i], "bottom">>
    OBVIOUS
  <2>1. s[i] = << <<said[i], "top">>, <<said[i], "bottom">> >>
    BY <1>2
  <2>2. said[i] \in C
    BY <1>2 DEF Range
  <2>3. <<said[i], "top">> \in A /\ <<said[i], "bottom">> \in A
    BY <2>2
  <2> HIDE DEF A, s, C
  <2>4. QED
    BY <2>1, <2>3
<1>5. s = [i \in 1..Len(said) |-> s[i]]
  BY <1>2
<1> HIDE DEF A, s, C
<1>6. s \in Seq(Seq(A)) /\ Len(s) = Len(said)
  BY <1>2, <1>4, <1>5
<1> DEFINE flat == FlattenSeq(s)
<1>7. flat \in Seq(A)
  BY <1>6, FlattenType
<1>8. Len(flat) \in Nat /\ DOMAIN flat = 1..Len(flat)
  BY <1>7, LenProperties
<1>9. \A i \in 1..Len(said), part \in {"top", "bottom"} :
        \E m \in 1..Len(flat) : flat[m] = <<said[i], part>>
  <2> SUFFICES ASSUME NEW i \in 1..Len(said), NEW part \in {"top", "bottom"}
               PROVE  \E m \in 1..Len(flat) : flat[m] = <<said[i], part>>
    OBVIOUS
  <2>1. PICK k \in 1..Len(s[i]) : s[i][k] = <<said[i], part>>
    BY <1>4
  <2>2. QED
    <3>1. \A h \in 1..Len(s) : \A v \in 1..Len(s[h]) : \E m \in 1..Len(flat) : flat[m] = s[h][v]
      BY <1>6, FlattenHolds
    <3>2. i \in 1..Len(s)
      BY <1>6
    <3>3. \E m \in 1..Len(flat) : flat[m] = s[i][k]
      BY <3>1, <3>2
    <3> HIDE DEF flat
    <3>4. QED
      BY <2>1, <3>3
<1> HIDE DEF flat, tiles
<1>10. Len(tiles) \in Nat /\ DOMAIN tiles = 1..Len(tiles)
       /\ tiles \in Seq({tiles[k] : k \in 1..Len(tiles)})
  BY <1>3, <1>8, DistinctDomain DEF flat
<1>11. \A i \in 1..Len(said), part \in {"top", "bottom"} :
         \E k \in 1..Len(tiles) : tiles[k] = <<said[i], part>>
  <2> SUFFICES ASSUME NEW i \in 1..Len(said), NEW part \in {"top", "bottom"}
               PROVE  \E k \in 1..Len(tiles) : tiles[k] = <<said[i], part>>
    OBVIOUS
  <2>1. PICK m \in 1..Len(flat) : flat[m] = <<said[i], part>>
    BY <1>9
  <2>2. tiles = Distinct(flat, {})
    BY <1>3 DEF flat
  <2>3. \A h \in 1..Len(flat) : flat[h] \notin {} =>
          \E k \in 1..Len(tiles) : tiles[k] = flat[h]
    <3>1. \A skip : \A h \in 1..Len(flat) : flat[h] \notin skip =>
            \E k \in 1..Len(Distinct(flat, skip)) : Distinct(flat, skip)[k] = flat[h]
      BY <1>8, DistinctHolds
    <3>2. QED
      BY <2>2, <3>1, Zenon
  <2>4. QED
    BY <2>1, <2>3
<1>12. \A i \in 1..Len(said), part \in {"top", "bottom"} :
         /\ Position(tiles, <<said[i], part>>) \in 1..Len(tiles)
         /\ tiles[Position(tiles, <<said[i], part>>)] = <<said[i], part>>
  BY <1>10, <1>11 DEF Position
<1>13. QED
  BY <1>2, <1>10, <1>12 DEF tiles

(* Line mode: the page is the tiles of the first row and then of the second. *)
LEMMA LinePage ==
  ASSUME Build, Authored, fontMode = "line", NEW q \in Quotes, NEW i \in DOMAIN QuoteRows(q),
         NEW k \in 1..Len(LineTiles(QuoteRows(q)[i]))
  PROVE  LET before == IF QuoteRows(q)[i] = q THEN 0 ELSE Len(LineTiles(q))
         IN /\ Len(PageArt(q)) \in Nat
            /\ before + k \in 1..Len(PageArt(q))
            /\ PageArt(q)[before + k] = LineTiles(QuoteRows(q)[i])[k]
<1> DEFINE s == [h \in DOMAIN QuoteRows(q) |-> LineTiles(QuoteRows(q)[h])]
           x == LineTiles(q)
<1>1. /\ Len(QuoteRows(q)) \in {1, 2} /\ DOMAIN QuoteRows(q) = 1..Len(QuoteRows(q))
      /\ QuoteRows(q)[1] = q
      /\ Len(QuoteRows(q)) = 2 => QuoteRows(q)[2] = q + 128
      /\ \A h \in DOMAIN QuoteRows(q) : QuoteRows(q)[h] \in DOMAIN authored
  BY QuoteRowsFacts
<1>2. PageArt(q) = FlattenSeq(s)
  BY DEF PageArt
<1>3. q \in Nat /\ q \in DOMAIN authored
  BY QuoteFacts
<1>4. Len(x) \in Nat /\ x \in Seq({x[h] : h \in 1..Len(x)})
  BY <1>3, LineTilesFacts
<1>5. CASE Len(QuoteRows(q)) = 1
  <2>1. Len(s) = 1 /\ s[1] = x
    BY <1>1, <1>5
  <2>2. PageArt(q) = x
    BY <1>2, <2>1, FlattenOne
  <2>3. QuoteRows(q)[i] = q
    BY <1>1, <1>5
  <2>4. QED
    BY <1>4, <2>2, <2>3
<1>6. CASE Len(QuoteRows(q)) = 2
  <2> DEFINE z == q + 128
             y == LineTiles(z)
             A == {x[h] : h \in 1..Len(x)} \cup {y[h] : h \in 1..Len(y)}
  <2>1. Len(s) = 2 /\ s[1] = x /\ s[2] = y
    BY <1>1, <1>6
  <2>2. PageArt(q) = x \o y
    BY <1>2, <2>1, FlattenTwo
  <2>3. z \in DOMAIN authored
    BY <1>1, <1>6
  <2>4. Len(y) \in Nat /\ y \in Seq({y[h] : h \in 1..Len(y)})
    BY <2>3, LineTilesFacts
  <2>5. x \in Seq(A) /\ y \in Seq(A)
    BY <1>4, <2>4, SeqMonotonic
  <2> HIDE DEF A
  <2>6. /\ Len(x \o y) = Len(x) + Len(y)
        /\ \A m \in 1..(Len(x) + Len(y)) : (x \o y)[m] = IF m <= Len(x) THEN x[m] ELSE y[m - Len(x)]
    BY <2>5, ConcatProperties
  <2>7. CASE i = 1
    <3>1. QuoteRows(q)[i] = q
      BY <1>1, <2>7
    <3> HIDE DEF x, y
    <3>2. k \in 1..Len(x)
      BY <3>1 DEF x
    <3>3. k \in 1..(Len(x) + Len(y)) /\ k <= Len(x) /\ 0 + k = k
      BY <1>4, <2>4, <3>2
    <3>4. QED
      BY <1>4, <2>2, <2>4, <2>6, <3>1, <3>3 DEF x
  <2>8. CASE i = 2
    <3>1. QuoteRows(q)[i] = z /\ z # q
      BY <1>1, <1>3, <1>6, <2>8
    <3> HIDE DEF x, y
    <3>2. k \in 1..Len(y)
      BY <3>1 DEF y
    <3>3. /\ Len(x) + k \in 1..(Len(x) + Len(y)) /\ ~(Len(x) + k <= Len(x))
          /\ (Len(x) + k) - Len(x) = k
      BY <1>4, <2>4, <3>2
    <3>4. (x \o y)[Len(x) + k] = y[k]
      BY <2>6, <3>3
    <3>5. Len(PageArt(q)) \in Nat /\ Len(x) + k \in 1..Len(PageArt(q))
      BY <1>4, <2>2, <2>4, <2>6, <3>3
    <3>6. QED
      BY <2>2, <3>1, <3>4, <3>5 DEF x, y
  <2>9. i \in {1, 2}
    BY <1>1, <1>6
  <2>10. QED
    BY <2>7, <2>8, <2>9
<1>7. QED
  BY <1>1, <1>5, <1>6

(* Line mode: a row of the quote whose page is up shows the said asked for. *)
LEMMA LineRow ==
  ASSUME Build, Authored, fontMode = "line", NEW q \in Quotes, LaidFor(q),
         NEW i \in DOMAIN QuoteRows(q)
  PROVE  Shown(QuoteRows(q)[i]) = Picture(QuoteRows(q)[i])
<1> DEFINE a == QuoteRows(q)[i]
           said == authored[a]
           n == Len(said)
           tiles == LineTiles(a)
           before == IF a = q THEN 0 ELSE Len(LineTiles(q))
           tile(half) == Base(q) + before + Position(tiles, half) - 1
           both(j) == << <<said[j], "top">>, <<said[j], "bottom">> >>
           s == [j \in DOMAIN said |-> CharPicture(said[j])]
<1>1. a \in DOMAIN authored /\ cells[a] = RowCells(q, a) /\ q \in DOMAIN authored
  BY QuoteRowsFacts, QuoteFacts
<1>2. said \in Seq(Range(said))
  BY <1>1 DEF Authored
<1>3. n \in Nat /\ DOMAIN said = 1..n
  BY <1>2, LenProperties
<1>4. cells[a] = [j \in 1..n |-> <<tile(<<said[j], "top">>), tile(<<said[j], "bottom">>)>>]
  BY <1>1, <1>3 DEF RowCells, LineCellsOf
<1>5. before \in Nat /\ Base(q) \in Nat
  BY <1>1, LineTilesFacts, QuoteFacts
<1>6. \A j \in 1..n, part \in {"top", "bottom"} : Art(tile(<<said[j], part>>)) = <<said[j], part>>
  <2> SUFFICES ASSUME NEW j \in 1..n, NEW part \in {"top", "bottom"}
               PROVE  Art(tile(<<said[j], part>>)) = <<said[j], part>>
    OBVIOUS
  <2> DEFINE k == Position(tiles, <<said[j], part>>)
             m == before + k
  <2>1. Len(tiles) \in Nat /\ k \in 1..Len(tiles) /\ tiles[k] = <<said[j], part>>
    BY <1>1, <1>3, LineTilesFacts
  <2>2. Len(PageArt(q)) \in Nat /\ m \in 1..Len(PageArt(q)) /\ PageArt(q)[m] = tiles[k]
    <3>1. \A h \in 1..Len(tiles) :
            /\ Len(PageArt(q)) \in Nat
            /\ before + h \in 1..Len(PageArt(q))
            /\ PageArt(q)[before + h] = tiles[h]
      BY LinePage
    <3> HIDE DEF k, before, tiles
    <3>2. QED
      BY <2>1, <3>1
  <2>3. Art(Base(q) + m - 1) = PageArt(q)[m]
    BY <2>2, PageTileArt
  <2> HIDE DEF k, before
  <2>4. Base(q) + before + k - 1 = Base(q) + m - 1
    BY <1>5, <2>1
  <2>5. QED
    BY <2>1, <2>2, <2>3, <2>4 DEF k
<1> HIDE DEF tile
<1>7. Shown(a) = [j \in 1..n |-> both(j)]
  <2>1. DOMAIN cells[a] = 1..n
    BY <1>4
  <2>2. \A j \in 1..n : <<Art(cells[a][j][1]), Art(cells[a][j][2])>> = both(j)
    BY <1>4, <1>6
  <2>3. QED
    BY <2>1, <2>2 DEF Shown
<1>8. Picture(a) = FlattenSeq(s)
  BY DEF Picture
<1>9. s = [j \in 1..n |-> << both(j) >>]
  BY <1>3 DEF CharPicture
<1> DEFINE A == {both(j) : j \in 1..n}
<1>10. s \in Seq(Seq(A)) /\ Len(s) = n /\ \A j \in 1..n : Len(s[j]) = 1 /\ s[j][1] = both(j)
  <2>1. \A j \in 1..n : both(j) \in A
    OBVIOUS
  <2> HIDE DEF A, both, s
  <2>2. QED
    BY <1>3, <1>9, <2>1
<1> HIDE DEF A, s, both
<1>11. CASE n = 0
  <2>1. FlattenSeq(s) = s
    BY <1>10, <1>11 DEF FlattenSeq
  <2>2. s = <<>> /\ [j \in 1..n |-> both(j)] = <<>>
    BY <1>9, <1>11
  <2>3. QED
    BY <1>7, <1>8, <2>1, <2>2 DEF a
<1>12. CASE n # 0
  <2> DEFINE flat == FlattenSeq(s)
  <2>0. 1 \in {1, 4} /\ Len(s) # 0 /\ \A j \in 1..Len(s) : Len(s[j]) = 1
    BY <1>10, <1>12
  <2>1. /\ flat \in Seq(A) /\ Len(flat) = 1 * Len(s)
        /\ \A j \in 1..Len(s), k \in 1..1 : flat[1 * (j - 1) + k] = s[j][k]
    BY <1>10, <2>0, FlattenBlocks
  <2> HIDE DEF flat
  <2>2. Len(flat) = n
    BY <1>3, <1>10, <2>1
  <2>3. \A j \in 1..n : flat[j] = both(j)
    <3> SUFFICES ASSUME NEW j \in 1..n PROVE flat[j] = both(j)
      OBVIOUS
    <3>1. flat[1 * (j - 1) + 1] = s[j][1]
      BY <1>10, <2>1
    <3>2. 1 * (j - 1) + 1 = j
      BY <1>3
    <3>3. QED
      BY <1>10, <3>1, <3>2
  <2>4. flat = [j \in 1..n |-> both(j)]
    BY <2>1, <2>2, <2>3, LenProperties
  <2>5. QED
    BY <1>7, <1>8, <2>4 DEF a, flat
<1>13. QED
  BY <1>11, <1>12

(* Cell mode: every cell of a letter shows its part of the letter's picture. *)
LEMMA CharShown ==
  ASSUME Build, Authored, fontMode = "cell", NEW q \in Quotes, LaidFor(q),
         NEW i \in DOMAIN QuoteRows(q), NEW j \in DOMAIN authored[QuoteRows(q)[i]]
  PROVE  LET c == authored[QuoteRows(q)[i]][j]
         IN /\ CharCells(q, c) = [k \in 1..Len(CharCells(q, c)) |-> CharCells(q, c)[k]]
            /\ CharPicture(c) = [k \in 1..Len(CharPicture(c)) |-> CharPicture(c)[k]]
            /\ Len(CharCells(q, c)) \in Nat
            /\ Len(CharCells(q, c)) = Len(CharPicture(c))
            /\ \A k \in 1..Len(CharCells(q, c)) :
                 CharPicture(c)[k] = <<Art(CharCells(q, c)[k][1]), Art(CharCells(q, c)[k][2])>>
<1> DEFINE c == authored[QuoteRows(q)[i]][j]
<1>0. Base(q) \in Nat
  BY QuoteFacts
<1>1. CASE FullWidth(c)
  <2> DEFINE p == Position(Chars(q), c)
             t == Base(q) + 4 * (p - 1)
  <2>1. Len(Chars(q)) \in Nat /\ p \in 1..Len(Chars(q)) /\ Chars(q)[p] = c
    BY <1>1, CharsHold
  <2>2. DOMAIN Chars(q) = 1..Len(Chars(q))
    BY CharsDomain
  <2> HIDE DEF p, c
  <2>3. \A k \in 1..4 : Art(Base(q) + 4 * (p - 1) + k - 1) = <<c, k>>
    <3> SUFFICES ASSUME NEW k \in 1..4 PROVE Art(Base(q) + 4 * (p - 1) + k - 1) = <<c, k>>
      OBVIOUS
    <3> DEFINE m == 4 * (p - 1) + k
    <3>1. Len(PageArt(q)) = 4 * Len(Chars(q)) /\ PageArt(q)[m] = <<Chars(q)[p], k>>
      BY <2>1, <2>2, CellPage
    <3>2. m \in 1..Len(PageArt(q)) /\ Len(PageArt(q)) \in Nat
      BY <2>1, <3>1
    <3>3. Art(Base(q) + m - 1) = PageArt(q)[m]
      BY <3>2, PageTileArt
    <3>4. Base(q) + 4 * (p - 1) + k - 1 = Base(q) + m - 1
      BY <1>0, <2>1
    <3>5. QED
      BY <2>1, <3>1, <3>3, <3>4
  <2>4. Art(t) = <<c, 1>> /\ Art(t + 1) = <<c, 2>> /\ Art(t + 2) = <<c, 3>> /\ Art(t + 3) = <<c, 4>>
    <3>1. /\ t + 1 - 1 = t /\ t + 2 - 1 = t + 1 /\ t + 3 - 1 = t + 2 /\ t + 4 - 1 = t + 3
      BY <1>0, <2>1
    <3>2. \A k \in 1..4 : Art(t + k - 1) = <<c, k>>
      BY <2>3
    <3> HIDE DEF t
    <3>3. Art(t + 1 - 1) = <<c, 1>> /\ Art(t + 2 - 1) = <<c, 2>> /\ Art(t + 3 - 1) = <<c, 3>>
          /\ Art(t + 4 - 1) = <<c, 4>>
      BY <3>2
    <3>4. QED
      BY <3>1, <3>3
  <2>5. CharCells(q, c) = << <<t, t + 2>>, <<t + 1, t + 3>> >>
    BY <1>1 DEF CharCells, p, c
  <2>6. CharPicture(c) = << << <<c, 1>>, <<c, 3>> >>, << <<c, 2>>, <<c, 4>> >> >>
    BY <1>1 DEF CharPicture, c
  <2> HIDE DEF t
  <2>7. QED
    BY <2>4, <2>5, <2>6 DEF c
<1>2. CASE ~FullWidth(c)
  <2> DEFINE l == LatinCell(c)
  <2>1. c \in DOMAIN Latin
    BY <1>2 DEF FullWidth
  <2> HIDE DEF c
  <2>2. /\ l = <<l[1], l[2]>> /\ l[1] \in Nat /\ l[2] \in Nat
        /\ l[1] < LatinFontTiles /\ l[2] < LatinFontTiles
    <3>1. Latin[c] \in Nat /\ Latin[c] + 16 < LatinFontTiles
      BY <2>1, LatinAssumption
    <3>2. l = <<Latin[c], Latin[c]>> \/ l = <<Latin[c], Latin[c] + 16>>
      BY Zenon DEF LatinCell
    <3> DEFINE z == Latin[c]
    <3> HIDE DEF l, z
    <3>3. z \in Nat /\ z + 16 < LatinFontTiles /\ (l = <<z, z>> \/ l = <<z, z + 16>>)
      BY <3>1, <3>2 DEF z
    <3>4. QED
      BY <3>3 DEF LatinFontTiles
  <2>3. Art(l[1]) = <<"font", l[1]>> /\ Art(l[2]) = <<"font", l[2]>>
    BY <2>2, FontTileArt
  <2>4. CharCells(q, c) = << l >>
    BY <1>2 DEF CharCells, c
  <2>5. CharPicture(c) = << << <<"font", l[1]>>, <<"font", l[2]>> >> >>
    BY <1>2 DEF CharPicture, c
  <2> HIDE DEF l
  <2>6. QED
    BY <2>3, <2>4, <2>5 DEF c
<1>3. QED
  BY <1>1, <1>2

(* Cell mode: a row of the quote whose page is up shows the said asked for. *)
LEMMA CellRow ==
  ASSUME Build, Authored, fontMode = "cell", NEW q \in Quotes, LaidFor(q),
         NEW i \in DOMAIN QuoteRows(q)
  PROVE  Shown(QuoteRows(q)[i]) = Picture(QuoteRows(q)[i])
<1> DEFINE a == QuoteRows(q)[i]
           said == authored[a]
           n == Len(said)
           s == [j \in DOMAIN said |-> CharCells(q, said[j])]
           t == [j \in DOMAIN said |-> CharPicture(said[j])]
           A == UNION {{s[j][k] : k \in 1..Len(s[j])} : j \in 1..n}
           B == UNION {{t[j][k] : k \in 1..Len(t[j])} : j \in 1..n}
           both(x) == <<Art(x[1]), Art(x[2])>>
           R == {<<x, both(x)>> : x \in A}
<1>1. a \in DOMAIN authored /\ cells[a] = RowCells(q, a)
  BY QuoteRowsFacts
<1>2. n \in Nat /\ DOMAIN said = 1..n
  <2>1. said \in Seq(Range(said))
    BY <1>1 DEF Authored
  <2>2. QED
    BY <2>1, LenProperties
<1>3. cells[a] = FlattenSeq(s)
  BY <1>1 DEF RowCells
<1>4. Picture(a) = FlattenSeq(t)
  BY DEF Picture
<1>5. \A j \in 1..n :
        /\ Len(s[j]) \in Nat /\ Len(s[j]) = Len(t[j])
        /\ s[j] = [k \in 1..Len(s[j]) |-> s[j][k]]
        /\ t[j] = [k \in 1..Len(s[j]) |-> t[j][k]]
        /\ \A k \in 1..Len(s[j]) : t[j][k] = both(s[j][k])
  <2> SUFFICES ASSUME NEW j \in 1..n
               PROVE  /\ Len(s[j]) \in Nat /\ Len(s[j]) = Len(t[j])
                      /\ s[j] = [k \in 1..Len(s[j]) |-> s[j][k]]
                      /\ t[j] = [k \in 1..Len(s[j]) |-> t[j][k]]
                      /\ \A k \in 1..Len(s[j]) : t[j][k] = both(s[j][k])
    OBVIOUS
  <2> DEFINE c == said[j]
             x == CharCells(q, c)
             y == CharPicture(c)
  <2>1. j \in DOMAIN authored[QuoteRows(q)[i]]
    BY <1>2
  <2>2. /\ x = [k \in 1..Len(x) |-> x[k]] /\ y = [k \in 1..Len(y) |-> y[k]]
        /\ Len(x) \in Nat /\ Len(x) = Len(y)
        /\ \A k \in 1..Len(x) : y[k] = <<Art(x[k][1]), Art(x[k][2])>>
    BY <2>1, CharShown
  <2>3. s[j] = x /\ t[j] = y
    BY <1>2
  <2> HIDE DEF x, y, s, t
  <2>4. QED
    BY <2>2, <2>3
<1>6. s = [j \in 1..n |-> s[j]] /\ t = [j \in 1..n |-> t[j]]
  BY <1>2
<1> HIDE DEF s, t
<1>7. s \in Seq(Seq(A)) /\ Len(s) = n
  <2>1. \A j \in 1..n : s[j] \in Seq(A)
    <3> SUFFICES ASSUME NEW j \in 1..n PROVE s[j] \in Seq(A)
      OBVIOUS
    <3>1. s[j] \in Seq({s[j][k] : k \in 1..Len(s[j])})
      <4> DEFINE f == s[j]
                 m == Len(f)
      <4>1. m \in Nat /\ f = [k \in 1..m |-> f[k]]
        BY <1>5
      <4> HIDE DEF f, m
      <4>2. f \in Seq({f[k] : k \in 1..m})
        BY <4>1, ListLen
      <4>3. QED
        BY <4>2 DEF f, m
    <3>2. {s[j][k] : k \in 1..Len(s[j])} \subseteq A
      OBVIOUS
    <3> HIDE DEF A
    <3>3. QED
      BY <3>1, <3>2, SeqMonotonic
  <2> HIDE DEF A
  <2>2. QED
    BY <1>2, <1>6, <2>1
<1>8. t \in Seq(Seq(B)) /\ Len(t) = n
  <2>1. \A j \in 1..n : t[j] \in Seq(B)
    <3> SUFFICES ASSUME NEW j \in 1..n PROVE t[j] \in Seq(B)
      OBVIOUS
    <3>1. t[j] = [k \in 1..Len(t[j]) |-> t[j][k]] /\ Len(t[j]) \in Nat
      BY <1>5
    <3>2. t[j] \in Seq({t[j][k] : k \in 1..Len(t[j])})
      BY <3>1, ListLen
    <3>3. {t[j][k] : k \in 1..Len(t[j])} \subseteq B
      OBVIOUS
    <3> HIDE DEF B
    <3>4. QED
      BY <3>2, <3>3, SeqMonotonic
  <2> HIDE DEF B
  <2>2. QED
    BY <1>2, <1>6, <2>1
<1>9. \A j \in 1..Len(s) :
        /\ Len(s[j]) = Len(t[j])
        /\ \A k \in 1..Len(s[j]) : <<s[j][k], t[j][k]>> \in R
  <2> SUFFICES ASSUME NEW j \in 1..Len(s)
               PROVE  /\ Len(s[j]) = Len(t[j])
                      /\ \A k \in 1..Len(s[j]) : <<s[j][k], t[j][k]>> \in R
    OBVIOUS
  <2>1. j \in 1..n
    BY <1>7
  <2>2. \A k \in 1..Len(s[j]) : s[j][k] \in A
    BY <2>1
  <2> HIDE DEF A, both
  <2>3. Len(s[j]) = Len(t[j]) /\ \A k \in 1..Len(s[j]) : t[j][k] = both(s[j][k])
    BY <1>5, <2>1
  <2>4. \A k \in 1..Len(s[j]) : <<s[j][k], t[j][k]>> \in R
    BY <2>2, <2>3
  <2>5. QED
    BY <2>3, <2>4
<1> DEFINE flat == FlattenSeq(s)
           pic == FlattenSeq(t)
<1> HIDE DEF A, B
<1>10. /\ flat \in Seq(A) /\ pic \in Seq(B) /\ Len(flat) = Len(pic)
       /\ \A k \in 1..Len(flat) : <<flat[k], pic[k]>> \in R
  <2> HIDE DEF R
  <2>1. Len(s) = Len(t)
    BY <1>7, <1>8
  <2>2. /\ FlattenSeq(s) \in Seq(A) /\ FlattenSeq(t) \in Seq(B)
        /\ Len(FlattenSeq(s)) = Len(FlattenSeq(t))
        /\ \A k \in 1..Len(FlattenSeq(s)) : <<FlattenSeq(s)[k], FlattenSeq(t)[k]>> \in R
    <3> HIDE DEF flat, pic
    <3>1. QED
      BY <1>7, <1>8, <1>9, <2>1, FlattenAlike
  <2>3. QED
    BY <2>2
<1> HIDE DEF flat, pic, both
<1>11. \A k \in 1..Len(flat) : pic[k] = both(flat[k])
  BY <1>10
<1>12. DOMAIN flat = 1..Len(flat) /\ pic = [k \in 1..Len(flat) |-> pic[k]]
  BY <1>10, LenProperties
<1>13. pic = [k \in DOMAIN flat |-> both(flat[k])]
  BY <1>11, <1>12
<1>14. Shown(a) = [k \in DOMAIN flat |-> both(flat[k])]
  BY <1>3 DEF Shown, both, flat
<1>15. QED
  BY <1>4, <1>13, <1>14 DEF pic

(* A page is a sequence of tiles. *)
LEMMA PageLen ==
  ASSUME Build, Authored, NEW q \in Quotes
  PROVE  Len(PageArt(q)) \in Nat
<1>1. CASE fontMode = "line"
  <2> DEFINE rows == QuoteRows(q)
             s == [h \in DOMAIN rows |-> LineTiles(rows[h])]
             A == UNION {{s[h][k] : k \in 1..Len(s[h])} : h \in DOMAIN rows}
  <2>1. /\ Len(rows) \in Nat /\ DOMAIN rows = 1..Len(rows)
        /\ \A h \in DOMAIN rows : rows[h] \in DOMAIN authored
    BY QuoteRowsFacts
  <2>2. s = [h \in 1..Len(rows) |-> s[h]]
    BY <2>1
  <2>3. \A h \in 1..Len(rows) : s[h] \in Seq({s[h][k] : k \in 1..Len(s[h])})
    <3> SUFFICES ASSUME NEW h \in 1..Len(rows)
                 PROVE  s[h] \in Seq({s[h][k] : k \in 1..Len(s[h])})
      OBVIOUS
    <3> DEFINE x == LineTiles(rows[h])
    <3>1. x \in Seq({x[k] : k \in 1..Len(x)})
      BY <2>1, LineTilesFacts
    <3>2. s[h] = x
      BY <2>1
    <3> HIDE DEF x, s
    <3>3. QED
      BY <3>1, <3>2
  <2>4. \A h \in 1..Len(rows) : {s[h][k] : k \in 1..Len(s[h])} \subseteq A
    BY <2>1
  <2>5. PageArt(q) = FlattenSeq(s)
    BY <1>1 DEF PageArt
  <2> HIDE DEF s, A, rows
  <2>6. \A h \in 1..Len(rows) : s[h] \in Seq(A)
    BY <2>3, <2>4, SeqMonotonic
  <2>7. s \in Seq(Seq(A))
    BY <2>1, <2>2, <2>6
  <2>8. PageArt(q) \in Seq(A)
    BY <2>5, <2>7, FlattenType
  <2>9. QED
    BY <2>8, LenProperties
<1>2. CASE fontMode # "line"
  <2>1. Len(Chars(q)) \in Nat /\ DOMAIN Chars(q) = 1..Len(Chars(q)) /\ Chars(q) # <<>>
    BY <1>2, CharsDomain, QuoteFacts
  <2>2. Len(Chars(q)) # 0
    <3> DEFINE x == Chars(q)
    <3>1. x \in Seq({x[k] : k \in 1..Len(x)})
      BY CharsDomain
    <3> HIDE DEF x
    <3>2. x # <<>> => Len(x) # 0
      BY <3>1, EmptySeq
    <3>3. QED
      BY <2>1, <3>2 DEF x
  <2>3. 1 \in 1..Len(Chars(q)) /\ 1 \in 1..4
    BY <2>1, <2>2
  <2>4. Len(PageArt(q)) = 4 * Len(Chars(q))
    BY <1>2, <2>1, <2>3, CellPage
  <2>5. QED
    BY <2>1, <2>4
<1>3. QED
  BY <1>1, <1>2

(* The words of a row, the guard of a quote. *)
LEMMA GuardFacts ==
  ASSUME Build, NEW q \in Quotes
  PROVE  /\ Len(Guard(q)) \in MinGuardWords..LineCells
         /\ Guard(q) = SubSeq(RowWords(q), 1, Len(Guard(q)))
         /\ Telling(q, Len(Guard(q)))
<1> DEFINE lengths == {n \in MinGuardWords..LineCells : Telling(q, n)}
           n == CHOOSE k \in lengths : \A m \in lengths : k <= m
<1>1. Guard(q) # <<>>
  BY QuoteFacts
<1>2. lengths # {} /\ Guard(q) = SubSeq(RowWords(q), 1, n)
  BY <1>1 DEF Guard
<1>3. n \in lengths
  <2>1. lengths \subseteq Nat
    BY PagesAssumption
  <2> HIDE DEF lengths
  <2>2. \E k \in lengths : \A m \in lengths : k <= m
    BY <1>2, <2>1, LeastNatural, Zenon
  <2>3. QED
    BY <2>2
<1>4. n \in MinGuardWords..LineCells /\ n \in Nat /\ Telling(q, n)
  BY <1>3, PagesAssumption
<1> HIDE DEF n, lengths
<1>5. Len(SubSeq(RowWords(q), 1, n)) = n
  <2>1. \A w : SubSeq(w, 1, n) = [k \in 1..n |-> w[k]]
    BY <1>4
  <2>2. QED
    BY <1>4, <2>1
<1>6. QED
  BY <1>2, <1>4, <1>5

(* With the whole first row of a quote on the map its own page matches, and
   no other. *)
LEMMA OnlyItsPageMatches ==
  ASSUME Build, row \in PrefixPool, SurfaceOf(row) = screen, typed = LineCells,
         row \in Quotes
  PROVE  Matching = {row}
<1>1. MapWords = RowWords(row)
  <2> DEFINE w == RowWords(row)
  <2>1. MapWords = [c \in 1..LineCells |-> w[c]]
    <3>1. \A c \in 1..LineCells : c <= typed
      BY PagesAssumption
    <3> HIDE DEF w
    <3>2. QED
      BY <3>1 DEF MapWords, w
  <2>2. w = [c \in 1..LineCells |-> w[c]]
    BY DEF RowWords
  <2>3. QED
    BY <2>1, <2>2
<1>2. DOMAIN pages = Quotes
  BY DEF Build
<1>3. \A q \in Quotes : pages[q].guard = Guard(q)
  BY QuoteFacts
<1>4. row \in Matching
  <2>1. SubSeq(RowWords(row), 1, Len(Guard(row))) = Guard(row)
    BY GuardFacts
  <2>2. QED
    BY <1>1, <1>2, <1>3, <2>1 DEF Matching
<1>5. ASSUME NEW q \in Matching PROVE q = row
  <2>1. q \in Quotes /\ SubSeq(RowWords(row), 1, Len(Guard(q))) = Guard(q)
    BY <1>1, <1>2, <1>3 DEF Matching
  <2>2. /\ Guard(q) = SubSeq(RowWords(q), 1, Len(Guard(q)))
        /\ Telling(q, Len(Guard(q)))
    BY <2>1, GuardFacts
  <2>3. SUFFICES ASSUME q # row PROVE FALSE
    OBVIOUS
  <2>4. SubSeq(RowWords(row), 1, Len(Guard(q))) # SubSeq(RowWords(q), 1, Len(Guard(q)))
    BY <2>2, <2>3 DEF Telling
  <2>5. QED
    BY <2>1, <2>2, <2>4
<1>6. QED
  BY <1>4, <1>5

(* Everything a step of the game leaves alone the build does too. *)
LEMMA BuildKept ==
  ASSUME UNCHANGED built
  PROVE  Build' <=> Build
  BY DEF built, Build, CellsOf, BuildStands, Quotes, PageArt, Base, Guard, Telling, RowWords,
         EncodeRow, RowCells, LineCellsOf, CharCells, Rewritten, LineTiles, Halves, Chars,
         QuoteRows, CellCount

(* The inductive invariant: the build stands as it was made, the row being
   drawn can stand on the screen that is up, the page window is that screen's,
   and once the row is typed and looked at its own page is what lies there. *)
PageInv ==
  /\ Build /\ Authored
  /\ screen \in Surfaces /\ row \in PrefixPool /\ SurfaceOf(row) = screen
  /\ DOMAIN vram = PageWindow(screen)
  /\ (typed = LineCells /\ polled /\ row \in DOMAIN pages) => LaidFor(row)

(* The texts and the pages stay as well. *)
LEMMA PagesKept ==
  ASSUME UNCHANGED built
  PROVE  /\ (Authored' <=> Authored)
         /\ pages' = pages
  BY DEF built, Authored

(* After the engine has looked at the whole row its page lies there. *)
LEMMA PollLays ==
  ASSUME PageInv, Poll
  PROVE  (typed = LineCells /\ row \in DOMAIN pages) => LaidFor(row)'
<1> SUFFICES ASSUME typed = LineCells, row \in DOMAIN pages PROVE LaidFor(row)'
  OBVIOUS
<1>1. Build /\ row \in Quotes /\ row \in PrefixPool /\ SurfaceOf(row) = screen
  BY DEF PageInv, Build
<1>2. Matching = {row}
  BY <1>1, OnlyItsPageMatches
<1>3. row \in Nat /\ pages[row].base = Base(row) /\ Base(row) \in Nat
  BY <1>1, QuoteFacts
<1>4. Max({row}) = row
  BY <1>3 DEF Max
<1>5. vram' = [tile \in DOMAIN vram |-> Laid(tile)] /\ UNCHANGED <<built, screen, row, typed>>
  BY DEF Poll
<1>6. PageTiles(row) \subseteq DOMAIN vram
  <2>1. /\ SurfaceOf(row).first \in Nat /\ SurfaceOf(row).last \in Nat
        /\ SurfaceOf(row).first <= Base(row) /\ pages[row].art = PageArt(row)
        /\ Base(row) + Len(PageArt(row)) - 1 <= SurfaceOf(row).last
    BY <1>1, QuoteFacts
  <2>0. Len(PageArt(row)) \in Nat
    BY <1>1, PageLen DEF PageInv
  <2> DEFINE e == Base(row) + Len(PageArt(row)) - 1
             f == SurfaceOf(row).first
             g == SurfaceOf(row).last
             b == Base(row)
  <2>2. DOMAIN vram = f..g
    BY <1>1 DEF PageInv, PageWindow
  <2>3. PageTiles(row) = b..e
    BY <1>3, <2>1 DEF PageTiles
  <2> HIDE DEF e
  <2>4. \A t \in b..e : t \in f..g
    <3>1. f <= b /\ e <= g /\ f \in Nat /\ g \in Nat /\ b \in Nat /\ e \in Int
      BY <1>3, <2>0, <2>1 DEF e
    <3> HIDE DEF f, b, g
    <3>2. SUFFICES ASSUME NEW t \in b..e PROVE t \in f..g
      OBVIOUS
    <3>3. t \in Int /\ b <= t /\ t <= e
      BY <3>1
    <3>4. QED
      BY <3>1, <3>3
  <2>5. QED
    BY <2>2, <2>3, <2>4
<1>7. \A t \in PageTiles(row) : vram'[t] = pages[row].art[t - pages[row].base + 1]
  <2> SUFFICES ASSUME NEW t \in PageTiles(row)
               PROVE  vram'[t] = pages[row].art[t - pages[row].base + 1]
    OBVIOUS
  <2>1. {q \in Matching : t \in PageTiles(q)} = {row}
    BY <1>2
  <2>2. Laid(t) = pages[row].art[t - pages[row].base + 1]
    BY <1>4, <2>1 DEF Laid
  <2>3. QED
    BY <1>5, <1>6, <2>2
<1>8. /\ row' = row /\ pages' = pages
      /\ PageTiles(row)' = PageTiles(row) /\ SurfaceOf(row)' = SurfaceOf(row)
  BY <1>5 DEF built, PageTiles, SurfaceOf
<1>9. DOMAIN vram' = PageWindow(SurfaceOf(row))
  BY <1>1, <1>5 DEF PageInv
<1>10. QED
  BY <1>7, <1>8, <1>9 DEF LaidFor, PageWindow

(* PageInv holds when the first screen opens. *)
LEMMA PageInvInit == PagesInit => PageInv
  BY DEF PagesInit, PageInv, Authored, Free, PageWindow

(* No step of the game or the engine breaks PageInv. *)
LEMMA PageInvStep == PageInv /\ [PagesNext]_pageVars => PageInv'
<1> SUFFICES ASSUME PageInv, [PagesNext]_pageVars PROVE PageInv'
  OBVIOUS
<1>1. UNCHANGED built
  BY DEF PagesNext, pageVars, OpenScreen, NextQuote, Type, Poll
<1>2. Build' /\ Authored' /\ pages' = pages
  BY <1>1, BuildKept, PagesKept DEF PageInv
<1>3. CASE OpenScreen
  <2>1. /\ screen' \in Surfaces /\ row' \in PrefixPool /\ SurfaceOf(row)' = screen'
        /\ DOMAIN vram' = PageWindow(screen')
    BY <1>3 DEF OpenScreen, Free, PrefixPool, SurfaceOf
  <2>2. QED
    BY <1>2, <1>3, <2>1 DEF OpenScreen, PageInv, PrefixPool, PageWindow
<1>4. CASE NextQuote
  BY <1>2, <1>4 DEF NextQuote, PageInv, PrefixPool, PageWindow, SurfaceOf
<1>5. CASE Type
  BY <1>2, <1>5 DEF Type, PageInv, PrefixPool, PageWindow, SurfaceOf
<1>6. CASE Poll
  <2>1. screen' = screen /\ row' = row /\ typed' = typed /\ DOMAIN vram' = DOMAIN vram
    BY <1>6 DEF Poll
  <2>2. (typed' = LineCells /\ row' \in DOMAIN pages') => LaidFor(row)'
    BY <1>2, <1>6, <2>1, PollLays
  <2>3. QED
    BY <1>2, <2>1, <2>2 DEF PageInv, PrefixPool, PageWindow, SurfaceOf
<1>7. CASE UNCHANGED pageVars
  <2>1. LaidFor(row)' <=> LaidFor(row)
    BY <1>7 DEF pageVars, built, LaidFor, PageTiles, PageWindow, SurfaceOf
  <2>2. QED
    BY <1>2, <1>7, <2>1 DEF pageVars, PageInv, PrefixPool, PageWindow, SurfaceOf
<1>8. QED
  BY <1>3, <1>4, <1>5, <1>6, <1>7 DEF PagesNext

(* PageInv says all that PageIsItsQuotes asks for. *)
LEMMA PageInvShows == PageInv => PageIsItsQuotes
<1> SUFFICES ASSUME PageInv, typed = LineCells, polled, row \in DOMAIN pages,
                    NEW i \in DOMAIN QuoteRows(row)
             PROVE  Shown(QuoteRows(row)[i]) = Picture(QuoteRows(row)[i])
  BY DEF PageIsItsQuotes
<1>1. Build /\ Authored /\ LaidFor(row) /\ row \in Quotes
  BY DEF PageInv, Build
<1>2. fontMode = "line" \/ fontMode = "cell"
  BY <1>1 DEF Authored
<1>3. QED
  BY <1>1, <1>2, LineRow, CellRow

(* PageIsItsQuotes, for every set of screens, every dialogue, said and letter,
   in both font modes and after any sequence of screens, quotes and looks. *)
THEOREM PagesShowTheirQuotes == PagesSpec => []PageIsItsQuotes
<1>1. PagesInit => PageInv
  BY PageInvInit
<1>2. PageInv /\ [PagesNext]_pageVars => PageInv'
  BY PageInvStep
<1>3. PageInv => PageIsItsQuotes
  BY PageInvShows
<1>4. QED
  BY <1>1, <1>2, <1>3, PTL DEF PagesSpec
-----------------------------------------------------------------------------
(* The windows of the generators, in order. *)

(* Windows with different first addresses are listed once each, in order. *)
LEMMA InOrderLists ==
  ASSUME NEW S, IsFiniteSet(S), \A w \in S : w \subseteq Nat /\ w # {},
         \A v, w \in S : Min(v) = Min(w) => v = w
  PROVE  /\ InOrder(S) \in Seq(S)
         /\ \A w \in S : \E k \in DOMAIN InOrder(S) : InOrder(S)[k] = w
<1> DEFINE n == Cardinality(S)
           upto(w) == {v \in S : Min(v) <= Min(w)}
           rank == [w \in S |-> Cardinality(upto(w))]
           s == InOrder(S)
<1>1. n \in Nat
  BY FS_CardinalityType
<1>2. \A w \in S : Min(w) \in Nat
  <2> SUFFICES ASSUME NEW w \in S PROVE Min(w) \in Nat
    OBVIOUS
  <2>1. \E i \in w : \A j \in w : i <= j
    BY LeastNatural, Zenon
  <2>2. Min(w) \in w
    BY <2>1 DEF Min
  <2>3. QED
    BY <2>2
<1>3. \A w \in S : /\ upto(w) \subseteq S /\ IsFiniteSet(upto(w))
                   /\ Cardinality(upto(w)) \in 1..n
  <2> SUFFICES ASSUME NEW w \in S
               PROVE  /\ upto(w) \subseteq S /\ IsFiniteSet(upto(w))
                      /\ Cardinality(upto(w)) \in 1..n
    OBVIOUS
  <2>1. upto(w) \subseteq S /\ w \in upto(w)
    BY <1>2
  <2>2. IsFiniteSet(upto(w)) /\ Cardinality(upto(w)) <= n
    BY <2>1, FS_Subset
  <2>3. Cardinality(upto(w)) \in Nat /\ Cardinality(upto(w)) # 0
    BY <2>1, <2>2, FS_CardinalityType, FS_EmptySet
  <2> HIDE DEF upto
  <2>4. QED
    BY <1>1, <2>1, <2>2, <2>3
<1>4. \A v, w \in S : Cardinality(upto(v)) = Cardinality(upto(w)) => v = w
  <2>1. ASSUME NEW v \in S, NEW w \in S, Min(v) < Min(w)
        PROVE  Cardinality(upto(v)) # Cardinality(upto(w))
    <3>1. upto(v) \subseteq upto(w)
      BY <1>2, <2>1
    <3>2. w \in upto(w) /\ w \notin upto(v)
      BY <1>2, <2>1
    <3>3. upto(v) # upto(w)
      BY <3>2
    <3> HIDE DEF upto
    <3>4. QED
      BY <1>3, <3>1, <3>3, FS_Subset
  <2>2. \A v, w \in S : Min(v) < Min(w) \/ Min(w) < Min(v) \/ v = w
    BY <1>2
  <2> HIDE DEF upto
  <2>3. QED
    BY <2>1, <2>2
<1>5. rank \in Surjection(S, 1..n)
  <2> HIDE DEF upto
  <2>1. rank \in Injection(S, 1..n)
    BY <1>3, <1>4 DEF Injection, IsInjective
  <2>2. IsFiniteSet(1..n) /\ Cardinality(1..n) = n
    BY <1>1, FS_Interval
  <2>3. QED
    BY <2>1, <2>2, FS_Injection
<1>6. \A k \in 1..n : \E w \in S : Cardinality(upto(w)) = k
  BY <1>5 DEF Surjection
<1>7. s = [k \in 1..n |-> CHOOSE w \in S : Cardinality(upto(w)) = k]
  BY DEF InOrder
<1> HIDE DEF upto, s, n
<1>8. \A k \in 1..n : s[k] \in S /\ Cardinality(upto(s[k])) = k
  BY <1>6, <1>7
<1>9. s \in Seq(S) /\ DOMAIN s = 1..n
  BY <1>1, <1>7, <1>8
<1>10. \A w \in S : \E k \in DOMAIN s : s[k] = w
  <2> SUFFICES ASSUME NEW w \in S PROVE \E k \in DOMAIN s : s[k] = w
    OBVIOUS
  <2> DEFINE k == Cardinality(upto(w))
  <2>1. k \in 1..n
    BY <1>3
  <2>2. s[k] = w
    BY <1>4, <1>8, <2>1
  <2>3. QED
    BY <1>9, <2>1, <2>2
<1>11. QED
  BY <1>9, <1>10 DEF s

(* Disjoint windows of the cart begin apart. *)
LEMMA ApartBegin ==
  ASSUME NEW v, NEW w, v \subseteq Nat, w \subseteq Nat, v # {}, w # {}, v \cap w = {}
  PROVE  Min(v) # Min(w)
<1>1. \A x : x \subseteq Nat /\ x # {} => Min(x) \in x
  <2> SUFFICES ASSUME NEW x, x \subseteq Nat, x # {} PROVE Min(x) \in x
    OBVIOUS
  <2>1. \E i \in x : \A j \in x : i <= j
    BY LeastNatural, Zenon
  <2>2. QED
    BY <2>1 DEF Min
<1>2. QED
  BY <1>1

(* The windows of a generator in order. *)
LEMMA WindowOrder ==
  ASSUME NEW S, S \subseteq Rows \cup OwnedTiles \cup Rects
  PROVE  /\ InOrder(S) \in Seq(S)
         /\ \A w \in S : \E k \in DOMAIN InOrder(S) : InOrder(S)[k] = w
<1>1. \A w \in S : w \subseteq Addr /\ w \subseteq Nat /\ w # {}
  BY WindowsAssumption
<1>2. IsFiniteSet(S)
  <2>1. S \in SUBSET (SUBSET Addr)
    BY <1>1
  <2>2. QED
    BY <2>1, WindowsAssumption, FS_SUBSET, FS_Subset
<1>3. \A v, w \in S : Min(v) = Min(w) => v = w
  <2>1. \A v, w \in S : v = w \/ v \cap w = {}
    BY WindowsAssumption
  <2>2. QED
    BY <1>1, <2>1, ApartBegin
<1>4. QED
  BY <1>1, <1>2, <1>3, InOrderLists

(* The runs of some cells lie within them. *)
LEMMA RunsLie ==
  ASSUME NEW C, C \subseteq Addr
  PROVE  Runs(C) \in Seq(SUBSET C)
<1> DEFINE starts == {a \in C : a - 1 \notin C}
           run(a) == {b \in C : a <= b /\ a..b \subseteq C}
           S == {run(a) : a \in starts}
<1>1. C \subseteq Nat /\ IsFiniteSet(C)
  BY WindowsAssumption, FS_Subset
<1>2. \A a \in starts : run(a) \subseteq C /\ run(a) \subseteq Nat /\ run(a) # {} /\ Min(run(a)) = a
  <2> SUFFICES ASSUME NEW a \in starts
               PROVE  run(a) \subseteq C /\ run(a) \subseteq Nat /\ run(a) # {} /\ Min(run(a)) = a
    OBVIOUS
  <2>1. a \in C /\ a \in Nat
    BY <1>1
  <2>2. a..a = {a}
    BY <2>1
  <2>3. a \in run(a) /\ \A b \in run(a) : a <= b /\ b \in Nat
    BY <1>1, <2>1, <2>2
  <2>4. \A i \in run(a) : (\A j \in run(a) : i <= j) => i = a
    <3> HIDE DEF run
    <3>1. QED
      BY <2>1, <2>3
  <2>5. Min(run(a)) = a
    <3> HIDE DEF run
    <3>1. QED
      BY <2>3, <2>4 DEF Min
  <2>6. QED
    BY <2>3, <2>5
<1>3. S \subseteq SUBSET C /\ IsFiniteSet(S)
  <2>1. S \subseteq SUBSET C
    OBVIOUS
  <2>2. QED
    BY <1>1, <2>1, FS_SUBSET, FS_Subset
<1>4. \A w \in S : w \subseteq Nat /\ w # {}
  <2> HIDE DEF run, starts
  <2>1. QED
    BY <1>2
<1>5. \A v, w \in S : Min(v) = Min(w) => v = w
  <2> HIDE DEF run, starts
  <2>1. QED
    BY <1>2
<1>6. Runs(C) = InOrder(S)
  BY DEF Runs
<1> HIDE DEF S
<1>7. InOrder(S) \in Seq(S)
  BY <1>3, <1>4, <1>5, InOrderLists
<1>8. QED
  BY <1>3, <1>6, <1>7, SeqMonotonic

(* A sequence of patches is a table. *)
LEMMA TableOf ==
  ASSUME NEW A, NEW t \in Seq(A), \A p \in A : IsPatch(p)
  PROVE  IsTable(t)
<1>1. DOMAIN t = 1..Len(t) /\ Len(t) \in Nat /\ \A i \in 1..Len(t) : t[i] \in A
  BY LenProperties, ElementOfSeq
<1>2. t = [i \in 1..Len(t) |-> t[i]]
  BY <1>1
<1>3. t \in Seq({t[i] : i \in 1..Len(t)})
  BY <1>1, <1>2, ListLen
<1>4. QED
  BY <1>1, <1>3 DEF IsTable

(* A slice of a patch is a patch over the slice. *)
LEMMA SliceType ==
  ASSUME NEW p, IsPatch(p), NEW w \in SUBSET Cells(p)
  PROVE  IsPatch(Slice(p, w)) /\ Cells(Slice(p, w)) = w
<1> DEFINE x == Slice(p, w)
<1>1. /\ Cells(p) \subseteq Addr /\ p.source \in [Cells(p) -> Byte] /\ DOMAIN p.pay \subseteq Langs
      /\ \A l \in DOMAIN p.pay : p.pay[l] \in [Cells(p) -> Byte]
  BY DEF IsPatch
<1>2. \A img : img \in [Cells(p) -> Byte] => On(img, w) \in [w -> Byte]
  BY DEF On
<1>3. /\ x = [source |-> x.source, pay |-> x.pay]
      /\ x.source = On(p.source, w) /\ DOMAIN x.pay = DOMAIN p.pay
      /\ \A l \in DOMAIN p.pay : x.pay[l] = On(p.pay[l], w)
  BY DEF Slice
<1>4. x.source \in [w -> Byte] /\ \A l \in DOMAIN x.pay : x.pay[l] \in [w -> Byte]
  BY <1>1, <1>2, <1>3
<1> HIDE DEF x
<1>5. Cells(x) = w
  BY <1>4 DEF Cells
<1>6. QED
  BY <1>1, <1>3, <1>4, <1>5 DEF IsPatch, x

(* What windows cut out of a patch may leave of it. *)
Cuts(p, W) ==
  { x \in {p} \cup { Slice(p, w) : w \in SUBSET Cells(p) } :
      IsPatch(x) /\ Cells(x) \subseteq Cells(p) /\ Cells(x) \cap UNION W = {} }

(* Cutting leaves patches outside the windows. *)
LEMMA PiecesLie ==
  ASSUME NEW p, IsPatch(p), NEW W
  PROVE  Pieces(p, W) \in Seq(Cuts(p, W))
<1> DEFINE C == Cells(p) \ UNION W
           kept == Runs(C)
<1>1. CASE Cells(p) \cap UNION W = {}
  <2>1. Pieces(p, W) = <<p>>
    BY <1>1 DEF Pieces
  <2>2. p \in Cuts(p, W)
    BY <1>1 DEF Cuts
  <2>3. QED
    BY <2>1, <2>2
<1>2. CASE Cells(p) \cap UNION W # {}
  <2>1. Pieces(p, W) = [i \in DOMAIN kept |-> Slice(p, kept[i])]
    BY <1>2 DEF Pieces
  <2>2. kept \in Seq(SUBSET C)
    <3>1. C \subseteq Addr
      BY DEF IsPatch
    <3>2. QED
      BY <3>1, RunsLie
  <2>3. /\ DOMAIN kept = 1..Len(kept) /\ Len(kept) \in Nat
        /\ \A i \in 1..Len(kept) : kept[i] \in SUBSET C
    BY <2>2, LenProperties, ElementOfSeq
  <2> HIDE DEF kept
  <2>4. \A i \in 1..Len(kept) : Slice(p, kept[i]) \in Cuts(p, W)
    <3> SUFFICES ASSUME NEW i \in 1..Len(kept) PROVE Slice(p, kept[i]) \in Cuts(p, W)
      OBVIOUS
    <3>1. kept[i] \in SUBSET Cells(p) /\ kept[i] \cap UNION W = {}
      BY <2>3
    <3>2. IsPatch(Slice(p, kept[i])) /\ Cells(Slice(p, kept[i])) = kept[i]
      BY <3>1, SliceType
    <3>3. QED
      BY <3>1, <3>2 DEF Cuts
  <2> DEFINE Q == Pieces(p, W)
             n == Len(kept)
  <2>5. Q = [i \in 1..n |-> Slice(p, kept[i])] /\ n \in Nat
    BY <2>1, <2>3
  <2> HIDE DEF n, Q
  <2>6. Q \in Seq(Cuts(p, W))
    BY <2>4, <2>5 DEF n
  <2>7. QED
    BY <2>6 DEF Q
<1>3. QED
  BY <1>1, <1>2

(* Windows cut out of every patch of a section. *)
LEMMA BodyCut ==
  ASSUME NEW t, IsTable(t), NEW W
  PROVE  /\ IsTable(CutBody(t, W))
         /\ \A m \in DOMAIN CutBody(t, W) :
              /\ Cells(CutBody(t, W)[m]) \cap UNION W = {}
              /\ \E k \in DOMAIN t : Cells(CutBody(t, W)[m]) \subseteq Cells(t[k])
<1> DEFINE s == [k \in DOMAIN t |-> Pieces(t[k], W)]
           A == UNION {Cuts(t[k], W) : k \in DOMAIN t}
           g == FlattenSeq(s)
           n == Len(t)
<1>1. DOMAIN t = 1..n /\ n \in Nat /\ \A k \in 1..n : IsPatch(t[k])
  BY TableIndices DEF IsTable
<1>2. \A k \in 1..n : s[k] \in Seq(A)
  <2> SUFFICES ASSUME NEW k \in 1..n PROVE s[k] \in Seq(A)
    OBVIOUS
  <2>1. s[k] = Pieces(t[k], W)
    BY <1>1
  <2>2. s[k] \in Seq(Cuts(t[k], W))
    BY <1>1, <2>1, PiecesLie
  <2>3. Cuts(t[k], W) \subseteq A
    BY <1>1
  <2> HIDE DEF A, s
  <2>4. QED
    BY <2>2, <2>3, SeqMonotonic
<1>3. s = [k \in 1..n |-> s[k]]
  BY <1>1
<1>4. \A x \in A : /\ IsPatch(x) /\ Cells(x) \cap UNION W = {}
                   /\ \E k \in DOMAIN t : Cells(x) \subseteq Cells(t[k])
  BY DEF Cuts
<1> HIDE DEF A, s, n
<1>5. s \in Seq(Seq(A))
  BY <1>1, <1>2, <1>3
<1>6. g \in Seq(A)
  BY <1>5, FlattenType
<1>7. IsTable(g)
  <2> HIDE DEF g
  <2>1. QED
    BY <1>4, <1>6, TableOf
<1>8. \A m \in DOMAIN g : g[m] \in A
  <2> HIDE DEF g
  <2>1. QED
    BY <1>6, LenProperties, ElementOfSeq
<1>9. QED
  <2> HIDE DEF g
  <2>1. \A m \in DOMAIN g : /\ Cells(g[m]) \cap UNION W = {}
                            /\ \E k \in DOMAIN t : Cells(g[m]) \subseteq Cells(t[k])
    BY <1>4, <1>8
  <2>2. QED
    BY <1>7, <2>1 DEF g, s, CutBody

(* A file of the table: sections of known names, each once. *)
IsFile(f) ==
  /\ f \in Seq({f[i] : i \in DOMAIN f})
  /\ \A i \in DOMAIN f : /\ f[i] = [name |-> f[i].name, body |-> f[i].body]
                         /\ f[i].name \in Names /\ IsTable(f[i].body)
  /\ \A i, j \in DOMAIN f : f[i].name = f[j].name => i = j

(* The sections of a file are numbered. *)
LEMMA FileIndices ==
  ASSUME NEW f, IsFile(f)
  PROVE  Len(f) \in Nat /\ DOMAIN f = 1..Len(f)
<1> DEFINE A == {f[i] : i \in DOMAIN f}
<1>1. f \in Seq(A)
  BY DEF IsFile
<1> HIDE DEF A
<1>2. QED
  BY <1>1, LenProperties

(* A function on 1..n with a section at each number is a file. *)
LEMMA FileOf ==
  ASSUME NEW n \in Nat, NEW f, f = [i \in 1..n |-> f[i]],
         \A i \in 1..n : /\ f[i] = [name |-> f[i].name, body |-> f[i].body]
                         /\ f[i].name \in Names /\ IsTable(f[i].body),
         \A i, j \in 1..n : f[i].name = f[j].name => i = j
  PROVE  IsFile(f) /\ DOMAIN f = 1..n /\ Len(f) = n
<1>1. f \in Seq({f[i] : i \in 1..n}) /\ Len(f) = n
  BY ListLen
<1>2. DOMAIN f = 1..n
  OBVIOUS
<1>3. QED
  BY <1>1, <1>2 DEF IsFile

(* Cutting keeps the sections; those it is about keep off the windows. *)
CutLeaves(f, N, W, g) ==
  /\ IsFile(g) /\ DOMAIN g = DOMAIN f
  /\ \A i \in DOMAIN f :
       /\ g[i].name = f[i].name
       /\ f[i].name \notin N => g[i] = f[i]
       /\ f[i].name \in N =>
            \A m \in DOMAIN g[i].body :
              /\ Cells(g[i].body[m]) \cap UNION W = {}
              /\ \E k \in DOMAIN f[i].body :
                   Cells(g[i].body[m]) \subseteq Cells(f[i].body[k])

(* So it does for every file and whatever is cut. *)
LEMMA CutFile ==
  ASSUME NEW f, IsFile(f), NEW N, NEW W
  PROVE  CutLeaves(f, N, W, Cut(f, N, W))
<1> DEFINE g == Cut(f, N, W)
           n == Len(f)
<1>1. n \in Nat /\ DOMAIN f = 1..n
  BY FileIndices
<1>2. \A i \in 1..n : /\ f[i] = [name |-> f[i].name, body |-> f[i].body]
                      /\ f[i].name \in Names /\ IsTable(f[i].body)
  BY <1>1 DEF IsFile
<1>3. g = [i \in 1..n |-> g[i]]
  BY <1>1 DEF Cut
<1>4. \A i \in 1..n : f[i].name \notin N => g[i] = f[i]
  BY <1>1 DEF Cut
<1>5. ASSUME NEW i \in 1..n, f[i].name \in N
      PROVE  /\ g[i] = [name |-> f[i].name, body |-> g[i].body] /\ IsTable(g[i].body)
             /\ g[i].name = f[i].name
             /\ \A m \in DOMAIN g[i].body :
                  /\ Cells(g[i].body[m]) \cap UNION W = {}
                  /\ \E k \in DOMAIN f[i].body : Cells(g[i].body[m]) \subseteq Cells(f[i].body[k])
  <2> DEFINE t == f[i].body
             b == CutBody(t, W)
  <2>1. g[i] = [f[i] EXCEPT !.body = b]
    BY <1>1, <1>5 DEF Cut
  <2>2. IsTable(t)
    BY <1>2
  <2>3. /\ IsTable(b)
        /\ \A m \in DOMAIN b : /\ Cells(b[m]) \cap UNION W = {}
                               /\ \E k \in DOMAIN t : Cells(b[m]) \subseteq Cells(t[k])
    BY <2>2, BodyCut
  <2>4. f[i] = [name |-> f[i].name, body |-> t]
    BY <1>2
  <2> HIDE DEF b, g
  <2>5. g[i] = [name |-> f[i].name, body |-> b]
    BY <2>1, <2>4
  <2>6. g[i].body = b /\ g[i].name = f[i].name
    BY <2>5
  <2>7. QED
    BY <2>3, <2>5, <2>6
<1> HIDE DEF g
<1>6. \A i \in 1..n : g[i].name = f[i].name /\ IsTable(g[i].body)
                      /\ g[i] = [name |-> g[i].name, body |-> g[i].body]
  <2> SUFFICES ASSUME NEW i \in 1..n
               PROVE  g[i].name = f[i].name /\ IsTable(g[i].body)
                      /\ g[i] = [name |-> g[i].name, body |-> g[i].body]
    OBVIOUS
  <2>1. CASE f[i].name \notin N
    BY <1>2, <1>4, <2>1
  <2>2. CASE f[i].name \in N
    BY <1>5, <2>2
  <2>3. QED
    BY <2>1, <2>2
<1>7. \A i, j \in 1..n : g[i].name = g[j].name => i = j
  <2>1. \A i, j \in 1..n : f[i].name = f[j].name => i = j
    BY <1>1 DEF IsFile
  <2>2. QED
    BY <1>6, <2>1
<1>8. IsFile(g) /\ DOMAIN g = 1..n
  BY <1>1, <1>2, <1>3, <1>6, <1>7, FileOf
<1>9. QED
  BY <1>1, <1>4, <1>5, <1>6, <1>8 DEF CutLeaves, g

(* A section put back or added; the others stay. *)
LEMMA ReplaceFile ==
  ASSUME NEW f, IsFile(f), NEW nm \in Names, NEW body, IsTable(body)
  PROVE  LET g == ReplaceSection(f, nm, body)
         IN /\ IsFile(g) /\ DOMAIN f \subseteq DOMAIN g
            /\ \A i \in DOMAIN g : \/ g[i].name = nm /\ g[i].body = body
                                   \/ i \in DOMAIN f /\ g[i] = f[i] /\ f[i].name # nm
            /\ \A i \in DOMAIN f : g[i].name = f[i].name
            /\ \E i \in DOMAIN g : g[i].name = nm
<1> DEFINE g == ReplaceSection(f, nm, body)
           n == Len(f)
           new == [name |-> nm, body |-> body]
<1>1. n \in Nat /\ DOMAIN f = 1..n
  BY FileIndices
<1>2. \A i \in 1..n : /\ f[i] = [name |-> f[i].name, body |-> f[i].body]
                      /\ f[i].name \in Names /\ IsTable(f[i].body)
  BY <1>1 DEF IsFile
<1>3. \A i, j \in 1..n : f[i].name = f[j].name => i = j
  BY <1>1 DEF IsFile
<1>4. CASE \E i \in DOMAIN f : f[i].name = nm
  <2>1. g = [i \in 1..n |-> IF f[i].name = nm THEN [f[i] EXCEPT !.body = body] ELSE f[i]]
    BY <1>1, <1>4 DEF ReplaceSection
  <2>2. \A i \in 1..n : f[i].name = nm => [f[i] EXCEPT !.body = body] = new
    <3> SUFFICES ASSUME NEW i \in 1..n, f[i].name = nm
                 PROVE  [f[i] EXCEPT !.body = body] = new
      OBVIOUS
    <3>1. \A x, y : x = [name |-> nm, body |-> y] => [x EXCEPT !.body = body] = new
      OBVIOUS
    <3>2. f[i] = [name |-> nm, body |-> f[i].body]
      BY <1>2
    <3> HIDE DEF new
    <3>3. QED
      BY <3>1, <3>2, Zenon
  <2> HIDE DEF g
  <2>3. g = [i \in 1..n |-> g[i]]
    BY <2>1
  <2>4. \A i \in 1..n : g[i] = IF f[i].name = nm THEN new ELSE f[i]
    BY <2>1, <2>2
  <2>5. \A i \in 1..n : /\ g[i] = [name |-> g[i].name, body |-> g[i].body]
                        /\ g[i].name = f[i].name /\ IsTable(g[i].body)
    BY <1>2, <2>4
  <2>6. \A i, j \in 1..n : g[i].name = g[j].name => i = j
    BY <1>3, <2>5
  <2>7. IsFile(g) /\ DOMAIN g = 1..n
    BY <1>1, <1>2, <2>3, <2>5, <2>6, FileOf
  <2>8. \A i \in 1..n : (g[i].name = nm /\ g[i].body = body) \/ (g[i] = f[i] /\ f[i].name # nm)
    BY <2>4
  <2>9. QED
    BY <1>1, <1>4, <2>5, <2>7, <2>8 DEF g
<1>5. CASE ~ \E i \in DOMAIN f : f[i].name = nm
  <2>1. g = Append(f, new)
    BY <1>5 DEF ReplaceSection
  <2> DEFINE A == {f[i] : i \in DOMAIN f}
             B == A \cup {new}
  <2>2. f \in Seq(A)
    BY DEF IsFile
  <2> HIDE DEF A
  <2>3. f \in Seq(B) /\ new \in B
    BY <2>2, SeqMonotonic
  <2> HIDE DEF B, new, g
  <2>4. /\ Len(g) = n + 1 /\ DOMAIN g = 1..(n + 1)
        /\ \A i \in 1..n : g[i] = f[i]
        /\ g[n + 1] = new
    BY <1>1, <2>1, <2>3, AppendProperties
  <2>5. n + 1 \in Nat /\ g = [i \in 1..(n + 1) |-> g[i]]
    <3>1. g \in Seq(B)
      BY <2>1, <2>3, AppendProperties
    <3>2. QED
      BY <1>1, <2>4, <3>1
  <2>6. \A i \in 1..(n + 1) : i \in 1..n \/ i = n + 1
    BY <1>1
  <2>7. new = [name |-> new.name, body |-> new.body] /\ new.name = nm /\ new.body = body
    BY DEF new
  <2>8. \A i \in 1..(n + 1) : /\ g[i] = [name |-> g[i].name, body |-> g[i].body]
                              /\ g[i].name \in Names /\ IsTable(g[i].body)
    BY <1>2, <2>4, <2>6, <2>7
  <2>9. \A i, j \in 1..(n + 1) : g[i].name = g[j].name => i = j
    <3>1. \A i \in 1..n : f[i].name # nm
      BY <1>1, <1>5
    <3>2. QED
      BY <1>3, <2>4, <2>6, <2>7, <3>1
  <2>10. IsFile(g)
    BY <2>5, <2>8, <2>9, FileOf
  <2>11. \A i \in 1..(n + 1) : \/ g[i].name = nm /\ g[i].body = body
                               \/ i \in 1..n /\ g[i] = f[i] /\ f[i].name # nm
    BY <1>1, <1>5, <2>4, <2>6, <2>7
  <2>12. 1..n \subseteq 1..(n + 1) /\ n + 1 \in 1..(n + 1)
    BY <1>1
  <2>13. QED
    BY <1>1, <2>4, <2>7, <2>10, <2>11, <2>12 DEF g
<1>6. QED
  BY <1>4, <1>5

(* A generator that would leave the file as it is has its section in it. *)
LEMMA ReplaceStands ==
  ASSUME NEW f, IsFile(f), NEW g, IsFile(g), DOMAIN g = DOMAIN f,
         NEW nm \in Names, NEW body, IsTable(body), ReplaceSection(g, nm, body) = f
  PROVE  /\ \E i \in DOMAIN f : f[i].name = nm
         /\ \A i \in DOMAIN f : f[i].name = nm => f[i].body = body
         /\ \A i \in DOMAIN f : f[i].name # nm => f[i] = g[i]
<1>1. /\ \A i \in DOMAIN f : \/ f[i].name = nm /\ f[i].body = body
                             \/ i \in DOMAIN g /\ f[i] = g[i] /\ g[i].name # nm
      /\ \E i \in DOMAIN f : f[i].name = nm
  BY ReplaceFile
<1>2. QED
  BY <1>1

(* The entries of a file are those of its sections. *)
LEMMA EntriesHold ==
  ASSUME NEW f, IsFile(f)
  PROVE  /\ IsTable(Entries(f))
         /\ \A m \in DOMAIN Entries(f) :
              \E i \in DOMAIN f : \E k \in DOMAIN f[i].body : Entries(f)[m] = f[i].body[k]
         /\ \A i \in DOMAIN f : \A k \in DOMAIN f[i].body :
              \E m \in DOMAIN Entries(f) : Entries(f)[m] = f[i].body[k]
<1> DEFINE s == [i \in DOMAIN f |-> f[i].body]
           A == UNION {{f[i].body[k] : k \in DOMAIN f[i].body} : i \in DOMAIN f}
           n == Len(f)
           g == FlattenSeq(s)
<1>1. n \in Nat /\ DOMAIN f = 1..n
  BY FileIndices
<1>2. \A i \in 1..n : IsTable(f[i].body)
  BY <1>1 DEF IsFile
<1>3. \A i \in 1..n : s[i] = f[i].body /\ s[i] \in Seq(A)
  <2> SUFFICES ASSUME NEW i \in 1..n PROVE s[i] = f[i].body /\ s[i] \in Seq(A)
    OBVIOUS
  <2> DEFINE t == f[i].body
             B == {t[k] : k \in DOMAIN t}
  <2>1. s[i] = t
    BY <1>1
  <2>2. t \in Seq(B)
    BY <1>2 DEF IsTable
  <2>3. B \subseteq A
    BY <1>1
  <2> HIDE DEF s, t, B, A
  <2>4. s[i] \in Seq(A)
    BY <2>1, <2>2, <2>3, SeqMonotonic
  <2>5. QED
    BY <2>1, <2>4 DEF t
<1>4. s = [i \in 1..n |-> s[i]]
  BY <1>1
<1>5. \A p \in A : IsPatch(p)
  <2> SUFFICES ASSUME NEW i \in 1..n, NEW k \in DOMAIN f[i].body PROVE IsPatch(f[i].body[k])
    BY <1>1
  <2>1. IsTable(f[i].body)
    BY <1>2
  <2>2. QED
    BY <2>1, Zenon DEF IsTable
<1>6. \A p \in A : \E i \in DOMAIN f : \E k \in DOMAIN f[i].body : p = f[i].body[k]
  OBVIOUS
<1>7. g = Entries(f)
  BY DEF Entries
<1> HIDE DEF A, s, n
<1>8. s \in Seq(Seq(A)) /\ Len(s) = n
  BY <1>1, <1>3, <1>4
<1>9. g \in Seq(A)
  BY <1>8, FlattenType
<1>10. \A i \in 1..Len(s) : \A k \in 1..Len(s[i]) : \E m \in 1..Len(g) : g[m] = s[i][k]
  BY <1>8, FlattenHolds
<1> HIDE DEF g
<1>11. DOMAIN g = 1..Len(g) /\ \A m \in DOMAIN g : g[m] \in A
  BY <1>9, LenProperties, ElementOfSeq
<1>12. IsTable(g)
  BY <1>5, <1>9, TableOf
<1>13. \A i \in DOMAIN f : \A k \in DOMAIN f[i].body : \E m \in DOMAIN g : g[m] = f[i].body[k]
  <2> SUFFICES ASSUME NEW i \in DOMAIN f, NEW k \in DOMAIN f[i].body
               PROVE  \E m \in DOMAIN g : g[m] = f[i].body[k]
    OBVIOUS
  <2>1. i \in 1..Len(s) /\ s[i] = f[i].body
    BY <1>1, <1>3, <1>8
  <2>2. k \in 1..Len(s[i])
    <3>1. DOMAIN f[i].body = 1..Len(f[i].body)
      BY <1>1, <1>2, TableIndices
    <3>2. QED
      BY <2>1, <3>1
  <2>3. \E m \in 1..Len(g) : g[m] = s[i][k]
    BY <1>10, <2>1, <2>2
  <2>4. QED
    BY <1>11, <2>1, <2>3
<1>14. QED
  BY <1>6, <1>7, <1>11, <1>12, <1>13

-----------------------------------------------------------------------------
(* A pass over the table. *)

(* What Pass computes step by step: the recursive function inside it exists. *)
Passes(f, img, t, l, n) ==
  f = [i \in 0..n |-> IF i = 0 THEN img ELSE Step(f[i-1], t[i], l)]

(* That recursive function exists for every list of patches. *)
LEMMA PassExists ==
  ASSUME NEW img, NEW t, NEW l
  PROVE  \A n \in Nat : \E f : Passes(f, img, t, l, n)
<1> DEFINE T == {n \in Nat : \E f : Passes(f, img, t, l, n)}
<1>1. 0 \in T
  <2>1. Passes([i \in 0..0 |-> img], img, t, l, 0)
    BY DEF Passes
  <2>2. QED
    BY <2>1
<1>2. ASSUME NEW n \in Nat, n \in T PROVE n + 1 \in T
  <2>1. PICK g : Passes(g, img, t, l, n)
    BY <1>2
  <2> DEFINE f == [i \in 0..(n+1) |-> IF i = 0 THEN img ELSE Step(g[i-1], t[i], l)]
  <2>2. \A i \in 0..(n+1) : i # 0 => f[i-1] = g[i-1]
    <3> SUFFICES ASSUME NEW i \in 0..(n+1), i # 0 PROVE f[i-1] = g[i-1]
      OBVIOUS
    <3>1. i - 1 \in 0..n /\ i - 1 \in 0..(n+1)
      OBVIOUS
    <3>2. f[i-1] = IF i-1 = 0 THEN img ELSE Step(g[(i-1)-1], t[i-1], l)
      BY <3>1
    <3>3. g[i-1] = IF i-1 = 0 THEN img ELSE Step(g[(i-1)-1], t[i-1], l)
      <4>1. g = [k \in 0..n |-> IF k = 0 THEN img ELSE Step(g[k-1], t[k], l)]
        BY <2>1 DEF Passes
      <4>2. QED
        BY <3>1, <4>1
    <3>4. QED
      BY <3>2, <3>3
  <2>3. Passes(f, img, t, l, n+1)
    <3>1. f = [i \in 0..(n+1) |-> IF i = 0 THEN img ELSE Step(f[i-1], t[i], l)]
      BY <2>2
    <3>2. QED
      BY <3>1 DEF Passes
  <2>4. QED
    BY <2>3
<1> HIDE DEF T
<1>3. \A n \in Nat : n \in T
  BY <1>1, <1>2, Climb
<1>4. QED
  BY <1>3 DEF T

(* A pass starts from the image it is given and takes one entry at a time. *)
LEMMA PassSteps ==
  ASSUME NEW img, NEW t, Len(t) \in Nat, NEW l
  PROVE  /\ Pass(img, t, l)[0] = img
         /\ \A i \in 1..Len(t) : Pass(img, t, l)[i] = Step(Pass(img, t, l)[i-1], t[i], l)
<1> DEFINE f == CHOOSE g : g = [i \in 0..Len(t) |-> IF i = 0 THEN img ELSE Step(g[i-1], t[i], l)]
<1>1. Pass(img, t, l) = f
  BY DEF Pass
<1>2. \E g : g = [i \in 0..Len(t) |-> IF i = 0 THEN img ELSE Step(g[i-1], t[i], l)]
  <2>1. \E g : Passes(g, img, t, l, Len(t))
    BY PassExists
  <2>2. QED
    BY <2>1, Zenon DEF Passes
<1>3. f = [i \in 0..Len(t) |-> IF i = 0 THEN img ELSE Step(f[i-1], t[i], l)]
  BY <1>2, Zenon
<1> HIDE DEF f
<1>4. \A i \in 0..Len(t) : f[i] = IF i = 0 THEN img ELSE Step(f[i-1], t[i], l)
  BY <1>3
<1>5. 0 \in 0..Len(t) /\ \A i \in 1..Len(t) : i \in 0..Len(t) /\ i # 0
  OBVIOUS
<1>6. f[0] = img /\ \A i \in 1..Len(t) : f[i] = Step(f[i-1], t[i], l)
  BY <1>4, <1>5, Zenon
<1>7. QED
  BY <1>1, <1>6

(* What a pass leaves is an image of the cart, and no address outside the    *)
(* windows of its entries has changed.                                       *)
LEMMA PassLeaves ==
  ASSUME NEW t, IsTable(t), NEW l, NEW img \in [Addr -> Byte]
  PROVE  /\ BuildImage(l, t, img) \in [Addr -> Byte]
         /\ \A a \in Addr : (\A j \in DOMAIN t : a \notin Cells(t[j])) =>
              BuildImage(l, t, img)[a] = img[a]
<1> DEFINE f == Pass(img, t, l)
           n == Len(t)
           Kept(x) == /\ x \in [Addr -> Byte]
                      /\ \A a \in Addr : (\A j \in DOMAIN t : a \notin Cells(t[j])) => x[a] = img[a]
           T == {i \in Nat : i <= n => Kept(f[i])}
<1>1. n \in Nat /\ DOMAIN t = 1..n
  BY TableIndices
<1>2. f[0] = img /\ \A i \in 1..n : f[i] = Step(f[i-1], t[i], l)
  BY <1>1, PassSteps
<1>3. ASSUME NEW x, Kept(x), NEW i \in 1..n PROVE Kept(Step(x, t[i], l))
  <2>1. x \in [Addr -> Byte] /\ i \in DOMAIN t
    BY <1>1, <1>3
  <2>2. Step(x, t[i], l) \in [Addr -> Byte]
    BY <2>1, StepType
  <2>3. \A a \in Addr : a \notin Cells(t[i]) => Step(x, t[i], l)[a] = x[a]
    <3> DEFINE target == Target(t[i], l)
               written == [a \in DOMAIN x |-> IF a \in Cells(t[i]) THEN target[a] ELSE x[a]]
    <3>1. Step(x, t[i], l) \in {x, written}
      BY Zenon DEF Step, Write
    <3>2. \A a \in Addr : a \notin Cells(t[i]) => written[a] = x[a]
      BY <2>1
    <3> HIDE DEF written
    <3>3. QED
      BY <3>1, <3>2, Zenon
  <2>4. \A a \in Addr : (\A j \in DOMAIN t : a \notin Cells(t[j])) =>
                        Step(x, t[i], l)[a] = img[a]
    <3> SUFFICES ASSUME NEW a \in Addr, \A j \in DOMAIN t : a \notin Cells(t[j])
                 PROVE  Step(x, t[i], l)[a] = img[a]
      OBVIOUS
    <3>1. Step(x, t[i], l)[a] = x[a]
      BY <2>1, <2>3
    <3>2. x[a] = img[a]
      BY <1>3
    <3>3. QED
      BY <3>1, <3>2
  <2>5. QED
    BY <2>2, <2>4
<1>4. Kept(img)
  OBVIOUS
<1> HIDE DEF f, n, Kept
<1>5. 0 \in T
  BY <1>2, <1>4
<1>6. ASSUME NEW i \in Nat, i \in T PROVE i + 1 \in T
  <2>1. CASE i + 1 <= n
    <3>1. i + 1 \in 1..n /\ (i + 1) - 1 = i /\ i <= n
      BY <1>1, <2>1
    <3>2. Kept(f[i])
      BY <1>6, <3>1
    <3>3. f[i + 1] = Step(f[i], t[i + 1], l)
      BY <1>2, <3>1
    <3>4. Kept(f[i + 1])
      BY <1>3, <3>1, <3>2, <3>3
    <3>5. QED
      BY <3>4
  <2>2. CASE ~(i + 1 <= n)
    BY <2>2
  <2>3. QED
    BY <2>1, <2>2
<1> HIDE DEF T
<1>7. n \in T
  BY <1>1, <1>5, <1>6, Climb
<1>8. Kept(f[n])
  BY <1>1, <1>7 DEF T
<1>9. QED
  BY <1>8 DEF Kept, BuildImage, f, n

-----------------------------------------------------------------------------
(* The table at work. *)

(* An entry that describes its window from the cart up and shares it with no *)
(* other entry but a copy of itself.                                         *)
Keeper(p) ==
  /\ Window(rom, p) = p.source
  /\ \A j \in DOMAIN table : table[j] = p \/ Cells(p) \cap Cells(table[j]) = {}

(* The windows of such entries always resolve. *)
KeepersResolve ==
  \A i \in DOMAIN table :
    Keeper(table[i]) =>
      /\ Window(image, table[i]) \in Allowed(table[i])
      /\ cursor > i => Window(image, table[i]) = Target(table[i], lang)

(* An address no entry covers keeps the cart's byte. *)
Untouched ==
  \A a \in Addr : (\A j \in DOMAIN table : a \notin Cells(table[j])) => image[a] = rom[a]

(* The first pass starts with nothing touched. *)
LEMMA CartKeeps ==
  ASSUME IsTable(table), image = rom, cursor = 1,
         table' = table, rom' = rom, image' = image, cursor' = cursor
  PROVE  KeepersResolve' /\ Untouched'
<1>1. ASSUME NEW i \in DOMAIN table, Keeper(table[i])
      PROVE  /\ Window(image', table[i]) \in Allowed(table[i])
             /\ cursor' > i => Window(image', table[i]) = Target(table[i], lang')
  <2>1. Window(image', table[i]) \in Allowed(table[i])
    BY <1>1 DEF Keeper, Allowed
  <2>2. ~ (cursor' > i)
    BY TableIndices
  <2>3. QED
    BY <2>1, <2>2
<1>2. \A i \in DOMAIN table : Keeper(table[i])' <=> Keeper(table[i])
  BY Zenon DEF Keeper
<1>3. KeepersResolve'
  BY <1>1, <1>2, Zenon DEF KeepersResolve
<1>4. QED
  BY <1>3 DEF Untouched

(* A step of a pass writes nothing outside the window of its entry. *)
LEMMA StepOutside ==
  ASSUME NEW p, NEW l, NEW img \in [Addr -> Byte], NEW a \in Addr, a \notin Cells(p)
  PROVE  Step(img, p, l)[a] = img[a]
<1> DEFINE target == Target(p, l)
           written == [b \in DOMAIN img |-> IF b \in Cells(p) THEN target[b] ELSE img[b]]
<1>1. Step(img, p, l) \in {img, written}
  BY Zenon DEF Step, Write
<1>2. written[a] = img[a]
  OBVIOUS
<1> HIDE DEF written
<1>3. QED
  BY <1>1, <1>2, Zenon

(* The engine keeps both, one entry or one switch of language at a time. *)
LEMMA RunKeeps ==
  ASSUME IsTable(table), image \in [Addr -> Byte], cursor \in Nat \ {0},
         KeepersResolve, Untouched, RomNext
  PROVE  /\ image' \in [Addr -> Byte] /\ cursor' \in Nat \ {0}
         /\ KeepersResolve' /\ Untouched'
<1>1. DOMAIN table = 1..Len(table) /\ Len(table) \in Nat
  BY TableIndices
<1>2. CASE ApplyPatch
  <2>1. /\ cursor <= Len(table) /\ image' = Step(image, table[cursor], lang)
        /\ cursor' = cursor + 1 /\ rom' = rom /\ table' = table /\ lang' = lang
    BY <1>2 DEF ApplyPatch
  <2>2. cursor \in DOMAIN table
    BY <1>1, <2>1
  <2>3. image' \in [Addr -> Byte]
    BY <2>1, <2>2, StepType
  <2>4. ASSUME NEW i \in DOMAIN table, Keeper(table[i])
        PROVE  /\ Window(image', table[i]) \in Allowed(table[i])
               /\ cursor' > i => Window(image', table[i]) = Target(table[i], lang)
    <3>1. /\ Window(image, table[i]) \in Allowed(table[i])
          /\ cursor > i => Window(image, table[i]) = Target(table[i], lang)
      BY <2>4 DEF KeepersResolve
    <3>2. CASE table[cursor] = table[i]
      <4>1. Window(Step(image, table[i], lang), table[i]) = Target(table[i], lang)
        BY <3>1, OwnWindow, Zenon
      <4>2. Window(image', table[i]) = Target(table[i], lang)
        BY <2>1, <3>2, <4>1, Zenon
      <4>3. QED
        BY <4>2, TargetAllowed, Zenon
    <3>3. CASE table[cursor] # table[i]
      <4>1. Cells(table[i]) \cap Cells(table[cursor]) = {}
        BY <2>2, <2>4, <3>3, Zenon DEF Keeper
      <4>2. \A a \in Cells(table[i]) : a \notin Cells(table[cursor])
        BY <4>1
      <4>3. Window(Step(image, table[cursor], lang), table[i]) = Window(image, table[i])
        BY <2>2, <4>2, OtherWindow
      <4>4. cursor' > i => cursor > i
        BY <1>1, <2>1, <3>3
      <4>5. Window(image', table[i]) = Window(image, table[i])
        BY <2>1, <4>3
      <4>6. QED
        BY <3>1, <4>4, <4>5, Zenon
    <3>4. QED
      BY <3>2, <3>3
  <2>5. \A i \in DOMAIN table : Keeper(table[i])' <=> Keeper(table[i])
    BY <2>1, Zenon DEF Keeper
  <2>6. KeepersResolve'
    BY <2>1, <2>4, <2>5, Zenon DEF KeepersResolve
  <2>7. Untouched'
    <3> SUFFICES ASSUME NEW a \in Addr, \A j \in DOMAIN table : a \notin Cells(table[j])
                 PROVE  image'[a] = rom[a]
      BY <2>1, Zenon DEF Untouched
    <3>1. Step(image, table[cursor], lang)[a] = image[a]
      BY <2>2, StepOutside
    <3>2. QED
      BY <2>1, <3>1 DEF Untouched
  <2>8. QED
    BY <2>1, <2>3, <2>6, <2>7
<1>3. CASE SwitchLanguage
  <2>1. cursor' = 1 /\ rom' = rom /\ table' = table /\ image' = image
    BY <1>3 DEF SwitchLanguage
  <2>2. \A i \in DOMAIN table : ~ (cursor' > i)
    BY <1>1, <2>1
  <2>3. KeepersResolve'
    BY <2>1, <2>2, Zenon DEF KeepersResolve, Keeper
  <2>4. Untouched'
    BY <2>1, Zenon DEF Untouched
  <2>5. QED
    BY <2>1, <2>3, <2>4
<1>4. QED
  BY <1>2, <1>3 DEF RomNext

-----------------------------------------------------------------------------
(* The chains of the languages. *)

(* What Chains computes step by step. *)
Grows(f, l, n) == f = [i \in 0..n |-> IF i = 0 THEN <<l>> ELSE Link(f[i-1])]

(* The recursive function inside Chains exists for every language. *)
LEMMA GrowsExists ==
  ASSUME NEW l
  PROVE  \A n \in Nat : \E f : Grows(f, l, n)
<1> DEFINE T == {n \in Nat : \E f : Grows(f, l, n)}
<1>1. 0 \in T
  <2>1. Grows([i \in 0..0 |-> <<l>>], l, 0)
    BY DEF Grows
  <2>2. QED
    BY <2>1
<1>2. ASSUME NEW n \in Nat, n \in T PROVE n + 1 \in T
  <2>1. PICK g : Grows(g, l, n)
    BY <1>2
  <2> DEFINE f == [i \in 0..(n+1) |-> IF i = 0 THEN <<l>> ELSE Link(g[i-1])]
  <2>2. \A i \in 0..(n+1) : i # 0 => f[i-1] = g[i-1]
    <3> SUFFICES ASSUME NEW i \in 0..(n+1), i # 0 PROVE f[i-1] = g[i-1]
      OBVIOUS
    <3>1. i - 1 \in 0..n /\ i - 1 \in 0..(n+1)
      OBVIOUS
    <3>2. f[i-1] = IF i-1 = 0 THEN <<l>> ELSE Link(g[(i-1)-1])
      BY <3>1
    <3>3. g[i-1] = IF i-1 = 0 THEN <<l>> ELSE Link(g[(i-1)-1])
      <4>1. g = [k \in 0..n |-> IF k = 0 THEN <<l>> ELSE Link(g[k-1])]
        BY <2>1 DEF Grows
      <4>2. QED
        BY <3>1, <4>1
    <3>4. QED
      BY <3>2, <3>3
  <2>3. Grows(f, l, n+1)
    <3>1. f = [i \in 0..(n+1) |-> IF i = 0 THEN <<l>> ELSE Link(f[i-1])]
      BY <2>2
    <3>2. QED
      BY <3>1 DEF Grows
  <2>4. QED
    BY <2>3
<1> HIDE DEF T
<1>3. \A n \in Nat : n \in T
  BY <1>1, <1>2, Climb
<1>4. QED
  BY <1>3 DEF T

(* With the manifest's fallbacks every chain ends after one link. *)
LEMMA LinkEnds ==
  ASSUME NEW l
  PROVE  /\ l \in DOMAIN Fallback => Link(<<l>>) = <<l, "en">> /\ Link(<<l, "en">>) = <<l, "en">>
         /\ l \notin DOMAIN Fallback => Link(<<l>>) = <<l>>
<1>1. Len(<<l>>) = 1 /\ <<l>>[1] = l /\ Len(<<l, "en">>) = 2 /\ <<l, "en">>[2] = "en"
  OBVIOUS
<1>2. l \in DOMAIN Fallback => Fallback[l] = "en" /\ l # "en"
  BY ManifestAssumption
<1>3. Link(<<l, "en">>) = <<l, "en">>
  BY <1>1, ManifestAssumption, Zenon DEF Link
<1>4. l \notin DOMAIN Fallback => Link(<<l>>) = <<l>>
  BY <1>1, Zenon DEF Link
<1>5. Append(<<l>>, "en") = <<l, "en">>
  <2> DEFINE S == {l, "en"}
             s == Append(<<l>>, "en")
             t == <<l, "en">>
  <2>1. <<l>> \in Seq(S) /\ "en" \in S /\ t \in Seq(S)
    OBVIOUS
  <2> HIDE DEF S
  <2>2. s \in Seq(S) /\ Len(s) = 2 /\ s[1] = l /\ s[2] = "en"
    BY <1>1, <2>1, AppendProperties
  <2> HIDE DEF s
  <2>3. \A i \in 1..Len(s) : s[i] = t[i]
    BY <2>2
  <2>4. s = t
    BY <1>1, <2>1, <2>2, <2>3, SeqEqual
  <2>5. QED
    BY <2>4 DEF s
<1>6. ASSUME l \in DOMAIN Fallback PROVE Link(<<l>>) = <<l, "en">>
  <2>1. \A i \in 1..Len(<<l>>) : <<l>>[i] # Fallback[l]
    BY <1>1, <1>2, <1>6
  <2>2. Link(<<l>>) = Append(<<l>>, Fallback[l])
    BY <1>1, <1>6, <2>1, Zenon DEF Link
  <2>3. QED
    BY <1>2, <1>5, <1>6, <2>2, Zenon
<1>7. QED
  BY <1>3, <1>4, <1>6

(* The chain of a language is itself, and English after it when it falls back. *)
LEMMA ChainIs ==
  ASSUME NEW l \in Settings
  PROVE  Chains[l] = IF l \in DOMAIN Fallback THEN <<l, "en">> ELSE <<l>>
<1> DEFINE f == CHOOSE g : g = [i \in 0..ChainDepth |-> IF i = 0 THEN <<l>> ELSE Link(g[i-1])]
           whole == IF l \in DOMAIN Fallback THEN <<l, "en">> ELSE <<l>>
           T == {n \in Nat : n + 1 <= ChainDepth => f[n + 1] = whole}
<1>1. Chains[l] = f[ChainDepth]
  BY DEF Chains
<1>2. ChainDepth = 8
  BY DEF ChainDepth
<1>3. \E g : g = [i \in 0..ChainDepth |-> IF i = 0 THEN <<l>> ELSE Link(g[i-1])]
  <2>1. \E g : Grows(g, l, ChainDepth)
    BY <1>2, GrowsExists
  <2>2. QED
    BY <2>1, Zenon DEF Grows
<1>4. f = [i \in 0..ChainDepth |-> IF i = 0 THEN <<l>> ELSE Link(f[i-1])]
  BY <1>3, Zenon
<1> HIDE DEF f
<1>5. \A i \in 0..8 : f[i] = IF i = 0 THEN <<l>> ELSE Link(f[i-1])
  BY <1>2, <1>4
<1>6. f[0] = <<l>> /\ \A i \in 0..7 : f[i+1] = Link(f[i])
  <2>1. 0 \in 0..8 /\ \A i \in 0..7 : i + 1 \in 0..8 /\ i + 1 # 0 /\ (i + 1) - 1 = i
    OBVIOUS
  <2>2. f[0] = <<l>>
    BY <1>5, <2>1, Zenon
  <2>3. \A i \in 0..7 : f[i+1] = Link(f[(i+1)-1])
    BY <1>5, <2>1, Zenon
  <2>4. QED
    BY <2>1, <2>2, <2>3
<1>7. Link(<<l>>) = whole /\ Link(whole) = whole
  BY LinkEnds
<1> HIDE DEF whole
<1>8. f[1] = whole
  BY <1>6, <1>7
<1>9. 0 \in T
  BY <1>8
<1>10. ASSUME NEW n \in Nat, n \in T PROVE n + 1 \in T
  <2> SUFFICES ASSUME n + 2 <= 8 PROVE f[n + 2] = whole
    BY <1>2
  <2>1. f[n + 1] = whole /\ n + 1 \in 0..7 /\ (n + 1) + 1 = n + 2
    BY <1>2, <1>10
  <2>2. f[(n + 1) + 1] = Link(f[n + 1])
    BY <1>6, <2>1
  <2>3. QED
    BY <1>7, <2>1, <2>2
<1> HIDE DEF T
<1>11. 7 \in T
  BY <1>9, <1>10, Climb
<1>12. f[8] = whole
  BY <1>2, <1>11 DEF T
<1>13. QED
  BY <1>1, <1>2, <1>12 DEF whole

(* An entry with an English text, for a language that has one of its own or  *)
(* falls back: its own, else the English one; the source when switched off.  *)
LEMMA TargetIs ==
  ASSUME NEW p, NEW l \in Settings, "en" \in DOMAIN p.pay, DOMAIN p.pay \subseteq Langs,
         l \notin DOMAIN p.pay => l = Off \/ l \in DOMAIN Fallback
  PROVE  /\ l = Off => Target(p, l) = p.source
         /\ l \in DOMAIN p.pay => Target(p, l) = p.pay[l]
         /\ l # Off /\ l \notin DOMAIN p.pay => Target(p, l) = p.pay["en"]
<1> DEFINE c == Chains[l]
           held == { i \in 1..Len(c) : c[i] \in DOMAIN p.pay }
           first == CHOOSE i \in held : \A j \in held : i <= j
<1>1. c = IF l \in DOMAIN Fallback THEN <<l, "en">> ELSE <<l>>
  BY ChainIs
<1>2. Target(p, l) = IF held = {} THEN p.source ELSE p.pay[c[first]]
  BY DEF Target
<1>3. Off \notin Langs /\ Off \notin DOMAIN Fallback
  BY FallbackAssumption
<1> HIDE DEF c
<1>4. CASE l = Off
  <2>1. c = <<l>> /\ l \notin DOMAIN p.pay
    BY <1>1, <1>3, <1>4
  <2>2. \A i \in 1..Len(c) : c[i] = l
    BY <2>1
  <2>3. held = {}
    BY <2>1, <2>2
  <2>4. QED
    BY <1>2, <1>4, <2>1, <2>3
<1>5. CASE l \in DOMAIN p.pay
  <2>1. c[1] = l /\ 1 \in 1..Len(c) /\ \A i \in 1..Len(c) : i >= 1 /\ i \in Nat
    BY <1>1
  <2>2. 1 \in held /\ \A j \in held : 1 <= j /\ j \in Nat
    BY <1>5, <2>1
  <2> HIDE DEF held
  <2>3. first = 1
    <3>1. \E i \in held : \A j \in held : i <= j
      BY <2>2
    <3>2. first \in held /\ \A j \in held : first <= j
      BY <3>1
    <3> HIDE DEF first
    <3>3. QED
      BY <2>2, <3>2
  <2>4. Target(p, l) = p.pay[l]
    BY <1>2, <2>1, <2>2, <2>3
  <2>5. QED
    BY <1>3, <1>5, <2>4
<1>6. CASE l # Off /\ l \notin DOMAIN p.pay
  <2>1. c = <<l, "en">>
    BY <1>1, <1>6
  <2>2. Len(c) = 2 /\ c[1] = l /\ c[2] = "en"
    BY <2>1
  <2>3. held = {2}
    BY <1>6, <2>2
  <2> HIDE DEF held
  <2>4. first = 2
    <3>1. \E i \in held : \A j \in held : i <= j
      BY <2>3
    <3>2. first \in held
      BY <3>1
    <3> HIDE DEF first
    <3>3. QED
      BY <2>3, <3>2
  <2>5. Target(p, l) = p.pay["en"]
    BY <1>2, <2>2, <2>3, <2>4
  <2>6. QED
    BY <1>6, <2>5
<1>7. QED
  BY <1>4, <1>5, <1>6

-----------------------------------------------------------------------------
(* What the generators write. *)

(* The types of the state beside the file. *)
TableTypes ==
  /\ rom \in [Addr -> Byte] /\ ref \in [BaselineLangs -> [Addr -> Byte]]
  /\ \A r \in Rows : /\ DOMAIN text[r] \subseteq Langs
                     /\ \A l \in DOMAIN text[r] : text[r][l] \in [TextCells -> Byte]
  /\ DOMAIN override \subseteq Rows /\ \A r \in DOMAIN override : override[r] \in Lines
  /\ baseline = None \/ baseline \in [BaselineLangs -> [UNION OwnedTiles -> Byte]]
  /\ image \in [Addr -> Byte] /\ lang \in Settings /\ cursor \in Nat \ {0}

(* Payloads merged over one window. *)
LEMMA FilledPay ==
  ASSUME NEW w, NEW f, NEW g,
         DOMAIN f \subseteq Langs, \A l \in DOMAIN f : f[l] \in [w -> Byte],
         DOMAIN g \subseteq Langs, \A l \in DOMAIN g : g[l] \in [w -> Byte]
  PROVE  /\ DOMAIN Filled(f, g) = DOMAIN f \cup DOMAIN g /\ DOMAIN Filled(f, g) \subseteq Langs
         /\ \A l \in DOMAIN Filled(f, g) : Filled(f, g)[l] \in [w -> Byte]
  BY DEF Filled

(* A source and payloads over a window make a patch. *)
LEMMA PatchOf ==
  ASSUME NEW w, w \subseteq Addr, NEW src \in [w -> Byte], NEW pay,
         DOMAIN pay \subseteq Langs, \A l \in DOMAIN pay : pay[l] \in [w -> Byte],
         NEW p, p = [source |-> src, pay |-> pay]
  PROVE  IsPatch(p) /\ Cells(p) = w /\ p.source = src /\ p.pay = pay
<1>1. p.source = src /\ p.pay = pay /\ p = [source |-> p.source, pay |-> p.pay]
  OBVIOUS
<1>2. Cells(p) = w
  BY <1>1 DEF Cells
<1>3. IsPatch(p)
  BY <1>1, <1>2, Zenon DEF IsPatch
<1>4. QED
  BY <1>1, <1>2, <1>3

(* A cart's bytes over a window. *)
LEMMA OnType ==
  ASSUME NEW D, NEW img \in [D -> Byte], NEW w, w \subseteq D
  PROVE  On(img, w) \in [w -> Byte]
  BY DEF On

(* A line encoded over its row. *)
LEMMA EncodeType ==
  ASSUME TableTypes, NEW r \in Rows, NEW line \in [TextCells -> Byte]
  PROVE  EncodeLine(r, line) \in [r -> Byte]
<1>1. r \subseteq Addr
  BY WindowsAssumption
<1>2. ref.en \in [Addr -> Byte]
  BY DEF TableTypes, BaselineLangs
<1>3. QED
  BY <1>1, <1>2 DEF EncodeLine

(* What the patch of a row holds. *)
LEMMA RowPatchIs ==
  ASSUME TableTypes, NEW r \in Rows
  PROVE  /\ IsPatch(RowPatch(r)) /\ Cells(RowPatch(r)) = r
         /\ r \in DOMAIN override =>
              /\ RowPatch(r).source = On(rom, r)
              /\ DOMAIN RowPatch(r).pay = DOMAIN text[r] \cup {"en", "es"}
<1> DEFINE own == [l \in DOMAIN text[r] |-> EncodeLine(r, text[r][l])]
           both == [l \in BaselineLangs |-> IF l = "en" THEN On(ref.en, r) ELSE Repaired(r)]
           es == [l \in {"es"} |-> On(ref.es, r)]
<1>1. r \subseteq Addr /\ "en" \in Langs /\ "es" \in Langs /\ BaselineLangs = {"en", "es"}
  BY WindowsAssumption, ArtAssumption DEF BaselineLangs
<1>2. /\ rom \in [Addr -> Byte] /\ ref.en \in [Addr -> Byte] /\ ref.es \in [Addr -> Byte]
  BY DEF TableTypes, BaselineLangs
<1>3. On(rom, r) \in [r -> Byte] /\ On(ref.en, r) \in [r -> Byte] /\ On(ref.es, r) \in [r -> Byte]
  BY <1>1, <1>2, OnType
<1>4. DOMAIN own \subseteq Langs /\ \A l \in DOMAIN own : own[l] \in [r -> Byte]
  BY EncodeType DEF TableTypes
<1>5. DOMAIN own = DOMAIN text[r]
  OBVIOUS
<1>6. CASE r \in DOMAIN override
  <2>1. Repaired(r) \in [r -> Byte]
    BY <1>6, EncodeType, ArtAssumption DEF TableTypes, Repaired
  <2>2. /\ DOMAIN both = {"en", "es"} /\ DOMAIN both \subseteq Langs
        /\ \A l \in DOMAIN both : both[l] \in [r -> Byte]
    BY <1>1, <1>3, <2>1
  <2> HIDE DEF own, both
  <2> DEFINE pay == Filled(own, both)
  <2>3. /\ DOMAIN pay = DOMAIN own \cup {"en", "es"} /\ DOMAIN pay \subseteq Langs
        /\ \A l \in DOMAIN pay : pay[l] \in [r -> Byte]
    <3>1. /\ DOMAIN pay = DOMAIN own \cup DOMAIN both /\ DOMAIN pay \subseteq Langs
          /\ \A l \in DOMAIN pay : pay[l] \in [r -> Byte]
      BY <1>4, <2>2, FilledPay
    <3>2. QED
      BY <2>2, <3>1, Zenon
  <2>4. RowPatch(r) = [source |-> On(rom, r), pay |-> pay]
    BY <1>6 DEF RowPatch, own, both
  <2> HIDE DEF pay
  <2>5. QED
    BY <1>1, <1>3, <1>5, <2>3, <2>4, PatchOf
<1>7. CASE r \notin DOMAIN override
  <2>1. /\ DOMAIN es = {"es"} /\ DOMAIN es \subseteq Langs
        /\ \A l \in DOMAIN es : es[l] \in [r -> Byte]
    BY <1>1, <1>3
  <2> HIDE DEF own, es
  <2> DEFINE pay == Filled(own, es)
  <2>2. DOMAIN pay \subseteq Langs /\ \A l \in DOMAIN pay : pay[l] \in [r -> Byte]
    BY <1>4, <2>1, FilledPay
  <2>3. RowPatch(r) = [source |-> On(ref.en, r), pay |-> pay]
    BY <1>7 DEF RowPatch, own, es
  <2> HIDE DEF pay
  <2>4. QED
    BY <1>1, <1>3, <1>7, <2>2, <2>3, PatchOf
<1>8. QED
  BY <1>6, <1>7

(* What the patch of a tile holds. *)
LEMMA AccentPatchIs ==
  ASSUME TableTypes, DOMAIN baseline # {}, NEW img \in [Addr -> Byte], NEW w \in OwnedTiles
  PROVE  LET p == AccentPatch(w, img)
         IN /\ IsPatch(p) /\ Cells(p) = w /\ p.source = On(rom, w)
            /\ BaselineLangs \subseteq DOMAIN p.pay
<1> DEFINE base == [l \in BaselineLangs |-> On(baseline[l], w)]
           cell == [l \in { c \in {CellLang} : w \in CellTiles } |-> ComposeCell(w, img)]
           pay == Filled(base, cell)
<1>1. w \subseteq Addr /\ rom \in [Addr -> Byte]
  BY WindowsAssumption DEF TableTypes
<1>2. On(rom, w) \in [w -> Byte]
  BY <1>1, OnType
<1>3. baseline \in [BaselineLangs -> [UNION OwnedTiles -> Byte]]
  <2>1. DOMAIN None = {}
    BY DEF None
  <2>2. QED
    BY <2>1 DEF TableTypes
<1>4. DOMAIN base = BaselineLangs /\ DOMAIN base \subseteq Langs
  BY ArtAssumption
<1>5. \A l \in DOMAIN base : base[l] \in [w -> Byte]
  <2> SUFFICES ASSUME NEW l \in BaselineLangs PROVE On(baseline[l], w) \in [w -> Byte]
    OBVIOUS
  <2>1. baseline[l] \in [UNION OwnedTiles -> Byte] /\ w \subseteq UNION OwnedTiles
    BY <1>3
  <2>2. QED
    BY <2>1, OnType
<1>6. DOMAIN cell \subseteq Langs /\ \A l \in DOMAIN cell : cell[l] \in [w -> Byte]
  <2>1. w \in CellTiles => ComposeCell(w, img) \in [w -> Byte]
    BY <1>1, ArtAssumption DEF ComposeCell
  <2>2. CellLang \in Langs
    BY ArtAssumption
  <2>3. QED
    BY <2>1, <2>2
<1>7. AccentPatch(w, img) = [source |-> On(rom, w), pay |-> pay]
  BY DEF AccentPatch
<1> HIDE DEF base, cell
<1>8. /\ DOMAIN pay = DOMAIN base \cup DOMAIN cell /\ DOMAIN pay \subseteq Langs
      /\ \A l \in DOMAIN pay : pay[l] \in [w -> Byte]
  BY <1>4, <1>5, <1>6, FilledPay
<1> HIDE DEF pay
<1> DEFINE p == AccentPatch(w, img)
<1>9. p = [source |-> On(rom, w), pay |-> pay]
  BY <1>7
<1> HIDE DEF p
<1>10. IsPatch(p) /\ Cells(p) = w /\ p.source = On(rom, w) /\ p.pay = pay
  BY <1>1, <1>2, <1>8, <1>9, PatchOf
<1>11. QED
  BY <1>4, <1>8, <1>10 DEF p

(* What the patch of a caption rectangle holds. *)
LEMMA CaptionPatchIs ==
  ASSUME TableTypes, NEW w \in Rects
  PROVE  LET p == CaptionPatch(w, CaptionArt)
         IN /\ IsPatch(p) /\ Cells(p) = w /\ p.source = On(rom, w)
            /\ DOMAIN p.pay = DOMAIN CaptionArt \cup Explicit \cup {"en"}
<1> DEFINE art == [l \in DOMAIN CaptionArt |-> [a \in w |-> CaptionArt[l]]]
           plain == [l \in Explicit \cup {"en"} |-> On(ref.en, w)]
           pay == Filled(art, plain)
<1>1. w \subseteq Addr /\ rom \in [Addr -> Byte] /\ ref.en \in [Addr -> Byte]
  BY WindowsAssumption DEF TableTypes, BaselineLangs
<1>2. On(rom, w) \in [w -> Byte] /\ On(ref.en, w) \in [w -> Byte]
  BY <1>1, OnType
<1>3. /\ DOMAIN art = DOMAIN CaptionArt /\ DOMAIN art \subseteq Langs
      /\ \A l \in DOMAIN art : art[l] \in [w -> Byte]
  BY ArtAssumption
<1>4. /\ DOMAIN plain = Explicit \cup {"en"} /\ DOMAIN plain \subseteq Langs
      /\ \A l \in DOMAIN plain : plain[l] \in [w -> Byte]
  BY <1>2, ArtAssumption DEF Explicit, BaselineLangs
<1>5. CaptionPatch(w, CaptionArt) = [source |-> On(rom, w), pay |-> pay]
  BY DEF CaptionPatch
<1> HIDE DEF art, plain
<1>6. /\ DOMAIN pay = DOMAIN art \cup DOMAIN plain /\ DOMAIN pay \subseteq Langs
      /\ \A l \in DOMAIN pay : pay[l] \in [w -> Byte]
  BY <1>3, <1>4, FilledPay
<1> HIDE DEF pay
<1> DEFINE p == CaptionPatch(w, CaptionArt)
<1>7. p = [source |-> On(rom, w), pay |-> pay]
  BY <1>5
<1> HIDE DEF p
<1>8. IsPatch(p) /\ Cells(p) = w /\ p.source = On(rom, w) /\ p.pay = pay
  BY <1>1, <1>2, <1>6, <1>7, PatchOf
<1>9. DOMAIN p.pay = DOMAIN CaptionArt \cup Explicit \cup {"en"}
  BY <1>3, <1>4, <1>6, <1>8
<1>10. QED
  BY <1>8, <1>9 DEF p

(* A patch for each window of an order is a table. *)
LEMMA SectionOf ==
  ASSUME NEW S, NEW o \in Seq(S), NEW t, t = [i \in DOMAIN o |-> t[i]],
         \A i \in DOMAIN o : IsPatch(t[i])
  PROVE  IsTable(t) /\ DOMAIN t = DOMAIN o
<1>1. DOMAIN o = 1..Len(o) /\ Len(o) \in Nat
  BY LenProperties
<1>2. t = [i \in 1..Len(o) |-> t[i]] /\ DOMAIN t = 1..Len(o)
  BY <1>1
<1>3. t \in Seq({t[i] : i \in 1..Len(o)})
  BY <1>1, <1>2, ListLen
<1>4. QED
  BY <1>1, <1>2, <1>3 DEF IsTable

(* The dialogue section: the patch of every row with a translated line. *)
LEMMA DialogueIs ==
  ASSUME TableTypes
  PROVE  /\ IsTable(DialogueSection)
         /\ \A k \in DOMAIN DialogueSection :
              \E r \in Rows : DOMAIN text[r] # {} /\ DialogueSection[k] = RowPatch(r)
         /\ \A r \in Rows : DOMAIN text[r] # {} =>
              \E k \in DOMAIN DialogueSection : DialogueSection[k] = RowPatch(r)
<1> DEFINE S == { r \in Rows : DOMAIN text[r] # {} }
           o == RowOrder
           t == DialogueSection
<1>1. o = InOrder(S)
  BY DEF RowOrder
<1>2. S \subseteq Rows \cup OwnedTiles \cup Rects
  OBVIOUS
<1>3. t = [i \in DOMAIN o |-> RowPatch(o[i])]
  BY DEF DialogueSection
<1> HIDE DEF S, o, t
<1>4. o \in Seq(S) /\ \A w \in S : \E k \in DOMAIN o : o[k] = w
  BY <1>1, <1>2, WindowOrder
<1>5. \A i \in DOMAIN o : o[i] \in S
  BY <1>4, LenProperties, ElementOfSeq
<1>6. \A i \in DOMAIN o : t[i] = RowPatch(o[i])
  BY <1>3
<1>7. \A i \in DOMAIN o : IsPatch(t[i])
  <2> SUFFICES ASSUME NEW i \in DOMAIN o PROVE IsPatch(t[i])
    OBVIOUS
  <2>1. o[i] \in Rows
    BY <1>5 DEF S
  <2>2. IsPatch(RowPatch(o[i]))
    BY <2>1, RowPatchIs
  <2>3. QED
    BY <1>6, <2>2
<1>8. t = [i \in DOMAIN o |-> t[i]]
  BY <1>3
<1>9. IsTable(t) /\ DOMAIN t = DOMAIN o
  BY <1>4, <1>7, <1>8, SectionOf
<1>10. \A k \in DOMAIN t : \E r \in Rows : DOMAIN text[r] # {} /\ t[k] = RowPatch(r)
  BY <1>5, <1>6, <1>9 DEF S
<1>11. \A r \in Rows : DOMAIN text[r] # {} => \E k \in DOMAIN t : t[k] = RowPatch(r)
  <2> SUFFICES ASSUME NEW r \in Rows, DOMAIN text[r] # {}
               PROVE  \E k \in DOMAIN t : t[k] = RowPatch(r)
    OBVIOUS
  <2>1. r \in S
    BY DEF S
  <2>2. PICK k \in DOMAIN o : o[k] = r
    BY <1>4, <2>1
  <2>3. QED
    BY <1>6, <1>9, <2>2
<1>12. QED
  BY <1>9, <1>10, <1>11 DEF t

(* The accent section: a patch for every owned tile. *)
LEMMA AccentIs ==
  ASSUME TableTypes, DOMAIN baseline # {}, NEW f, Boot("en", f) \in [Addr -> Byte]
  PROVE  /\ IsTable(AccentSection(f))
         /\ \A k \in DOMAIN AccentSection(f) :
              \E w \in OwnedTiles : AccentSection(f)[k] = AccentPatch(w, Boot("en", f))
<1> DEFINE o == TileOrder
           t == AccentSection(f)
           img == Boot("en", f)
<1>1. o = InOrder(OwnedTiles)
  BY DEF TileOrder
<1>2. t = [i \in DOMAIN o |-> AccentPatch(o[i], img)]
  BY DEF AccentSection
<1> HIDE DEF o, t, img
<1>3. o \in Seq(OwnedTiles)
  BY <1>1, WindowOrder
<1>4. \A i \in DOMAIN o : o[i] \in OwnedTiles
  BY <1>3, LenProperties, ElementOfSeq
<1>5. \A i \in DOMAIN o : t[i] = AccentPatch(o[i], img)
  BY <1>2
<1>6. \A i \in DOMAIN o : IsPatch(t[i])
  <2> SUFFICES ASSUME NEW i \in DOMAIN o PROVE IsPatch(t[i])
    OBVIOUS
  <2>1. o[i] \in OwnedTiles /\ img \in [Addr -> Byte]
    BY <1>4 DEF img
  <2>2. IsPatch(AccentPatch(o[i], img))
    BY <2>1, AccentPatchIs
  <2>3. QED
    BY <1>5, <2>2
<1>7. t = [i \in DOMAIN o |-> t[i]]
  BY <1>2
<1>8. IsTable(t) /\ DOMAIN t = DOMAIN o
  BY <1>3, <1>6, <1>7, SectionOf
<1>9. \A k \in DOMAIN t : \E w \in OwnedTiles : t[k] = AccentPatch(w, img)
  BY <1>4, <1>5, <1>8
<1>10. QED
  BY <1>8, <1>9 DEF t, img

(* The caption section: a patch for every rectangle. *)
LEMMA CaptionIs ==
  ASSUME TableTypes
  PROVE  /\ IsTable(CaptionSection(CaptionArt))
         /\ \A k \in DOMAIN CaptionSection(CaptionArt) :
              \E w \in Rects : CaptionSection(CaptionArt)[k] = CaptionPatch(w, CaptionArt)
<1> DEFINE o == RectOrder
           t == CaptionSection(CaptionArt)
<1>1. o = InOrder(Rects)
  BY DEF RectOrder
<1>2. t = [i \in DOMAIN o |-> CaptionPatch(o[i], CaptionArt)]
  BY DEF CaptionSection
<1> HIDE DEF o, t
<1>3. o \in Seq(Rects)
  BY <1>1, WindowOrder
<1>4. \A i \in DOMAIN o : o[i] \in Rects
  BY <1>3, LenProperties, ElementOfSeq
<1>5. \A i \in DOMAIN o : t[i] = CaptionPatch(o[i], CaptionArt)
  BY <1>2
<1>6. \A i \in DOMAIN o : IsPatch(t[i])
  <2> SUFFICES ASSUME NEW i \in DOMAIN o PROVE IsPatch(t[i])
    OBVIOUS
  <2>1. IsPatch(CaptionPatch(o[i], CaptionArt))
    BY <1>4, CaptionPatchIs
  <2>2. QED
    BY <1>5, <2>1
<1>7. t = [i \in DOMAIN o |-> t[i]]
  BY <1>2
<1>8. IsTable(t) /\ DOMAIN t = DOMAIN o
  BY <1>3, <1>6, <1>7, SectionOf
<1>9. \A k \in DOMAIN t : \E w \in Rects : t[k] = CaptionPatch(w, CaptionArt)
  BY <1>4, <1>5, <1>8
<1>10. QED
  BY <1>8, <1>9 DEF t

(* Rows, rectangles and tiles lie apart. *)
LEMMA WindowsApart ==
  /\ \A w \in Rows \cup Rects : w \cap UNION OwnedTiles = {}
  /\ \A w \in Rows \cup OwnedTiles : w \cap UNION Rects = {}
  /\ \A w \in Rows, v \in Rects \cup OwnedTiles : w \cap v = {}
<1>1. \A v, w \in Rows \cup OwnedTiles \cup Rects : v = w \/ v \cap w = {}
  BY WindowsAssumption
<1>2. Rows \cap OwnedTiles = {} /\ Rects \cap (Rows \cup OwnedTiles) = {}
  BY WindowsAssumption
<1>3. \A w \in Rows \cup Rects, v \in OwnedTiles : w \cap v = {}
  BY <1>1, <1>2
<1>4. \A w \in Rows \cup OwnedTiles, v \in Rects : w \cap v = {}
  BY <1>1, <1>2
<1>5. QED
  BY <1>3, <1>4

(* Where there is an accent section, no other touches its tiles. *)
TilesAlone(f) ==
  \A i, j \in DOMAIN f :
    f[i].name = "accent" /\ f[j].name # "accent" =>
      \A k \in DOMAIN f[j].body : Cells(f[j].body[k]) \cap UNION OwnedTiles = {}

(* Cutting leaves the tiles alone. *)
LEMMA CutAlone ==
  ASSUME NEW f, IsFile(f), TilesAlone(f), NEW N, NEW W
  PROVE  TilesAlone(Cut(f, N, W))
<1> DEFINE g == Cut(f, N, W)
<1>0. CutLeaves(f, N, W, g)
  BY CutFile
<1> HIDE DEF g
<1>1. /\ DOMAIN g = DOMAIN f
      /\ \A i \in DOMAIN f :
           /\ g[i].name = f[i].name
           /\ f[i].name \notin N => g[i] = f[i]
           /\ f[i].name \in N =>
                \A m \in DOMAIN g[i].body :
                  \E k \in DOMAIN f[i].body : Cells(g[i].body[m]) \subseteq Cells(f[i].body[k])
  BY <1>0 DEF CutLeaves
<1>2. SUFFICES ASSUME NEW i \in DOMAIN f, NEW j \in DOMAIN f,
                      g[i].name = "accent", g[j].name # "accent", NEW m \in DOMAIN g[j].body
               PROVE  Cells(g[j].body[m]) \cap UNION OwnedTiles = {}
  BY <1>1 DEF TilesAlone, g
<1>3. \A k \in DOMAIN f[j].body : Cells(f[j].body[k]) \cap UNION OwnedTiles = {}
  BY <1>1, <1>2 DEF TilesAlone
<1>4. CASE f[j].name \notin N
  BY <1>1, <1>3, <1>4
<1>5. CASE f[j].name \in N
  <2>1. PICK k \in DOMAIN f[j].body : Cells(g[j].body[m]) \subseteq Cells(f[j].body[k])
    BY <1>1, <1>5
  <2>2. QED
    BY <1>3, <2>1
<1>6. QED
  BY <1>4, <1>5

(* So does writing a section off the tiles. *)
LEMMA ReplaceAlone ==
  ASSUME NEW f, IsFile(f), TilesAlone(f), NEW nm \in Names \ {"accent"}, NEW body, IsTable(body),
         \A k \in DOMAIN body : Cells(body[k]) \cap UNION OwnedTiles = {}
  PROVE  TilesAlone(ReplaceSection(f, nm, body))
<1> DEFINE g == ReplaceSection(f, nm, body)
<1>1. \A i \in DOMAIN g : \/ g[i].name = nm /\ g[i].body = body
                          \/ i \in DOMAIN f /\ g[i] = f[i] /\ f[i].name # nm
  BY ReplaceFile
<1> HIDE DEF g
<1>2. SUFFICES ASSUME NEW i \in DOMAIN g, NEW j \in DOMAIN g,
                      g[i].name = "accent", g[j].name # "accent", NEW m \in DOMAIN g[j].body
               PROVE  Cells(g[j].body[m]) \cap UNION OwnedTiles = {}
  BY DEF TilesAlone, g
<1>3. i \in DOMAIN f /\ g[i] = f[i]
  BY <1>1, <1>2
<1>4. CASE g[j].name = nm /\ g[j].body = body
  BY <1>4
<1>5. CASE j \in DOMAIN f /\ g[j] = f[j]
  BY <1>2, <1>3, <1>5 DEF TilesAlone
<1>6. QED
  BY <1>1, <1>4, <1>5

(* A file the generators have left in order. *)
GoodFile(f) == IsFile(f) /\ TilesAlone(f)

(* Each image of a file is an image of the cart. *)
LEMMA BootType ==
  ASSUME TableTypes, NEW f, IsFile(f), NEW l
  PROVE  /\ Boot(l, f) \in [Addr -> Byte]
         /\ \A a \in Addr : (\A j \in DOMAIN Entries(f) : a \notin Cells(Entries(f)[j])) =>
              Boot(l, f)[a] = rom[a]
<1> DEFINE t == Entries(f)
<1>1. IsTable(t) /\ rom \in [Addr -> Byte]
  BY EntriesHold DEF TableTypes
<1>2. Boot(l, f) = BuildImage(l, t, rom)
  BY DEF Boot
<1> HIDE DEF t
<1>3. /\ BuildImage(l, t, rom) \in [Addr -> Byte]
      /\ \A a \in Addr : (\A j \in DOMAIN t : a \notin Cells(t[j])) =>
           BuildImage(l, t, rom)[a] = rom[a]
  BY <1>1, PassLeaves
<1>4. QED
  BY <1>2, <1>3 DEF t

(* The dialogue generator leaves the file in order. *)
LEMMA DialogueFileGood ==
  ASSUME TableTypes, NEW f, GoodFile(f)
  PROVE  GoodFile(DialogueFile(f))
<1> DEFINE g == Cut(f, {"import"}, DOMAIN override)
<1>1. IsFile(g) /\ TilesAlone(g)
  BY CutFile, CutAlone DEF GoodFile, CutLeaves
<1>2. DialogueFile(f) = ReplaceSection(g, "dialogue", DialogueSection)
  BY DEF DialogueFile
<1> HIDE DEF g
<1>3. IsTable(DialogueSection) /\ "dialogue" \in Names /\ "dialogue" # "accent"
  BY DialogueIs DEF Names
<1>4. \A k \in DOMAIN DialogueSection : Cells(DialogueSection[k]) \cap UNION OwnedTiles = {}
  <2> SUFFICES ASSUME NEW k \in DOMAIN DialogueSection
               PROVE  Cells(DialogueSection[k]) \cap UNION OwnedTiles = {}
    OBVIOUS
  <2>1. PICK r \in Rows : DialogueSection[k] = RowPatch(r)
    BY DialogueIs
  <2>2. Cells(RowPatch(r)) = r
    BY RowPatchIs
  <2>3. QED
    BY <2>1, <2>2, WindowsApart
<1>5. IsFile(ReplaceSection(g, "dialogue", DialogueSection))
  BY <1>1, <1>3, ReplaceFile
<1>6. TilesAlone(ReplaceSection(g, "dialogue", DialogueSection))
  BY <1>1, <1>3, <1>4, ReplaceAlone
<1>7. QED
  BY <1>2, <1>5, <1>6 DEF GoodFile

(* The caption generator leaves the file in order. *)
LEMMA CaptionFileGood ==
  ASSUME TableTypes, NEW f, GoodFile(f)
  PROVE  GoodFile(CaptionFile(f))
<1> DEFINE g == CaptionSplit(f)
           s == CaptionSection(CaptionArt)
<1>1. IsFile(g) /\ TilesAlone(g)
  BY CutFile, CutAlone DEF GoodFile, CaptionSplit, CutLeaves
<1>2. CaptionFile(f) = ReplaceSection(g, "caption", s)
  BY DEF CaptionFile
<1>3. IsTable(s) /\ "caption" \in Names /\ "caption" # "accent"
  BY CaptionIs DEF Names
<1>4. \A k \in DOMAIN s : \E w \in Rects : s[k] = CaptionPatch(w, CaptionArt)
  BY CaptionIs
<1> HIDE DEF g, s
<1>5. \A k \in DOMAIN s : Cells(s[k]) \cap UNION OwnedTiles = {}
  <2> SUFFICES ASSUME NEW k \in DOMAIN s PROVE Cells(s[k]) \cap UNION OwnedTiles = {}
    OBVIOUS
  <2>1. PICK w \in Rects : s[k] = CaptionPatch(w, CaptionArt)
    BY <1>4
  <2>2. Cells(CaptionPatch(w, CaptionArt)) = w
    BY CaptionPatchIs
  <2>3. QED
    BY <2>1, <2>2, WindowsApart
<1>6. IsFile(ReplaceSection(g, "caption", s))
  BY <1>1, <1>3, ReplaceFile
<1>7. TilesAlone(ReplaceSection(g, "caption", s))
  BY <1>1, <1>3, <1>5, ReplaceAlone
<1>8. QED
  BY <1>2, <1>6, <1>7 DEF GoodFile

(* The accent generator leaves the file in order. *)
LEMMA AccentFileGood ==
  ASSUME TableTypes, DOMAIN baseline # {}, NEW f, GoodFile(f)
  PROVE  GoodFile(AccentFile(f))
<1> DEFINE N == Names \ {"accent"}
           g == Cut(f, N, OwnedTiles)
           s == AccentSection(f)
           h == ReplaceSection(g, "accent", s)
<1>0. IsFile(f) /\ CutLeaves(f, N, OwnedTiles, g)
  BY CutFile DEF GoodFile
<1> HIDE DEF g
<1>1. /\ IsFile(f)
      /\ IsFile(g) /\ DOMAIN g = DOMAIN f
      /\ \A i \in DOMAIN f :
           /\ g[i].name = f[i].name
           /\ f[i].name \in N => \A m \in DOMAIN g[i].body :
                                   Cells(g[i].body[m]) \cap UNION OwnedTiles = {}
  BY <1>0 DEF CutLeaves
<1>2. AccentFile(f) = h
  BY DEF AccentFile, g
<1>3. Boot("en", f) \in [Addr -> Byte]
  BY <1>1, BootType
<1>4. IsTable(s) /\ "accent" \in Names
  BY <1>3, AccentIs DEF Names
<1> HIDE DEF s
<1>5. /\ IsFile(h)
      /\ \A i \in DOMAIN h : \/ h[i].name = "accent" /\ h[i].body = s
                             \/ i \in DOMAIN g /\ h[i] = g[i] /\ g[i].name # "accent"
  BY <1>1, <1>4, ReplaceFile
<1> HIDE DEF h
<1>6. TilesAlone(h)
  <2> SUFFICES ASSUME NEW j \in DOMAIN h, h[j].name # "accent", NEW m \in DOMAIN h[j].body
               PROVE  Cells(h[j].body[m]) \cap UNION OwnedTiles = {}
    BY DEF TilesAlone
  <2>1. j \in DOMAIN f /\ h[j] = g[j] /\ f[j].name # "accent"
    BY <1>1, <1>5
  <2>2. f[j].name \in N
    BY <1>1, <2>1 DEF IsFile
  <2>3. QED
    BY <1>1, <2>1, <2>2
<1>7. QED
  BY <1>2, <1>5, <1>6 DEF GoodFile

-----------------------------------------------------------------------------
(* GenInv, the inductive invariant: the file is in order and the table is    *)
(* its entries; until it is accepted the cart is untouched; from then on the *)
(* checks hold of it and the running table keeps what they decided about.    *)
(* That every window an accepted table owns resolves is not inductive: it    *)
(* says nothing of the passes in between, of the file before it is accepted, *)
(* or of the tiles (Overlaps lets another patch cover a tile exactly, and    *)
(* only the way the file came about rules that out: TilesAlone).             *)
GenInv ==
  /\ TableTypes /\ GoodFile(file) /\ table = Entries(file)
  /\ mode \in {"edit", "play"}
  /\ mode = "edit" => image = rom /\ cursor = 1
  /\ mode = "play" => CheckAll(file) /\ KeepersResolve /\ Untouched

(* The imported fragments are a file in order. *)
LEMMA StartIsGood == TableStart => GenInv
<1> SUFFICES ASSUME TableStart PROVE GenInv
  OBVIOUS
<1>1. IsTable(table) /\ file = << [name |-> "import", body |-> table] >>
  BY DEF TableStart
<1>2. Len(file) = 1 /\ DOMAIN file = 1..1 /\ file[1] = [name |-> "import", body |-> table]
  BY <1>1
<1>3. file[1].name = "import" /\ file[1].body = table
  BY <1>2
<1>4. IsFile(file)
  <2>1. file = [i \in 1..1 |-> file[i]]
    <3>1. file \in Seq({[name |-> "import", body |-> table]})
      BY <1>1
    <3>2. QED
      BY <1>2, <3>1, LenProperties
  <2>2. \A i \in 1..1 : /\ file[i] = [name |-> file[i].name, body |-> file[i].body]
                        /\ file[i].name \in Names /\ IsTable(file[i].body)
    BY <1>1, <1>2, <1>3 DEF Names
  <2>3. \A i, j \in 1..1 : file[i].name = file[j].name => i = j
    OBVIOUS
  <2>4. QED
    BY <2>1, <2>2, <2>3, FileOf
<1>5. TilesAlone(file)
  BY <1>2, <1>3 DEF TilesAlone
<1>6. table = Entries(file)
  <2> DEFINE s == [i \in DOMAIN file |-> file[i].body]
  <2>1. Len(s) = 1 /\ s[1] = table
    BY <1>2, <1>3
  <2> HIDE DEF s
  <2>2. FlattenSeq(s) = table
    BY <2>1, FlattenOne
  <2>3. QED
    BY <2>2 DEF Entries, s
<1>7. TableTypes
  <2>1. DOMAIN None = {}
    BY DEF None
  <2>2. "en" \in Settings
    BY ArtAssumption DEF Settings, BaselineLangs
  <2>3. QED
    BY <2>1, <2>2 DEF TableStart, TableTypes
<1>8. QED
  BY <1>4, <1>5, <1>6, <1>7 DEF TableStart, GenInv, GoodFile

(* Every action that writes the file leaves it in order. *)
LEMMA WriteKeeps ==
  ASSUME GenInv, NEW f, GoodFile(f), WriteFile(f)
  PROVE  GenInv'
<1>1. /\ file' = f /\ table' = Entries(f) /\ rom' = rom /\ image' = image /\ lang' = lang
      /\ cursor' = cursor /\ mode' = mode /\ mode = "edit"
      /\ ref' = ref /\ text' = text /\ override' = override /\ baseline' = baseline
  BY DEF WriteFile, Idle, authorVars
<1>2. TableTypes'
  BY <1>1 DEF GenInv, TableTypes
<1>3. QED
  BY <1>1, <1>2 DEF GenInv

(* A capture of the accent tiles is an image of them. *)
LEMMA CaptureKeeps ==
  ASSUME GenInv, CaptureBaseline
  PROVE  GenInv'
<1>1. /\ file' = file /\ table' = table /\ rom' = rom /\ image' = image /\ lang' = lang
      /\ cursor' = cursor /\ mode' = mode /\ mode = "edit"
      /\ ref' = ref /\ text' = text /\ override' = override
      /\ baseline' = [l \in BaselineLangs |-> On(Boot(l, file), UNION OwnedTiles)]
  BY DEF CaptureBaseline, Idle
<1>2. UNION OwnedTiles \subseteq Addr
  BY WindowsAssumption
<1>3. TableTypes /\ IsFile(file)
  BY DEF GenInv, GoodFile
<1>4. \A l \in BaselineLangs : On(Boot(l, file), UNION OwnedTiles) \in [UNION OwnedTiles -> Byte]
  <2> SUFFICES ASSUME NEW l \in BaselineLangs
               PROVE  On(Boot(l, file), UNION OwnedTiles) \in [UNION OwnedTiles -> Byte]
    OBVIOUS
  <2>1. Boot(l, file) \in [Addr -> Byte]
    BY <1>3, BootType
  <2>2. QED
    BY <1>2, <2>1, OnType
<1>5. baseline' \in [BaselineLangs -> [UNION OwnedTiles -> Byte]]
  BY <1>1, <1>4
<1>6. TableTypes'
  BY <1>1, <1>3, <1>5 DEF TableTypes
<1>7. QED
  BY <1>1, <1>6 DEF GenInv

(* The author's edits keep the types. *)
LEMMA EditKeeps ==
  ASSUME GenInv, NEW r \in Rows, NEW line \in Lines, EditOverride(r, line)
  PROVE  GenInv'
<1>1. /\ file' = file /\ table' = table /\ rom' = rom /\ image' = image /\ lang' = lang
      /\ cursor' = cursor /\ mode' = mode /\ mode = "edit"
      /\ ref' = ref /\ text' = text /\ baseline' = baseline
  BY DEF EditOverride, Idle
<1>2. DOMAIN override \subseteq Rows /\ \A q \in DOMAIN override : override[q] \in Lines
  BY DEF GenInv, TableTypes
<1>3. DOMAIN override' \subseteq Rows /\ \A q \in DOMAIN override' : override'[q] \in Lines
  <2>1. CASE r \in DOMAIN override
    <3>1. override' = [q \in DOMAIN override \ {r} |-> override[q]]
      BY <2>1 DEF EditOverride
    <3>2. QED
      BY <1>2, <3>1
  <2>2. CASE r \notin DOMAIN override
    <3>1. override' = [q \in DOMAIN override \cup {r} |-> IF q = r THEN line ELSE override[q]]
      BY <2>2 DEF EditOverride
    <3>2. QED
      BY <1>2, <3>1
  <2>3. QED
    BY <2>1, <2>2
<1>4. TableTypes'
  BY <1>1, <1>3 DEF GenInv, TableTypes
<1>5. QED
  BY <1>1, <1>4 DEF GenInv

(* What the checks decide depends on the cart, the file and the sources only. *)
LEMMA CheckKept ==
  ASSUME UNCHANGED <<rom, file, authorVars>>, CheckAll(file)
  PROVE  CheckAll(file)'
<1>1. /\ rom' = rom /\ file' = file /\ ref' = ref /\ text' = text /\ override' = override
      /\ lossy' = lossy /\ baseline' = baseline /\ live' = live /\ recorded' = recorded
  BY DEF authorVars
<1>2. CaptionCheck(file) /\ AccentCheck(file) /\ DialogueCheck(file)
  BY DEF CheckAll
<1>3. CaptionCheck(file)'
  BY <1>1, <1>2 DEF CaptionCheck, CaptionSection, CaptionPatch, Restructured, Digests, Boot
<1>4. AccentCheck(file)'
  BY <1>1, <1>2 DEF AccentCheck, AccentSection, AccentPatch, LiveFree, BaselineHolds,
                    FrameHolds, Boot
<1>5. (OverridesStand /\ DialogueFile(file) = file)'
  BY <1>1, <1>2 DEF DialogueCheck, OverridesStand, DialogueFile, DialogueSection, RowOrder,
                    RowPatch, EncodeLine, Repaired
<1>6. VerifyReplay(file)'
  <2>1. VerifyReplay(file)
    BY <1>2 DEF DialogueCheck
  <2>2. (\A l \in MustNotSkip : Skipped(l, Entries(file), rom) = {})'
    BY <1>1, <2>1 DEF VerifyReplay
  <2>3. RowOrder' = RowOrder
    BY <1>1 DEF RowOrder
  <2>4. ASSUME NEW r, NEW l
        PROVE  /\ Expected(r, l)' = Expected(r, l)
               /\ Boot(l, file)' = Boot(l, file)
               /\ Played(l, file)' = Played(l, file)
               /\ RepairShows(file, r)' = RepairShows(file, r)
    BY <1>1 DEF RowPatch, EncodeLine, Repaired, Expected, Boot, Played, RepairShows
  <2>5. (\A l \in Settings, i \in DOMAIN RowOrder :
           On(Boot(l, file), RowOrder[i]) = Expected(RowOrder[i], l))'
    <3> SUFFICES ASSUME NEW l \in Settings, NEW i \in DOMAIN RowOrder
                 PROVE  On(Boot(l, file)', RowOrder[i]) = Expected(RowOrder[i], l)'
      BY <2>3
    <3>1. On(Boot(l, file), RowOrder[i]) = Expected(RowOrder[i], l)
      BY <2>1 DEF VerifyReplay
    <3>2. QED
      BY <2>3, <2>4, <3>1
  <2>6. (\A r \in DOMAIN override : RepairShows(file, r))'
    BY <1>1, <2>1, <2>4 DEF VerifyReplay
  <2>7. (\A seq \in TriedSwitches, i \in DOMAIN RowOrder :
           LET r == RowOrder[i]
               well == On(Played(seq, file), r) = Expected(r, seq[Len(seq)])
           IN IF well THEN ~(r \in lossy /\ r \in DOMAIN override)
                      ELSE r \in lossy /\ r \notin DOMAIN override)'
    <3> SUFFICES ASSUME NEW seq \in TriedSwitches, NEW i \in DOMAIN RowOrder
                 PROVE  LET r == RowOrder[i]
                            well == On(Played(seq, file)', r) = Expected(r, seq[Len(seq)])'
                        IN IF well THEN ~(r \in lossy /\ r \in DOMAIN override)
                                   ELSE r \in lossy /\ r \notin DOMAIN override
      BY <1>1, <2>3
    <3>1. LET r == RowOrder[i]
              well == On(Played(seq, file), r) = Expected(r, seq[Len(seq)])
          IN IF well THEN ~(r \in lossy /\ r \in DOMAIN override)
                     ELSE r \in lossy /\ r \notin DOMAIN override
      BY <2>1 DEF VerifyReplay
    <3>2. QED
      BY <2>3, <2>4, <3>1
  <2>8. QED
    BY <2>2, <2>5, <2>6, <2>7 DEF VerifyReplay
<1>7. QED
  BY <1>3, <1>4, <1>5, <1>6 DEF CheckAll, DialogueCheck

(* The first pass starts from the cart. *)
LEMMA ShipKeeps ==
  ASSUME GenInv, Ship
  PROVE  GenInv'
<1>1. /\ file' = file /\ table' = table /\ rom' = rom /\ image' = image /\ lang' \in Settings
      /\ cursor' = cursor /\ mode' = "play" /\ mode = "edit"
      /\ ref' = ref /\ text' = text /\ override' = override /\ baseline' = baseline
      /\ CheckAll(file) /\ UNCHANGED <<rom, file, authorVars>>
  BY DEF Ship, authorVars
<1>2. TableTypes'
  BY <1>1 DEF GenInv, TableTypes
<1>3. CheckAll(file)'
  BY <1>1, CheckKept
<1>4. IsTable(table) /\ image = rom /\ cursor = 1
  BY <1>1, EntriesHold DEF GenInv, GoodFile
<1>5. KeepersResolve' /\ Untouched'
  BY <1>1, <1>4, CartKeeps
<1>6. QED
  BY <1>1, <1>2, <1>3, <1>5 DEF GenInv

(* The game that runs keeps what the checks accepted. *)
LEMMA PlayKeeps ==
  ASSUME GenInv, Run
  PROVE  GenInv'
<1>1. /\ mode = "play" /\ RomNext /\ UNCHANGED <<file, authorVars, mode>>
      /\ rom' = rom /\ table' = table /\ file' = file /\ mode' = mode
      /\ ref' = ref /\ text' = text /\ override' = override /\ baseline' = baseline
  BY DEF Run, authorVars, RomNext, ApplyPatch, SwitchLanguage
<1>2. lang' \in Settings
  BY <1>1 DEF GenInv, TableTypes, RomNext, ApplyPatch, SwitchLanguage
<1>3. IsTable(table) /\ image \in [Addr -> Byte] /\ cursor \in Nat \ {0}
  BY EntriesHold DEF GenInv, GoodFile, TableTypes
<1>4. CheckAll(file) /\ KeepersResolve /\ Untouched
  BY <1>1 DEF GenInv
<1>5. /\ image' \in [Addr -> Byte] /\ cursor' \in Nat \ {0}
      /\ KeepersResolve' /\ Untouched'
  BY <1>1, <1>3, <1>4, RunKeeps
<1>6. TableTypes'
  BY <1>1, <1>2, <1>5 DEF GenInv, TableTypes
<1>7. CheckAll(file)'
  BY <1>1, <1>4, CheckKept
<1>8. QED
  BY <1>1, <1>5, <1>6, <1>7 DEF GenInv

(* Nothing else touches any of it. *)
LEMMA RestKeeps ==
  ASSUME GenInv, Survey \/ RecordDigests \/ UNCHANGED tableVars
  PROVE  GenInv'
<1>1. /\ file' = file /\ table' = table /\ rom' = rom /\ image' = image /\ lang' = lang
      /\ cursor' = cursor /\ mode' = mode
      /\ ref' = ref /\ text' = text /\ override' = override /\ baseline' = baseline
  BY DEF Survey, RecordDigests, Idle, tableVars, romVars, authorVars
<1>2. TableTypes'
  BY <1>1 DEF GenInv, TableTypes
<1>3. CASE mode = "edit"
  BY <1>1, <1>2, <1>3 DEF GenInv
<1>4. CASE mode = "play"
  <2>1. UNCHANGED tableVars
    BY <1>4 DEF Survey, RecordDigests
  <2>2. UNCHANGED <<rom, file, authorVars>>
    BY <2>1 DEF tableVars, romVars, authorVars
  <2>3. CheckAll(file)'
    BY <1>4, <2>2, CheckKept DEF GenInv
  <2>4. KeepersResolve' /\ Untouched'
    BY <1>1, <1>4, Zenon DEF GenInv, KeepersResolve, Untouched, Keeper
  <2>5. QED
    BY <1>1, <1>2, <1>4, <2>3, <2>4 DEF GenInv
<1>5. QED
  BY <1>3, <1>4 DEF GenInv

(* GenInv is inductive. *)
LEMMA StepKeeps == GenInv /\ [TableNext]_tableVars => GenInv'
<1> SUFFICES ASSUME GenInv, [TableNext]_tableVars PROVE GenInv'
  OBVIOUS
<1>1. TableTypes /\ GoodFile(file)
  BY DEF GenInv
<1>2. CASE DialogueWrite
  BY <1>1, <1>2, DialogueFileGood, WriteKeeps DEF DialogueWrite
<1>3. CASE AccentWrite
  BY <1>1, <1>3, AccentFileGood, WriteKeeps DEF AccentWrite
<1>4. CASE CaptionWrite
  BY <1>1, <1>4, CaptionFileGood, WriteKeeps DEF CaptionWrite
<1>5. CASE CaptureBaseline
  BY <1>5, CaptureKeeps
<1>6. CASE \E r \in Rows : \E line \in Lines : EditOverride(r, line)
  BY <1>6, EditKeeps
<1>7. CASE Ship
  BY <1>7, ShipKeeps
<1>8. CASE Run
  BY <1>8, PlayKeeps
<1>9. CASE Survey \/ RecordDigests \/ UNCHANGED tableVars
  BY <1>9, RestKeeps
<1>10. QED
  BY <1>2, <1>3, <1>4, <1>5, <1>6, <1>7, <1>8, <1>9 DEF TableNext

-----------------------------------------------------------------------------
(* What an accepted table shows. *)

(* A section the check finds as its generator writes it is in the file. *)
LEMMA SectionStands ==
  ASSUME NEW f, IsFile(f), NEW nm \in Names, NEW body, IsTable(body),
         ReplaceSection(f, nm, body) = f
  PROVE  \A i \in DOMAIN f : f[i].name = nm => f[i].body = body
  BY ReplaceStands

(* Accepted by the dialogue check, the file holds the dialogue section, and  *)
(* no imported fragment touches a repaired row.                              *)
LEMMA DialogueStands ==
  ASSUME TableTypes, GoodFile(file), DialogueCheck(file)
  PROVE  /\ \E i \in DOMAIN file : file[i].name = "dialogue"
         /\ \A i \in DOMAIN file : file[i].name = "dialogue" => file[i].body = DialogueSection
         /\ \A i \in DOMAIN file : file[i].name = "import" =>
              \A k \in DOMAIN file[i].body :
                Cells(file[i].body[k]) \cap UNION DOMAIN override = {}
<1> DEFINE N == {"import"}
           g == Cut(file, N, DOMAIN override)
           s == DialogueSection
<1>1. IsFile(file) /\ CutLeaves(file, N, DOMAIN override, g)
  BY CutFile DEF GoodFile
<1>2. ReplaceSection(g, "dialogue", s) = file
  BY DEF DialogueCheck, DialogueFile
<1>3. IsTable(s) /\ "dialogue" \in Names
  BY DialogueIs DEF Names
<1> HIDE DEF g, s
<1>4. IsFile(g) /\ DOMAIN g = DOMAIN file
  BY <1>1 DEF CutLeaves
<1>5. /\ \E i \in DOMAIN file : file[i].name = "dialogue"
      /\ \A i \in DOMAIN file : file[i].name = "dialogue" => file[i].body = s
      /\ \A i \in DOMAIN file : file[i].name # "dialogue" => file[i] = g[i]
  BY <1>1, <1>2, <1>3, <1>4, ReplaceStands
<1>6. ASSUME NEW i \in DOMAIN file, file[i].name = "import", NEW k \in DOMAIN file[i].body
      PROVE  Cells(file[i].body[k]) \cap UNION DOMAIN override = {}
  <2>1. file[i] = g[i] /\ file[i].name \in N
    BY <1>5, <1>6
  <2>2. \A m \in DOMAIN g[i].body : Cells(g[i].body[m]) \cap UNION DOMAIN override = {}
    BY <1>1, <2>1 DEF CutLeaves
  <2>3. QED
    BY <1>6, <2>1, <2>2
<1>7. QED
  BY <1>5, <1>6 DEF s

(* The entries of an accepted table. *)
LEMMA EntryKinds ==
  ASSUME TableTypes, GoodFile(file), CheckAll(file),
         NEW i \in DOMAIN file, NEW k \in DOMAIN file[i].body
  PROVE  LET p == file[i].body[k]
         IN /\ IsPatch(p) /\ file[i].name \in Names
            /\ file[i].name = "import" => Cells(p) \cap UNION DOMAIN override = {}
            /\ file[i].name = "dialogue" =>
                 \E r \in Rows : DOMAIN text[r] # {} /\ p = RowPatch(r) /\ Cells(p) = r
            /\ file[i].name = "caption" =>
                 \E w \in Rects : p = CaptionPatch(w, CaptionArt) /\ Cells(p) = w
            /\ file[i].name = "accent" =>
                 \E w \in OwnedTiles : p = AccentPatch(w, Boot("en", file)) /\ Cells(p) = w
<1> DEFINE p == file[i].body[k]
<1>1. IsFile(file) /\ CaptionCheck(file) /\ AccentCheck(file) /\ DialogueCheck(file)
  BY DEF GoodFile, CheckAll
<1>2. IsPatch(p) /\ file[i].name \in Names
  BY <1>1, Zenon DEF IsFile, IsTable
<1>3. ASSUME file[i].name = "import" PROVE Cells(p) \cap UNION DOMAIN override = {}
  BY <1>1, <1>3, DialogueStands
<1>4. ASSUME file[i].name = "dialogue"
      PROVE  \E r \in Rows : DOMAIN text[r] # {} /\ p = RowPatch(r) /\ Cells(p) = r
  <2>1. file[i].body = DialogueSection
    BY <1>1, <1>4, DialogueStands
  <2>2. \E r \in Rows : DOMAIN text[r] # {} /\ p = RowPatch(r)
    BY <2>1, DialogueIs
  <2> HIDE DEF p
  <2>3. QED
    BY <2>2, RowPatchIs
<1>5. ASSUME file[i].name = "caption"
      PROVE  \E w \in Rects : p = CaptionPatch(w, CaptionArt) /\ Cells(p) = w
  <2>1. ReplaceSection(file, "caption", CaptionSection(CaptionArt)) = file
    BY <1>1 DEF CaptionCheck
  <2>2. IsTable(CaptionSection(CaptionArt)) /\ "caption" \in Names
    BY CaptionIs DEF Names
  <2>3. file[i].body = CaptionSection(CaptionArt)
    BY <1>1, <1>5, <2>1, <2>2, SectionStands
  <2>4. \E w \in Rects : p = CaptionPatch(w, CaptionArt)
    BY <2>3, CaptionIs
  <2> HIDE DEF p
  <2>5. QED
    BY <2>4, CaptionPatchIs
<1>6. ASSUME file[i].name = "accent"
      PROVE  \E w \in OwnedTiles : p = AccentPatch(w, Boot("en", file)) /\ Cells(p) = w
  <2> DEFINE img == Boot("en", file)
             s == AccentSection(file)
  <2>1. ReplaceSection(file, "accent", s) = file /\ DOMAIN baseline # {}
    BY <1>1 DEF AccentCheck
  <2>2. img \in [Addr -> Byte]
    BY <1>1, BootType
  <2>3. /\ IsTable(s) /\ "accent" \in Names
        /\ \A h \in DOMAIN s : \E w \in OwnedTiles : s[h] = AccentPatch(w, img)
    BY <2>1, <2>2, AccentIs DEF Names
  <2> HIDE DEF s, img
  <2>4. file[i].body = s
    BY <1>1, <1>6, <2>1, <2>3, SectionStands
  <2>5. \E w \in OwnedTiles : p = AccentPatch(w, img)
    BY <2>3, <2>4
  <2> HIDE DEF p
  <2>6. \A w \in OwnedTiles : Cells(AccentPatch(w, img)) = w
    BY <2>1, <2>2, AccentPatchIs
  <2>7. QED
    BY <2>5, <2>6 DEF img
<1>7. QED
  BY <1>2, <1>3, <1>4, <1>5, <1>6

(* Where a keeper's window stands when a pass is over. *)
LEMMA KeeperShows ==
  ASSUME GenInv, Settled, NEW m \in DOMAIN table, Keeper(table[m])
  PROVE  On(image, Cells(table[m])) = Target(table[m], lang)
<1>1. IsTable(table) /\ cursor \in Nat \ {0} /\ cursor > Len(table) /\ KeepersResolve
  BY EntriesHold DEF GenInv, GoodFile, TableTypes, Settled
<1>2. cursor > m
  BY <1>1, TableIndices
<1>3. Window(image, table[m]) = Target(table[m], lang)
  BY <1>1, <1>2 DEF KeepersResolve
<1>4. QED
  BY <1>3 DEF Window, On

(* Only the row's own patch touches a repaired row. *)
LEMMA RowAlone ==
  ASSUME TableTypes, GoodFile(file), CheckAll(file), table = Entries(file),
         NEW r \in DOMAIN override, NEW m \in DOMAIN table
  PROVE  \/ DOMAIN text[r] # {} /\ table[m] = RowPatch(r)
         \/ r \cap Cells(table[m]) = {}
<1>1. PICK i \in DOMAIN file : \E k \in DOMAIN file[i].body : table[m] = file[i].body[k]
  BY EntriesHold DEF GoodFile
<1>2. PICK k \in DOMAIN file[i].body : table[m] = file[i].body[k]
  BY <1>1
<1> DEFINE p == table[m]
<1>3. /\ IsPatch(p) /\ file[i].name \in Names
      /\ file[i].name = "import" => Cells(p) \cap UNION DOMAIN override = {}
      /\ file[i].name = "dialogue" =>
           \E q \in Rows : DOMAIN text[q] # {} /\ p = RowPatch(q) /\ Cells(p) = q
      /\ file[i].name = "caption" =>
           \E w \in Rects : p = CaptionPatch(w, CaptionArt) /\ Cells(p) = w
      /\ file[i].name = "accent" =>
           \E w \in OwnedTiles : p = AccentPatch(w, Boot("en", file)) /\ Cells(p) = w
  BY <1>2, EntryKinds
<1>4. r \in Rows
  BY DEF TableTypes
<1> HIDE DEF p
<1>5. CASE file[i].name = "import"
  BY <1>3, <1>5 DEF p
<1>6. CASE file[i].name = "dialogue"
  <2>1. PICK q \in Rows : DOMAIN text[q] # {} /\ p = RowPatch(q) /\ Cells(p) = q
    BY <1>3, <1>6
  <2>2. q = r \/ r \cap q = {}
    BY <1>4, WindowsAssumption
  <2>3. QED
    BY <2>1, <2>2 DEF p
<1>7. CASE file[i].name \in {"caption", "accent"}
  <2>1. Cells(p) \in Rects \cup OwnedTiles
    BY <1>3, <1>7
  <2>2. QED
    BY <1>4, <2>1, WindowsApart DEF p
<1>8. QED
  BY <1>3, <1>5, <1>6, <1>7 DEF Names

(* A repaired row of an accepted table shows what was authored for the       *)
(* language that is selected.                                                *)
LEMMA RowsShow ==
  ASSUME GenInv, Settled, NEW r \in DOMAIN override
  PROVE  On(image, r) = Expected(r, lang)
<1> DEFINE p == RowPatch(r)
<1>1. /\ TableTypes /\ GoodFile(file) /\ IsFile(file) /\ table = Entries(file) /\ CheckAll(file)
      /\ KeepersResolve /\ Untouched /\ lang \in Settings
  BY DEF GenInv, Settled, GoodFile, TableTypes
<1>2. r \in Rows /\ r \subseteq Addr
  BY <1>1, WindowsAssumption DEF TableTypes
<1>3. /\ IsPatch(p) /\ Cells(p) = r /\ p.source = On(rom, r)
      /\ DOMAIN p.pay = DOMAIN text[r] \cup {"en", "es"}
  BY <1>1, <1>2, RowPatchIs
<1>4. DOMAIN p.pay \subseteq Langs /\ Off \notin Langs
  BY <1>3, FallbackAssumption DEF IsPatch
<1>5. lang \notin DOMAIN p.pay => lang = Off \/ lang \in DOMAIN Fallback
  BY <1>1, <1>3, ManifestAssumption DEF Settings, BaselineLangs
<1>6. /\ lang = Off => Expected(r, lang) = p.source
      /\ lang \in DOMAIN p.pay => Expected(r, lang) = p.pay[lang]
      /\ lang # Off /\ lang \notin DOMAIN p.pay => Expected(r, lang) = p.pay["en"]
  <2>1. lang = Off => lang \notin DOMAIN p.pay
    BY <1>4
  <2>2. "en" \in DOMAIN p.pay
    BY <1>3
  <2>3. Expected(r, lang) =
          CASE lang = Off -> On(rom, r)
            [] lang \in DOMAIN p.pay -> p.pay[lang]
            [] lang \notin DOMAIN p.pay /\ lang # Off ->
                 IF "en" \in DOMAIN p.pay THEN p.pay["en"] ELSE p.source
    BY DEF Expected
  <2> HIDE DEF p
  <2>4. QED
    BY <1>3, <2>1, <2>2, <2>3
<1>7. CASE DOMAIN text[r] # {}
  <2>1. PICK i \in DOMAIN file : file[i].name = "dialogue" /\ file[i].body = DialogueSection
    BY <1>1, DialogueStands DEF CheckAll
  <2>2. PICK k \in DOMAIN DialogueSection : DialogueSection[k] = p
    BY <1>1, <1>2, <1>7, DialogueIs
  <2>3. PICK m \in DOMAIN table : table[m] = p
    BY <1>1, <2>1, <2>2, EntriesHold
  <2>4. Keeper(p)
    <3>1. Window(rom, p) = p.source
      BY <1>3 DEF Window, On
    <3>2. \A j \in DOMAIN table : table[j] = p \/ r \cap Cells(table[j]) = {}
      BY <1>1, RowAlone
    <3> HIDE DEF p
    <3>3. QED
      BY <1>3, <3>1, <3>2 DEF Keeper
  <2> HIDE DEF p
  <2>5. On(image, r) = Target(p, lang)
    BY <1>3, <2>3, <2>4, KeeperShows
  <2>6. /\ lang = Off => Target(p, lang) = p.source
        /\ lang \in DOMAIN p.pay => Target(p, lang) = p.pay[lang]
        /\ lang # Off /\ lang \notin DOMAIN p.pay => Target(p, lang) = p.pay["en"]
    BY <1>1, <1>3, <1>4, <1>5, TargetIs
  <2>7. QED
    BY <1>6, <2>5, <2>6
<1>8. CASE DOMAIN text[r] = {}
  <2>1. \A j \in DOMAIN table : r \cap Cells(table[j]) = {}
    BY <1>1, <1>8, RowAlone
  <2>2. \A a \in r : image[a] = rom[a]
    BY <1>1, <1>2, <2>1 DEF Untouched
  <2>3. \A l : \A a \in r : Boot(l, file)[a] = rom[a]
    BY <1>1, <1>2, <2>1, BootType
  <2>4. On(image, r) = On(rom, r) /\ \A l : On(Boot(l, file), r) = On(rom, r)
    BY <2>2, <2>3 DEF On
  <2>5. RepairShows(file, r)
    BY <1>1 DEF CheckAll, DialogueCheck, VerifyReplay
  <2>6. On(rom, r) = Repaired(r) /\ On(rom, r) = On(ref.en, r)
    BY <2>4, <2>5 DEF RepairShows
  <2>7. p.pay["en"] = On(ref.en, r) /\ p.pay["es"] = Repaired(r)
    BY <1>8 DEF RowPatch, Filled, BaselineLangs
  <2> HIDE DEF p
  <2>8. QED
    BY <1>3, <1>6, <1>8, <2>4, <2>6, <2>7
<1>9. QED
  BY <1>7, <1>8

(* A language a caption says nothing for falls back on English. *)
LEMMA CaptionSpeaks ==
  ASSUME NEW l \in Settings, l \notin Explicit \cup {"en"}
  PROVE  l = Off \/ l \in DOMAIN Fallback
<1> SUFFICES ASSUME l # Off, l \notin DOMAIN Fallback PROVE FALSE
  OBVIOUS
<1>1. l \in Langs \ {"en"}
  BY DEF Settings
<1>2. Chains[l] = <<l>>
  BY ChainIs
<1>3. \A i \in 1..Len(Chains[l]) : Chains[l][i] # "en"
  BY <1>1, <1>2
<1>4. QED
  BY <1>1, <1>3 DEF Explicit

(* A window of the accent or the caption section of an accepted table shows  *)
(* what its generator authored for the language that is selected.            *)
LEMMA WindowsShow ==
  ASSUME GenInv, Settled, NEW i \in DOMAIN file, NEW k \in DOMAIN file[i].body,
         file[i].name \in {"accent", "caption"}
  PROVE  LET p == file[i].body[k] IN On(image, Cells(p)) = OwnedTarget(p, lang)
<1> DEFINE p == file[i].body[k]
<1>1. /\ TableTypes /\ GoodFile(file) /\ IsFile(file) /\ TilesAlone(file)
      /\ table = Entries(file) /\ CheckAll(file) /\ lang \in Settings
  BY DEF GenInv, Settled, GoodFile, TableTypes
<1>2. PICK m \in DOMAIN table : table[m] = p
  BY <1>1, EntriesHold
<1>3. \A j \in DOMAIN table : \E h \in DOMAIN file : \E n \in DOMAIN file[h].body :
        table[j] = file[h].body[n]
  BY <1>1, EntriesHold
<1>4. IsPatch(p)
  BY <1>1, EntryKinds
<1>5. DOMAIN p.pay \subseteq Langs /\ Off \notin Langs
  BY <1>4, FallbackAssumption DEF IsPatch
<1>6. ASSUME p.source = On(rom, Cells(p)), "en" \in DOMAIN p.pay,
             lang \notin DOMAIN p.pay => lang = Off \/ lang \in DOMAIN Fallback,
             \A j \in DOMAIN table : table[j] = p \/ Cells(p) \cap Cells(table[j]) = {}
      PROVE  On(image, Cells(p)) = OwnedTarget(p, lang)
  <2> HIDE DEF p
  <2>1. Keeper(p)
    BY <1>6 DEF Keeper, Window, On
  <2>2. On(image, Cells(p)) = Target(p, lang)
    BY <1>2, <2>1, KeeperShows
  <2>3. /\ lang = Off => Target(p, lang) = p.source
        /\ lang \in DOMAIN p.pay => Target(p, lang) = p.pay[lang]
        /\ lang # Off /\ lang \notin DOMAIN p.pay => Target(p, lang) = p.pay["en"]
    BY <1>1, <1>5, <1>6, TargetIs
  <2>4. lang = Off => lang \notin DOMAIN p.pay
    BY <1>5
  <2>5. QED
    BY <1>6, <2>2, <2>3, <2>4 DEF OwnedTarget
<1>7. CASE file[i].name = "caption"
  <2>1. PICK w \in Rects : p = CaptionPatch(w, CaptionArt) /\ Cells(p) = w
    BY <1>1, <1>7, EntryKinds
  <2>2. p.source = On(rom, w) /\ DOMAIN p.pay = DOMAIN CaptionArt \cup Explicit \cup {"en"}
    BY <1>1, <2>1, CaptionPatchIs
  <2>3. lang \notin DOMAIN p.pay => lang = Off \/ lang \in DOMAIN Fallback
    BY <1>1, <2>2, CaptionSpeaks
  <2>4. /\ \E h \in DOMAIN table : {j \in DOMAIN table : Cells(table[j]) = w} = {h}
        /\ \A j \in DOMAIN table :
             Cells(table[j]) \in Rects \/ Cells(table[j]) \cap UNION Rects = {}
    BY <1>1 DEF CheckAll, CaptionCheck, CaptionNoOverlap
  <2> HIDE DEF p
  <2>5. ASSUME NEW j \in DOMAIN table
        PROVE  table[j] = p \/ Cells(p) \cap Cells(table[j]) = {}
    <3>1. CASE Cells(table[j]) = w
      BY <1>2, <2>1, <2>4, <3>1
    <3>2. CASE Cells(table[j]) \in Rects /\ Cells(table[j]) # w
      BY <2>1, <3>2, WindowsAssumption
    <3>3. CASE Cells(table[j]) \cap UNION Rects = {}
      BY <2>1, <3>3
    <3>4. QED
      BY <2>4, <3>1, <3>2, <3>3
  <2>6. QED
    BY <1>6, <2>1, <2>2, <2>3, <2>5 DEF p
<1>8. CASE file[i].name = "accent"
  <2>1. PICK w \in OwnedTiles : p = AccentPatch(w, Boot("en", file)) /\ Cells(p) = w
    BY <1>1, <1>8, EntryKinds
  <2>2. Boot("en", file) \in [Addr -> Byte] /\ DOMAIN baseline # {}
    BY <1>1, BootType DEF CheckAll, AccentCheck
  <2>3. p.source = On(rom, w) /\ BaselineLangs \subseteq DOMAIN p.pay
    BY <1>1, <2>1, <2>2, AccentPatchIs
  <2>4. lang \notin DOMAIN p.pay => lang = Off \/ lang \in DOMAIN Fallback
    BY <1>1, <2>3, ManifestAssumption DEF Settings
  <2> HIDE DEF p
  <2>5. ASSUME NEW j \in DOMAIN table
        PROVE  table[j] = p \/ Cells(p) \cap Cells(table[j]) = {}
    <3>0. PICK h \in DOMAIN file : \E n \in DOMAIN file[h].body : table[j] = file[h].body[n]
      BY <1>3
    <3>1. PICK n \in DOMAIN file[h].body : table[j] = file[h].body[n]
      BY <3>0
    <3>2. CASE file[h].name = "accent"
      <4>1. PICK v \in OwnedTiles :
              file[h].body[n] = AccentPatch(v, Boot("en", file)) /\ Cells(file[h].body[n]) = v
        BY <1>1, <3>2, EntryKinds
      <4>2. v = w \/ w \cap v = {}
        BY WindowsAssumption
      <4>3. QED
        BY <2>1, <3>1, <4>1, <4>2
    <3>3. CASE file[h].name # "accent"
      <4>1. Cells(file[h].body[n]) \cap UNION OwnedTiles = {}
        BY <1>1, <1>8, <3>3 DEF TilesAlone
      <4>2. QED
        BY <2>1, <3>1, <4>1
    <3>4. QED
      BY <3>2, <3>3
  <2>6. QED
    BY <1>6, <2>1, <2>3, <2>4, <2>5 DEF BaselineLangs, p
<1>9. QED
  BY <1>7, <1>8

(* AcceptedWindowsResolve, for every cart, every set of windows, languages    *)
(* and texts, and however often the generators ran, in whatever order: once  *)
(* check_localization.py accepts the table and a pass over it is over, each  *)
(* repaired row, each tile of the accent cell and of the box frame and each  *)
(* caption rectangle shows what was authored for the language selected.      *)
THEOREM AcceptedTablesResolve == TableSpec => []AcceptedWindowsResolve
<1>1. GenInv => AcceptedWindowsResolve
  BY RowsShow, WindowsShow DEF AcceptedWindowsResolve
<1>2. QED
  BY <1>1, StartIsGood, StepKeeps, PTL DEF TableSpec

(* SingleOwnerResolves of the table a game is played with, however the       *)
(* generators wrote it: a window with one owner that describes it from the   *)
(* cart up resolves in one step, though nothing was checked about it.        *)
THEOREM WrittenTablesResolve == TableSpec => []SingleOwnerResolves
<1>1. GenInv => SingleOwnerResolves
  <2> SUFFICES ASSUME GenInv, NEW i \in DOMAIN table, SoleOwner(i)
               PROVE  /\ Window(image, table[i]) \in Allowed(table[i])
                      /\ cursor > i => Window(image, table[i]) = Target(table[i], lang)
    BY DEF SingleOwnerResolves
  <2>1. IsTable(table)
    BY EntriesHold DEF GenInv, GoodFile
  <2>2. Keeper(table[i])
    BY DEF SoleOwner, Keeper
  <2>3. CASE mode = "edit"
    <3>1. Window(image, table[i]) \in Allowed(table[i])
      BY <2>2, <2>3 DEF GenInv, Keeper, Allowed
    <3>2. cursor = 1 /\ ~ (1 > i)
      BY <2>1, <2>3, TableIndices DEF GenInv
    <3>3. QED
      BY <3>1, <3>2
  <2>4. CASE mode = "play"
    BY <2>2, <2>4 DEF GenInv, KeepersResolve
  <2>5. QED
    BY <2>3, <2>4 DEF GenInv
<1>2. QED
  BY <1>1, StartIsGood, StepKeeps, PTL DEF TableSpec
=============================================================================
