--------------------------- MODULE GameRtl_proofs ---------------------------
(* Of game_rtl.c.  First the snapshots (GameRtl): for any cursors, snapshots
   and number of fields, a machine and its host state stay together, across
   every save, load and session.  Then the frame boundary (FieldBeam): for any
   field, scenes and handler times within the budgets of the code, the host's
   frame is one field of the PPU. *)
EXTENDS GameRtl, FieldBeam, TLAPS

(* What is true of the running machine and of every snapshot of one.  It is
   what the properties say of the present, said of the snapshots too: those
   are the states a load can bring back. *)
Sound(h, g, c, m) ==
  /\ "cursor" \notin m => h.resume = g.stop
  /\ "execution" \notin m => c = IF h.booted THEN g.field ELSE AtReset
  /\ "cursor" \notin m /\ h.booted => h.valid /\ h.latch = g.field
  /\ "cursor" \notin m /\ h.booted /\ Resumable(h.resume) => h.resume \in g.trail
  /\ "cursor" \notin m /\ h.booted /\ Resumable(h.lastGood) => h.lastGood \in g.trail
  /\ ~h.booted => h.resume = Zero /\ h.lastGood = Zero /\ ~h.valid

SoundNow == Sound(host, guest, cpu, lost)

SoundStore ==
  \A s \in Slot : store[s] # NoSnapshot =>
    Sound(store[s].host, store[s].guest, store[s].cpu, store[s].lost)

-----------------------------------------------------------------------------
LEMMA InitHolds == Init => TypeOK /\ SoundNow /\ SoundStore
<1> SUFFICES ASSUME Init
             PROVE  TypeOK /\ SoundNow /\ SoundStore
  OBVIOUS
<1>1. Zero \in Cursor /\ 0 \in Fields
  BY GameRtlAssumption, SMT DEF Cursor, Fields
<1>2. /\ knob \in { "off", "bad", "sticky" } /\ host \in Hosts /\ guest \in Guests
      /\ cpu \in Cpus
  BY <1>1, SMT DEF Init, NewGuest, Hosts, Guests, Cpus
<1>3. /\ entry \in [ pc : Code \union { Zero, ResetVector },
                     how : { "none", "boot", "resume", "recover" } ]
      /\ lost \subseteq Parts
  BY Zenon DEF Init
<1>4. store \in [ Slot -> Snapshots \union { NoSnapshot } ] /\ SoundStore
  BY SMT DEF Init, SoundStore
<1>5. SoundNow
  BY SMT DEF Init, NewGuest, SoundNow, Sound
<1>6. QED
  BY <1>2, <1>3, <1>4, <1>5 DEF TypeOK

(* A frame may be entered at a cursor that is code, or at the reset vector. *)
LEMMA EntryFacts ==
  ASSUME NEW h \in Hosts
  PROVE  /\ Entry(h) \in [ pc : Code \union { Zero, ResetVector },
                           how : { "none", "boot", "resume", "recover" } ]
         /\ Entry(h).how = "boot" => ~h.booted \/ ~Resumable(h.lastGood)
  BY SMT DEF Entry, Resumable, Hosts

(* Forcing a bad cursor leaves the rest of the host alone, and takes the
   fallback away or leaves it. *)
LEMMA ForcedFacts ==
  ASSUME NEW h \in Hosts
  PROVE  /\ Forced(h) \in Hosts
         /\ Forced(h).booted = h.booted
         /\ Forced(h).lastGood \in { h.lastGood, Mmio }
<1>1. Mmio \in Cursor
  BY GameRtlAssumption DEF Cursor
<1> DEFINE good == IF knob = "sticky" THEN Mmio ELSE h.lastGood
<1>2. good \in Cursor /\ good \in { h.lastGood, Mmio }
  BY <1>1, SMT DEF Hosts
<1>3. Forced(h) = [ h EXCEPT !.resume = Mmio, !.lastGood = good ]
  BY Zenon DEF Forced
<1> HIDE DEF good
<1>4. Forced(h) \in Hosts
  BY <1>1, <1>2, <1>3, Zenon DEF Hosts
<1>5. Forced(h).booted = h.booted /\ Forced(h).lastGood = good
  BY <1>3, SMT DEF Hosts
<1>6. QED
  BY <1>2, <1>4, <1>5, Zenon

(* A cursor handed back is the one to resume at, and the fallback if it is
   code. *)
LEMMA OneResume ==
  ASSUME NEW h \in Hosts, NEW pc \in Cursor
  PROVE  LET r == WithResume(h, pc)
         IN r \in Hosts /\ r.resume = pc /\ r.lastGood \in { h.lastGood, pc }
<1> DEFINE good == IF Resumable(pc) THEN pc ELSE h.lastGood
           r == WithResume(h, pc)
<1>1. good \in Cursor /\ good \in { h.lastGood, pc }
  BY SMT DEF Hosts
<1>2. r = [ h EXCEPT !.resume = pc, !.lastGood = good ]
  BY Zenon DEF WithResume
<1> HIDE DEF good, r
<1>3. r \in Hosts
  BY <1>1, <1>2, Zenon DEF Hosts
<1>4. r.resume = pc /\ r.lastGood = good
  BY <1>2, SMT DEF Hosts
<1>5. QED
  BY <1>1, <1>3, <1>4, Zenon DEF r

(* Two cursors handed back one after the other. *)
LEMMA ResumeFacts ==
  ASSUME NEW h \in Hosts, NEW first \in Cursor, NEW last \in Cursor
  PROVE  LET r == WithResume(WithResume(h, first), last)
         IN /\ r \in Hosts /\ r.resume = last
            /\ r.lastGood \in { h.lastGood, first, last }
<1> DEFINE q == WithResume(h, first)
           r == WithResume(q, last)
<1>1. q \in Hosts /\ q.lastGood \in { h.lastGood, first }
  BY OneResume, Zenon
<1> HIDE DEF q
<1>2. r \in Hosts /\ r.resume = last /\ r.lastGood \in { q.lastGood, last }
  BY <1>1, OneResume, Zenon
<1>3. QED
  BY <1>1, <1>2, Zenon DEF q

-----------------------------------------------------------------------------
LEMMA RunFrameKeeps ==
  ASSUME TypeOK, SoundNow, SoundStore, RunFrame
  PROVE  TypeOK' /\ SoundNow' /\ SoundStore'
<1>1. PICK force \in BOOLEAN, first \in Cursor, last \in Cursor :
        LET h == IF force THEN Forced(host) ELSE host
        IN /\ force => knob # "off" /\ host.booted
           /\ entry' = Entry(h)
           /\ host' = [ WithResume(WithResume(h, first), last) EXCEPT
                          !.booted = TRUE,
                          !.latch = LiveSprites(guest), !.valid = TRUE ]
           /\ guest' = [ field |-> guest.field + 1, stop |-> last,
                         trail |-> { first, last } \union
                                   IF Entry(h).how = "boot" THEN {} ELSE guest.trail ]
           /\ cpu' = guest.field + 1
  BY Zenon DEF RunFrame
<1> DEFINE h == IF force THEN Forced(host) ELSE host
           r == WithResume(WithResume(h, first), last)
<1>2. /\ h \in Hosts /\ h.booted = host.booted
      /\ Resumable(h.lastGood) => h.lastGood = host.lastGood
  <2>1. host \in Hosts /\ ~Resumable(Mmio)
    BY GameRtlAssumption, SMT DEF TypeOK, Resumable
  <2>2. QED
    BY <2>1, ForcedFacts, SMT
<1>3. /\ r \in Hosts /\ r.resume = last
      /\ r.lastGood \in { h.lastGood, first, last }
  BY <1>2, ResumeFacts, Zenon
<1>4. /\ entry' = Entry(h) /\ cpu' = guest.field + 1
      /\ host' = [ r EXCEPT !.booted = TRUE, !.latch = LiveSprites(guest),
                            !.valid = TRUE ]
      /\ guest' = [ field |-> guest.field + 1, stop |-> last,
                    trail |-> { first, last } \union
                              IF Entry(h).how = "boot" THEN {} ELSE guest.trail ]
  BY <1>1, Zenon
<1>5. /\ guest.field + 1 \in Fields /\ LiveSprites(guest) = guest.field + 1
      /\ guest.trail \in SUBSET Cursor
  BY GameRtlAssumption, SMT DEF TypeOK, RunFrame, Guests, Fields, LiveSprites
<1>6. /\ entry' \in [ pc : Code \union { Zero, ResetVector },
                      how : { "none", "boot", "resume", "recover" } ]
      /\ Entry(h).how = "boot" => ~host.booted \/ ~Resumable(h.lastGood)
  BY <1>2, <1>4, EntryFacts, Zenon
<1> HIDE DEF h, r
<1>7. host' \in Hosts /\ guest' \in Guests /\ cpu' \in Cpus
  <2>1. host' \in Hosts
    BY <1>3, <1>4, <1>5, Zenon DEF Hosts
  <2>2. guest' \in Guests
    BY <1>4, <1>5, SMT DEF Guests
  <2>3. QED
    BY <1>4, <1>5, <2>1, <2>2, Zenon DEF Cpus
<1>8. /\ host'.resume = last /\ host'.lastGood = r.lastGood
      /\ host'.booted /\ host'.valid /\ host'.latch = guest.field + 1
  BY <1>3, <1>4, <1>5, SMT DEF Hosts
<1>9. /\ guest'.field = guest.field + 1 /\ guest'.stop = last
      /\ guest'.trail = { first, last } \union
                        IF Entry(h).how = "boot" THEN {} ELSE guest.trail
  BY <1>4, SMT
<1>10. TypeOK'
  BY <1>6, <1>7, SMT DEF TypeOK, RunFrame
<1>11. ASSUME "cursor" \notin lost, Resumable(r.lastGood)
       PROVE  r.lastGood \in guest'.trail
  <2>1. CASE r.lastGood \in { first, last }
    BY <1>9, <2>1, Zenon
  <2>2. CASE r.lastGood = h.lastGood
    <3>1. Resumable(h.lastGood) /\ h.lastGood = host.lastGood
      BY <1>2, <1>11, <2>2, Zenon
    <3>2. host.booted
      <4>1. ~host.booted => host.lastGood = Zero
        BY Zenon DEF SoundNow, Sound
      <4>2. ~Resumable(Zero)
        BY GameRtlAssumption, Zenon DEF Resumable
      <4>3. QED
        BY <3>1, <4>1, <4>2, Zenon
    <3>3. Entry(h).how # "boot" /\ host.lastGood \in guest.trail
      BY <1>6, <1>11, <3>1, <3>2, Zenon DEF SoundNow, Sound
    <3>4. QED
      BY <1>9, <2>2, <3>1, <3>3, Zenon
  <2>3. QED
    BY <1>3, <1>11, <2>1, <2>2, Zenon
<1>12. SoundNow'
  <2>1. lost' = lost
    BY DEF RunFrame
  <2>2. last \in guest'.trail
    BY <1>9, Zenon
  <2>3. QED
    BY <1>4, <1>8, <1>9, <1>11, <2>1, <2>2, Zenon DEF SoundNow, Sound
<1>13. SoundStore'
  BY SMT DEF RunFrame, SoundStore
<1>14. QED
  BY <1>10, <1>12, <1>13

LEMMA SaveKeeps ==
  ASSUME TypeOK, SoundNow, SoundStore, NEW s \in Slot, Save(s)
  PROVE  TypeOK' /\ SoundNow' /\ SoundStore'
<1> DEFINE snap == [ host |-> host, guest |-> guest, cpu |-> cpu, lost |-> lost ]
<1>1. snap \in Snapshots
  BY SMT DEF TypeOK, Snapshots
<1>2. /\ snap.host = host /\ snap.guest = guest /\ snap.cpu = cpu /\ snap.lost = lost
  BY SMT
<1>3. store' = [ store EXCEPT ![s] = snap ]
  BY DEF Save
<1> HIDE DEF snap
<1>4. TypeOK'
  BY <1>1, <1>3, SMT DEF Save, TypeOK
<1>5. SoundNow'
  BY SMT DEF Save, SoundNow
<1>6. SoundStore'
  <2>1. ASSUME NEW t \in Slot, store'[t] # NoSnapshot
        PROVE  Sound(store'[t].host, store'[t].guest, store'[t].cpu, store'[t].lost)
    <3>1. CASE t = s
      <4>1. store'[t] = snap
        BY <1>3, <3>1, SMT DEF TypeOK
      <4>2. QED
        BY <1>2, <4>1, Zenon DEF SoundNow
    <3>2. CASE t # s
      <4>1. store'[t] = store[t]
        BY <1>3, <3>2, SMT DEF TypeOK
      <4>2. QED
        BY <2>1, <4>1, Zenon DEF SoundStore
    <3>3. QED
      BY <3>1, <3>2
  <2>2. QED
    BY <2>1, Zenon DEF SoundStore, Sound
<1>7. QED
  BY <1>4, <1>5, <1>6

LEMMA LoadKeeps ==
  ASSUME TypeOK, SoundNow, SoundStore, NEW s \in Slot, Load(s)
  PROVE  TypeOK' /\ SoundNow' /\ SoundStore'
<1> DEFINE snap == store[s]
           extra == LoadedExtra(host, snap)
<1>1. /\ snap \in Snapshots /\ host \in Hosts
      /\ Sound(snap.host, snap.guest, snap.cpu, snap.lost)
  BY SMT DEF Load, TypeOK, SoundStore
<1>2. PICK read \in BOOLEAN : cpu' = LoadedCpu(snap, read) /\ lost' = LostBy(snap, read)
  BY Zenon DEF Load
<1>3. guest' = snap.guest /\ host' = [ extra EXCEPT !.lastGood = extra.resume ]
  BY Zenon DEF Load, StateLoaded
<1>4. /\ snap.host \in Hosts /\ snap.guest \in Guests /\ snap.cpu \in Cpus
      /\ snap.lost \subseteq Parts
  BY <1>1, SMT DEF Snapshots
<1>5. /\ extra \in Hosts
      /\ Refused(snap) => extra = host
      /\ ~Refused(snap) => /\ extra.resume = snap.host.resume
                           /\ extra.booted = snap.host.booted
                           /\ extra.latch = snap.host.latch
                           /\ extra.valid = snap.host.valid
  BY <1>1, <1>4, SMT DEF LoadedExtra, Hosts
<1>6. cpu' \in Cpus /\ lost' \subseteq Parts
  BY <1>2, <1>4, Zenon DEF LoadedCpu, LostBy, Parts, TypeOK
<1>7. /\ Refused(snap) => "cursor" \in lost' /\ "execution" \in lost'
      /\ ~Refused(snap) /\ "cursor" \notin lost' => "cursor" \notin snap.lost
      /\ ~Refused(snap) /\ "execution" \notin lost'
           => "execution" \notin snap.lost /\ cpu' = snap.cpu
  BY <1>2, Zenon DEF LoadedCpu, LostBy, Parts
<1> HIDE DEF extra, snap
<1>8. /\ host' \in Hosts
      /\ host'.resume = extra.resume /\ host'.lastGood = extra.resume
      /\ host'.booted = extra.booted /\ host'.latch = extra.latch
      /\ host'.valid = extra.valid
  BY <1>3, <1>5, SMT DEF Hosts
<1>9. TypeOK'
  BY <1>3, <1>4, <1>6, <1>8, SMT DEF Load, TypeOK
<1>10. SoundNow'
  <2>1. CASE Refused(snap)
    <3>1. "cursor" \in lost' /\ "execution" \in lost' /\ extra = host
      BY <1>5, <1>7, <2>1, Zenon
    <3>2. ~host.booted => host.resume = Zero /\ ~host.valid
      BY Zenon DEF SoundNow, Sound
    <3>3. QED
      BY <1>8, <3>1, <3>2, Zenon DEF SoundNow, Sound
  <2>2. CASE ~Refused(snap)
    <3>1. /\ guest' = snap.guest
          /\ host'.resume = snap.host.resume /\ host'.lastGood = snap.host.resume
          /\ host'.booted = snap.host.booted /\ host'.latch = snap.host.latch
          /\ host'.valid = snap.host.valid
      BY <1>3, <1>5, <1>8, <2>2, Zenon
    <3>2. /\ "cursor" \notin lost' => snap.host.resume = snap.guest.stop
          /\ "cursor" \notin lost' /\ snap.host.booted
               => /\ snap.host.valid /\ snap.host.latch = snap.guest.field
                  /\ Resumable(snap.host.resume) => snap.host.resume \in snap.guest.trail
          /\ ~snap.host.booted => snap.host.resume = Zero /\ ~snap.host.valid
      BY <1>1, <1>7, <2>2, Zenon DEF Sound
    <3>3. "execution" \notin lost'
             => cpu' = IF snap.host.booted THEN snap.guest.field ELSE AtReset
      BY <1>1, <1>7, <2>2, Zenon DEF Sound
    <3>4. QED
      BY <3>1, <3>2, <3>3, Zenon DEF SoundNow, Sound
  <2>3. QED
    BY <2>1, <2>2
<1>11. SoundStore'
  BY SMT DEF Load, SoundStore
<1>12. QED
  BY <1>9, <1>10, <1>11

LEMMA ResetKeeps ==
  ASSUME TypeOK, SoundStore, SessionReset
  PROVE  TypeOK' /\ SoundNow' /\ SoundStore'
<1>1. Zero \in Cursor /\ 0 \in Fields /\ guest.field \in Fields
  BY GameRtlAssumption, SMT DEF Cursor, Fields, TypeOK, Guests
<1>2. host' \in Hosts /\ guest' \in Guests /\ cpu' \in Cpus /\ lost' \subseteq Parts
  BY <1>1, SMT DEF SessionReset, Cold, NewGuest, Hosts, Guests, Cpus
<1>3. TypeOK'
  <2>1. entry' \in [ pc : Code \union { Zero, ResetVector },
                     how : { "none", "boot", "resume", "recover" } ]
    BY Zenon DEF SessionReset
  <2>2. QED
    BY <1>2, <2>1, Zenon DEF SessionReset, TypeOK
<1>4. SoundNow' /\ SoundStore'
  BY SMT DEF SessionReset, Cold, NewGuest, SoundNow, SoundStore, Sound
<1>5. QED
  BY <1>3, <1>4

LEMMA Invariant == Spec => [](TypeOK /\ SoundNow /\ SoundStore)
<1>1. TypeOK /\ SoundNow /\ SoundStore /\ [Next]_vars
        => (TypeOK /\ SoundNow /\ SoundStore)'
  <2>1. CASE UNCHANGED vars
    BY <2>1, SMT DEF vars, TypeOK, SoundNow, SoundStore
  <2>2. QED
    BY <2>1, RunFrameKeeps, SaveKeeps, LoadKeeps, ResetKeeps, Zenon DEF Next
<1>2. QED
  BY <1>1, InitHolds, PTL DEF Spec

-----------------------------------------------------------------------------
(* Every frame enters the guest at code or at the reset vector, and the rest
   of the state keeps its type. *)
THEOREM TypeCorrect == Spec => []TypeOK
  BY Invariant, PTL

(* A frame resumes, or recovers, on the timeline of the guest it runs. *)
THEOREM FramesStayOnTimeline == Spec => []OnOwnTimeline
<1>1. SoundNow => OnOwnTimeline
  BY Zenon DEF SoundNow, Sound, OnOwnTimeline
<1>2. QED
  BY <1>1, Invariant, PTL

(* Cursor and execution state are of the machine's moment, each unless a load
   did not bring it along: GameStateLoadExtra may refuse the whole chunk, or
   install its cursor and find no execution state behind it. *)
THEOREM MomentsAgree == Spec => []OneMoment
<1>1. SoundNow => OneMoment
  BY Zenon DEF SoundNow, Sound, OneMoment
<1>2. QED
  BY <1>1, Invariant, PTL

(* Every picture pairs sprites and background of one field. *)
THEOREM PicturesPair == Spec => []SpritesMatchBackground
<1>1. SoundNow => SpritesMatchBackground
  BY SMT DEF SoundNow, Sound, SpritesMatchBackground, DrawnSprites
<1>2. QED
  BY <1>1, Invariant, PTL

(* What GameSessionReset clears stays cleared until the first frame: the host's
   cursors, its latch and the CPU, while the guest's memory is the old one. *)
THEOREM HostsStartCold == Spec => []HostStartsCold
<1>1. SoundNow => HostStartsCold
  BY Zenon DEF SoundNow, Sound, HostStartsCold
<1>2. QED
  BY <1>1, Invariant, PTL

-----------------------------------------------------------------------------
(* The frame boundary: the lines of the field in clocks. *)

Start(l) == l * PerLine
VblankStart == Start(Vblank)

LEMMA Grid ==
  /\ PerLine \in Nat /\ PerLine >= 2 /\ Field \in Nat /\ Vblank \in Nat /\ Vblank >= 1
  /\ VblankStart \in Nat /\ VblankStart >= PerLine /\ VblankStart + PerLine <= Field
  /\ \A l \in 0..(Vblank - 1) : Start(l) \in Nat /\ Start(l) + PerLine <= VblankStart
  /\ \A l, m \in 0..(Vblank - 1) : l < m => Start(l) + PerLine <= Start(m)
  /\ Field = PerFrame /\ Field - VblankStart = (Lines - Vblank) * PerLine
<1>1. PerLine \in Nat /\ PerLine >= 2 /\ Lines \in Nat /\ Vblank \in Nat /\ Vblank >= 1
      /\ Vblank + 1 <= Lines
  BY FieldBeamAssumption
<1>2. ASSUME NEW l \in Nat, NEW m \in Nat, l + 1 <= m
      PROVE  Start(l) \in Nat /\ Start(l) + PerLine <= Start(m)
  <2>1. PICK d \in Nat : m = l + 1 + d
    BY <1>2
  <2>2. m * PerLine = l * PerLine + PerLine + d * PerLine
    BY <2>1, <1>1
  <2>3. d * PerLine \in Nat /\ l * PerLine \in Nat
    BY <1>1
  <2> QED BY <2>2, <2>3, <1>1 DEF Start
<1>3. VblankStart \in Nat /\ Field \in Nat
  BY <1>1 DEF VblankStart, Start, Field
<1>4. VblankStart + PerLine <= Field
  BY <1>2, <1>1 DEF VblankStart, Field, Start
<1>5. VblankStart >= PerLine
  <2>1. Start(0) = 0 BY <1>1 DEF Start
  <2> QED BY <2>1, <1>2, <1>1 DEF VblankStart
<1>6. Field - VblankStart = (Lines - Vblank) * PerLine
  BY <1>1 DEF Field, VblankStart, Start
<1> QED BY <1>1, <1>2, <1>3, <1>4, <1>5, <1>6 DEF VblankStart, Field, PerFrame

LEMMA LineOf ==
  ASSUME NEW b \in Nat, NEW l \in Nat
  PROVE  /\ b \div PerLine \in Nat
         /\ b \div PerLine >= l <=> b >= Start(l)
         /\ Start(l) <= b /\ b < Start(l) + PerLine => b \div PerLine = l
<1> DEFINE q == b \div PerLine
<1>1. PerLine \in Nat /\ PerLine >= 2
  BY FieldBeamAssumption
<1>2. q \in Nat /\ q * PerLine <= b /\ b < q * PerLine + PerLine
  BY <1>1
<1>3. ASSUME NEW x \in Nat, NEW y \in Nat, x < y
      PROVE  x * PerLine + PerLine <= y * PerLine
  <2>1. PICK d \in Nat : y = x + 1 + d
    BY <1>3
  <2>2. y * PerLine = x * PerLine + PerLine + d * PerLine
    BY <2>1, <1>1
  <2>3. d * PerLine \in Nat
    BY <1>1
  <2> QED BY <2>2, <2>3, <1>1
<1>4. l * PerLine \in Nat /\ q * PerLine \in Nat
  BY <1>1, <1>2
<1>5. CASE q < l
  BY <1>5, <1>3, <1>4, <1>2, <1>1 DEF Start
<1>6. CASE q > l
  BY <1>6, <1>3, <1>4, <1>2, <1>1 DEF Start
<1>7. CASE q = l
  BY <1>7, <1>4, <1>2, <1>1 DEF Start
<1> QED BY <1>5, <1>6, <1>7, <1>2

LEMMA ModField ==
  ASSUME NEW x \in Int
  PROVE  /\ x % Field \in Nat /\ x % Field < Field
         /\ x >= 0 /\ x < Field => x % Field = x
         /\ x >= Field /\ x < Field + Field => x % Field = x - Field
         /\ x < 0 /\ x + Field >= 0 => x % Field = x + Field
<1>1. Field \in Nat /\ Field > 0
  BY Grid
<1> QED BY <1>1

LEMMA WrapOnce ==
  \A y \in Nat : y < Field => y % Field = y /\ (y + Field) % Field = y
<1> SUFFICES ASSUME NEW y \in Nat, y < Field
             PROVE  y % Field = y /\ (y + Field) % Field = y
  OBVIOUS
<1>1. y + Field >= Field /\ y + Field < Field + Field /\ y + Field \in Int
  BY Grid
<1> QED BY <1>1, ModField, Grid

(* The part of the state every step keeps in its type. *)
BeamType ==
  /\ beamPc \in {"host", "stall", "slice", "ran", "drain"} /\ booted \in BOOLEAN
  /\ beam \in Nat /\ beam < Field /\ owed \in Nat /\ left \in Int /\ turns \in Nat
  /\ inIrq \in BOOLEAN
  /\ plan \in Chains \cup {<<>>} /\ chain \in Seq(0..(Vblank - 1))

(* The chain is the rest of the plan, and the journal what came before it. *)
Serviced == Len(plan) - Len(chain)
Progress ==
  /\ Len(chain) <= Len(plan)
  /\ \A i \in 1..Len(chain) : chain[i] = plan[Serviced + i]
  /\ journal = {<<plan[i], "split">> : i \in 1..Serviced}

(* A pending split has stopped the beam a clock into its line, and the beam *)
(* of the visible field has not passed the armed one.                       *)
Ahead ==
  /\ inIrq => chain # <<>> /\ beam = Start(Head(chain)) + 1
  /\ ~inIrq /\ chain # <<>> /\ beam < VblankStart => beam <= Start(Head(chain))

LEMMA PlanType ==
  ASSUME NEW c \in Chains \cup {<<>>}
  PROVE  /\ c \in Seq(0..(Vblank - 1))
         /\ \A i, j \in DOMAIN c : i < j => c[i] < c[j]
         /\ MaxDrain >= 2 * Len(c) + 2
<1>1. CASE c = <<>>
  BY <1>1, FrameBudgetAssumption
<1>2. CASE c \in Chains
  BY <1>2, FieldBeamAssumption, FrameBudgetAssumption
<1> QED BY <1>1, <1>2

LEMMA HeadOnLine ==
  ASSUME NEW c \in Seq(0..(Vblank - 1)), c # <<>>
  PROVE  /\ Head(c) \in 0..(Vblank - 1) /\ Head(c) = c[1] /\ 1 <= Len(c)
         /\ Start(Head(c)) \in Nat /\ Start(Head(c)) + PerLine <= VblankStart
BY Grid

LEMMA Clocks ==
  ASSUME beam \in Nat, beam < Field, NEW l \in Nat, Start(l) \in Nat, Start(l) < Field
  PROVE  ClocksTo(l) = IF Start(l) >= beam THEN Start(l) - beam ELSE Start(l) - beam + Field
BY ModField, Grid DEF ClocksTo, Start

(* What a synchronisation does, in terms of the lines of the field. *)
LEMMA SyncResult ==
  ASSUME BeamType, NEW n \in Nat, Sync(n)
  PROVE  /\ beam' \in Nat /\ beam' < Field /\ owed' \in Nat /\ inIrq' \in BOOLEAN
         /\ inIrq' => /\ chain # <<>> /\ beam' = Start(Head(chain)) + 1
         /\ ~inIrq' => /\ owed' = 0
                       /\ chain # <<>> => owed + n <= ClocksTo(Head(chain))
                       /\ beam' = (beam + owed + n) % Field
<1> DEFINE clocks == owed + n
           match == chain # <<>> /\ ClocksTo(Head(chain)) < clocks
           moved == IF match THEN ClocksTo(Head(chain)) + 1 ELSE clocks
           to == ClocksTo(Head(chain))
           s == Start(Head(chain))
<1>0. beam \in Nat /\ beam < Field /\ owed \in Nat /\ chain \in Seq(0..(Vblank - 1))
      /\ Field \in Nat /\ Field > 0
  BY Grid DEF BeamType
<1>1. beam' = (beam + moved) % Field /\ owed' = clocks - moved /\ inIrq' = match
  BY DEF Sync
<1>2. clocks \in Nat /\ beam + clocks = beam + owed + n
  BY <1>0
<1>3. chain # <<>> => /\ s \in Nat /\ s + 1 < Field /\ to \in Nat
                      /\ beam + to = s \/ beam + to = s + Field
  <2> SUFFICES ASSUME chain # <<>>
               PROVE  s \in Nat /\ s + 1 < Field /\ to \in Nat
                      /\ (beam + to = s \/ beam + to = s + Field)
    OBVIOUS
  <2>1. Head(chain) \in Nat /\ s \in Nat /\ s + PerLine <= VblankStart
    BY <1>0, HeadOnLine, Grid
  <2>2. s + 1 < Field
    BY <2>1, Grid
  <2>3. to = IF s >= beam THEN s - beam ELSE s - beam + Field
    BY <2>1, <2>2, <1>0, Clocks
  <2> QED BY <2>1, <2>2, <2>3, <1>0
<1>4. CASE match
  <2>1. moved = to + 1 /\ chain # <<>> /\ to < clocks
    BY <1>4
  <2>2. owed' \in Nat
    BY <2>1, <1>1, <1>2, <1>3
  <2>3. beam + moved = s + 1 \/ beam + moved = s + 1 + Field
    BY <2>1, <1>3, <1>0
  <2>4. (s + 1) % Field = s + 1 /\ (s + 1 + Field) % Field = s + 1
    <3>1. s + 1 \in Nat /\ s + 1 < Field
      BY <2>1, <1>3
    <3> QED BY <3>1, WrapOnce
  <2>5. beam' = s + 1
    BY <2>3, <2>4, <1>1
  <2>6. inIrq' = TRUE
    BY <1>1, <1>4
  <2>7. s + 1 \in Nat /\ s + 1 < Field
    BY <2>1, <1>3
  <2> HIDE DEF match, moved
  <2> QED BY <2>1, <2>2, <2>5, <2>6, <2>7
<1>5. CASE ~match
  <2>1. moved = clocks /\ ~inIrq'
    BY <1>1, <1>5
  <2>2. owed' = 0 /\ beam' = (beam + owed + n) % Field
    BY <2>1, <1>1, <1>2
  <2>3. beam' \in Nat /\ beam' < Field
    BY <2>2, <1>0, ModField
  <2>4. chain # <<>> => owed + n <= to
    BY <1>5, <1>3, <1>2
  <2> QED BY <2>1, <2>2, <2>3, <2>4, <1>1
<1> QED BY <1>4, <1>5

(* Without a match the beam ends before the armed split, in what is left of *)
(* vblank or in the visible field.                                          *)
LEMMA SyncAhead ==
  ASSUME BeamType, Ahead, NEW n \in Nat, Sync(n), chain # <<>>, ~inIrq, ~inIrq'
  PROVE  /\ beam' < VblankStart => beam' <= Start(Head(chain))
         /\ beam < VblankStart => beam' < VblankStart
         /\ beam' >= VblankStart => beam' = beam + owed + n
<1> DEFINE s == Start(Head(chain))
           x == beam + owed + n
<1>0. beam \in Nat /\ beam < Field /\ owed \in Nat /\ chain \in Seq(0..(Vblank - 1))
      /\ Field \in Nat /\ VblankStart \in Nat /\ VblankStart < Field
  BY Grid DEF BeamType
<1>1. s \in Nat /\ s < VblankStart /\ Head(chain) \in Nat
  BY <1>0, HeadOnLine, Grid
<1>2. beam' = x % Field /\ owed + n <= ClocksTo(Head(chain))
  BY SyncResult
<1>3. ClocksTo(Head(chain)) = IF s >= beam THEN s - beam ELSE s - beam + Field
  BY <1>1, <1>0, Clocks
<1>4. x \in Nat /\ x >= beam
  BY <1>0
<1>5. CASE s >= beam
  <2>1. x <= s /\ x < Field
    BY <1>5, <1>0, <1>1, <1>2, <1>3
  <2>2. beam' = x
    BY <2>1, <1>2, <1>4, ModField
  <2> QED BY <2>1, <2>2, <1>0, <1>1
<1>6. CASE s < beam
  <2>1. beam >= VblankStart
    BY <1>6, <1>1, <1>0 DEF Ahead
  <2>2. x <= s + Field
    BY <1>6, <1>0, <1>1, <1>2, <1>3
  <2>3. CASE x < Field
    <3>1. beam' = x
      BY <2>3, <1>2, <1>4, ModField
    <3> QED BY <3>1, <2>1, <1>4, <1>0
  <2>4. CASE x >= Field
    <3>1. x % Field = x - Field
      <4> DEFINE y == x - Field
      <4>1. y \in Nat /\ y < Field /\ x = y + Field
        BY <2>4, <2>2, <1>4, <1>1, <1>0
      <4> HIDE DEF x, y
      <4>2. x % Field = y
        BY <4>1, WrapOnce
      <4> QED BY <4>2 DEF y
    <3>2. beam' <= s
      BY <3>1, <1>2, <2>2, <1>4, <1>1, <1>0
    <3> QED BY <3>1, <3>2, <1>2, <2>1, <1>1, <1>4, <1>0
  <2> QED BY <2>3, <2>4, <1>4, <1>0
<1> QED BY <1>5, <1>6, <1>0, <1>1

(* In the vblank a frame begins in, every slice takes the beam a line on    *)
(* and the frame has clocks left.                                           *)
Walking ==
  beamPc \in {"stall", "slice", "ran"} /\ chain # <<>> /\ beam >= VblankStart =>
    /\ left + beam + owed >= Field + VblankStart
    /\ beamPc = "stall" => turns = 0 /\ \A m \in StallTimes : left > m
    /\ beamPc = "slice" => /\ left > 0 /\ Start(turns) <= beam - VblankStart
                           /\ turns > 0 => owed = 0
    /\ beamPc = "ran" => owed = 0 /\ Start(turns) <= beam - VblankStart + PerLine

(* Steps the drain still takes at most. *)
StepsLeft == 2 * Len(chain) - (IF inIrq THEN 1 ELSE 0)
               + (IF chain = <<>> /\ owed = 0 THEN 1 ELSE 2)

Ending ==
  /\ beamPc \in {"host", "stall"} => ~inIrq
  /\ beamPc = "host" => chain = <<>> /\ (booted => beam >= VblankStart)
  /\ beamPc = "stall" => beam >= VblankStart
  /\ beamPc = "drain" => /\ chain # <<>> => beam < VblankStart
                         /\ beam < VblankStart => turns + StepsLeft <= MaxDrain

(* The inductive invariant of the frame boundary. *)
BeamInv == BeamType /\ Progress /\ Ahead /\ Walking /\ Ending /\ NmiInVblank

LEMMA InVisible ==
  ASSUME beam \in Nat
  PROVE  /\ Line \in Nat
         /\ Line >= Vblank <=> beam >= VblankStart
         /\ Line < Vblank <=> beam < VblankStart
BY LineOf, Grid DEF Line, VblankStart

LEMMA StartNext ==
  ASSUME NEW t \in Nat
  PROVE  Start(t) \in Nat /\ Start(t + 1) = Start(t) + PerLine /\ Start(0) = 0
BY Grid DEF Start

LEMMA BeamStarts == BeamInit => BeamInv
<1> SUFFICES ASSUME BeamInit PROVE BeamInv
  OBVIOUS
<1> USE DEF BeamInit
<1>1. BeamType
  <2>1. chain \in Seq(0..(Vblank - 1)) /\ plan \in Chains \cup {<<>>}
    OBVIOUS
  <2>2. beam \in Nat /\ beam < Field
    BY Grid
  <2>3. booted \in BOOLEAN /\ inIrq \in BOOLEAN
    OBVIOUS
  <2>4. owed \in Nat /\ left \in Int /\ turns \in Nat
    OBVIOUS
  <2> QED BY <2>1, <2>2, <2>3, <2>4, Zenon DEF BeamType
<1>2. Progress
  BY DEF Progress, Serviced
<1>3. Ahead /\ Walking /\ Ending /\ NmiInVblank
  BY DEF Ahead, Walking, Ending, NmiInVblank
<1> QED BY <1>1, <1>2, <1>3 DEF BeamInv

LEMMA FrameStarts == BeamInv /\ StartFrame => BeamInv'
<1> SUFFICES ASSUME BeamInv, StartFrame PROVE BeamInv'
  OBVIOUS
<1>0. /\ beam \in Nat /\ beam < Field /\ owed \in Nat /\ left \in Int /\ booted \in BOOLEAN
      /\ PerFrame \in Nat /\ PerFrame = Field /\ VblankStart \in Nat
      /\ beamPc = "host" /\ ~inIrq /\ inIrq \in BOOLEAN /\ chain = <<>> /\ (booted => beam >= VblankStart)
      /\ Len(<<>>) = 0
  BY Grid DEF BeamInv, BeamType, Ending, StartFrame
<1>1. beamPc' = (IF booted THEN "stall" ELSE "slice") /\ booted' = TRUE /\ turns' = 0
      /\ inIrq' = inIrq
  BY DEF StartFrame
<1>2. CASE booted /\ nmiOn
  <2>1. PICK n \in NmiTimes, c \in Chains :
          /\ nmiLine' = Line /\ Held(n) /\ left' = PerFrame - n
          /\ journal' = IF Line < Vblank THEN {<<Line, "nmi">>} ELSE {}
          /\ chain' = c /\ plan' = c
    BY <1>2 DEF StartFrame
  <2>2. n \in Nat /\ \A m \in StallTimes : m \in Nat /\ n + m < PerFrame
    BY FieldBeamAssumption, FrameBudgetAssumption
  <2>3. beam' = beam /\ owed' = owed + n /\ Line >= Vblank /\ Line \in Nat /\ journal' = {}
        /\ Vblank \in Nat
    BY <2>1, <1>0, <1>2, InVisible, Grid DEF Held
  <2>4. BeamType'
    BY <2>1, <2>2, <2>3, <1>0, <1>1, PlanType DEF BeamType
  <2>5. Progress'
    BY <2>1, <2>3, PlanType DEF Progress, Serviced
  <2>6. Ahead' /\ Ending' /\ NmiInVblank'
    BY <2>1, <2>3, <1>0, <1>1, <1>2 DEF Ahead, Ending, NmiInVblank, VblankStart
  <2>7. Walking'
    BY <2>1, <2>2, <2>3, <1>0, <1>1, <1>2 DEF Walking, VblankStart
  <2> QED BY <2>4, <2>5, <2>6, <2>7 DEF BeamInv
<1>3. CASE ~(booted /\ nmiOn)
  <2>1. /\ nmiLine' = -1 /\ journal' = {} /\ left' = PerFrame /\ plan' = <<>>
        /\ beam' = beam /\ owed' = owed /\ chain' = <<>>
    BY <1>3, <1>0 DEF StartFrame
  <2>2. BeamType'
    BY <2>1, <1>0, <1>1 DEF BeamType
  <2>3. Progress'
    BY <2>1, <1>0 DEF Progress, Serviced
  <2>4. Ahead' /\ Ending' /\ NmiInVblank' /\ Walking'
    BY <2>1, <1>0, <1>1 DEF Ahead, Ending, NmiInVblank, Walking, VblankStart
  <2> QED BY <2>2, <2>3, <2>4 DEF BeamInv
<1> QED BY <1>2, <1>3

LEMMA StallSteps == BeamInv /\ Stall => BeamInv'
<1> SUFFICES ASSUME BeamInv, Stall PROVE BeamInv'
  OBVIOUS
<1>0. /\ beam \in Nat /\ beam < Field /\ owed \in Nat /\ left \in Int /\ VblankStart \in Nat
      /\ Field \in Nat
      /\ beamPc = "stall" /\ ~inIrq /\ beam >= VblankStart /\ beamPc' = "slice"
      /\ UNCHANGED <<booted, nmiOn, chain, inIrq, plan, journal, nmiLine, turns>>
  BY Grid DEF BeamInv, BeamType, Ending, Stall
<1>1. PICK m \in StallTimes : Held(m) /\ left' = left - m
  BY DEF Stall
<1>2. m \in Nat /\ beam' = beam /\ owed' = owed + m
  BY <1>1, FieldBeamAssumption DEF Held
<1>3. BeamType'
  BY <1>0, <1>1, <1>2 DEF BeamInv, BeamType
<1>4. Progress' /\ NmiInVblank'
  BY <1>0 DEF BeamInv, Progress, Serviced, NmiInVblank
<1>5. Ahead' /\ Ending'
  BY <1>0, <1>2 DEF BeamInv, Ahead, Ending, VblankStart, Start
<1>6. Walking'
  <2>1. ASSUME chain # <<>>
        PROVE  turns = 0 /\ left > m /\ left + beam + owed >= Field + VblankStart
    BY <2>1, <1>0 DEF BeamInv, Walking
  <2>2. chain # <<>> => Start(turns) = 0
    BY <2>1, StartNext
  <2> QED BY <2>1, <2>2, <1>0, <1>1, <1>2 DEF Walking, VblankStart, Start
<1> QED BY <1>3, <1>4, <1>5, <1>6 DEF BeamInv

LEMMA MainlineSteps == BeamInv /\ RunMainline => BeamInv'
<1> SUFFICES ASSUME BeamInv, RunMainline PROVE BeamInv'
  OBVIOUS
<1>0. /\ beam \in Nat /\ beam < Field /\ owed \in Nat /\ left \in Int /\ turns \in Nat
      /\ Field \in Nat /\ VblankStart \in Nat /\ chain \in Seq(0..(Vblank - 1))
      /\ beamPc = "slice" /\ ~inIrq /\ beamPc' = "ran" /\ turns' = turns + 1
      /\ UNCHANGED <<booted, chain, plan, journal, nmiLine>>
      /\ BeamType /\ Ahead
  BY Grid DEF BeamInv, BeamType, RunMainline, InFrame
<1>1. PICK n \in RunTimes : Sync(n) /\ left' = left - n
  BY DEF RunMainline
<1>2. n \in Nat
  BY FieldBeamAssumption
<1>3. /\ beam' \in Nat /\ beam' < Field /\ owed' \in Nat /\ inIrq' \in BOOLEAN
      /\ inIrq' => chain # <<>> /\ beam' = Start(Head(chain)) + 1
      /\ ~inIrq' => owed' = 0
  BY <1>0, <1>1, <1>2, SyncResult
<1>4. chain # <<>> /\ ~inIrq' =>
         /\ beam' < VblankStart => beam' <= Start(Head(chain))
         /\ beam < VblankStart => beam' < VblankStart
         /\ beam' >= VblankStart => beam' = beam + owed + n
  BY <1>0, <1>1, <1>2, SyncAhead
<1>5. BeamType'
  BY <1>0, <1>1, <1>2, <1>3 DEF BeamType
<1>6. Progress' /\ NmiInVblank' /\ Ending'
  BY <1>0 DEF BeamInv, Progress, Serviced, NmiInVblank, Ending
<1>7. Ahead'
  BY <1>0, <1>3, <1>4 DEF Ahead, VblankStart, Start
<1>8. Walking'
  <2> SUFFICES ASSUME chain # <<>>, beam' >= VblankStart
               PROVE  /\ left' + beam' + owed' >= Field + VblankStart /\ owed' = 0
                      /\ Start(turns + 1) <= beam' - VblankStart + PerLine
    BY <1>0 DEF Walking, VblankStart, Start
  <2>1. ~inIrq'
    <3>1. Start(Head(chain)) \in Nat /\ Start(Head(chain)) + PerLine <= VblankStart
      BY <1>0, HeadOnLine
    <3>2. PerLine \in Nat /\ PerLine >= 2
      BY Grid
    <3> QED BY <3>1, <3>2, <1>0, <1>3
  <2>2. beam >= VblankStart /\ owed' = 0 /\ beam' = beam + owed + n
    BY <2>1, <1>0, <1>3, <1>4
  <2>3. left + beam + owed >= Field + VblankStart /\ Start(turns) <= beam - VblankStart
    BY <2>2, <1>0 DEF BeamInv, Walking
  <2>4. Start(turns) \in Nat /\ Start(turns + 1) = Start(turns) + PerLine /\ PerLine \in Nat
    BY <1>0, StartNext, Grid
  <2> QED BY <2>2, <2>3, <2>4, <1>0, <1>1, <1>2
<1> QED BY <1>5, <1>6, <1>7, <1>8 DEF BeamInv

LEMMA ParkSteps == BeamInv /\ Park => BeamInv'
<1> SUFFICES ASSUME BeamInv, Park PROVE BeamInv'
  OBVIOUS
<1> DEFINE n == ParkStep
<1>0. /\ beam \in Nat /\ beam < Field /\ owed \in Nat /\ left \in Int /\ turns \in Nat
      /\ Field \in Nat /\ VblankStart \in Nat /\ chain \in Seq(0..(Vblank - 1))
      /\ PerLine \in Nat /\ PerLine >= 2 /\ left > 0
      /\ beamPc = "ran" /\ ~inIrq /\ beamPc' = "slice"
      /\ Sync(n) /\ left' = left - n
      /\ UNCHANGED <<booted, nmiOn, chain, plan, journal, nmiLine, turns>>
      /\ BeamType /\ Ahead
  BY Grid DEF BeamInv, BeamType, Park
<1>1. chain # <<>> => ClocksTo(Head(chain)) \in Nat
  BY <1>0, HeadOnLine, ModField DEF ClocksTo, Start
<1>2. /\ n \in Nat /\ n <= left
      /\ chain # <<>> /\ n < PerLine /\ n < left => n = ClocksTo(Head(chain)) + 1
  BY <1>0, <1>1 DEF ParkStep
<1>3. /\ beam' \in Nat /\ beam' < Field /\ owed' \in Nat /\ inIrq' \in BOOLEAN
      /\ inIrq' => chain # <<>> /\ beam' = Start(Head(chain)) + 1
      /\ ~inIrq' => owed' = 0
      /\ ~inIrq' /\ chain # <<>> => owed + n <= ClocksTo(Head(chain))
  BY <1>0, <1>2, SyncResult
<1>4. chain # <<>> /\ ~inIrq' =>
         /\ beam' < VblankStart => beam' <= Start(Head(chain))
         /\ beam < VblankStart => beam' < VblankStart
         /\ beam' >= VblankStart => beam' = beam + owed + n
  BY <1>0, <1>2, SyncAhead
<1> HIDE DEF n
<1>5. BeamType'
  BY <1>0, <1>2, <1>3 DEF BeamType
<1>6. Progress' /\ NmiInVblank' /\ Ending'
  BY <1>0 DEF BeamInv, Progress, Serviced, NmiInVblank, Ending
<1>7. Ahead'
  BY <1>0, <1>3, <1>4 DEF Ahead, VblankStart, Start
<1>8. Walking'
  <2> SUFFICES ASSUME chain # <<>>, beam' >= VblankStart
               PROVE  /\ left' + beam' + owed' >= Field + VblankStart /\ owed' = 0
                      /\ left' > 0 /\ Start(turns) <= beam' - VblankStart
    BY <1>0 DEF Walking, VblankStart, Start
  <2>1. ~inIrq'
    <3>1. Start(Head(chain)) \in Nat /\ Start(Head(chain)) + PerLine <= VblankStart
      BY <1>0, HeadOnLine
    <3>2. PerLine \in Nat /\ PerLine >= 2
      BY Grid
    <3> QED BY <3>1, <3>2, <1>0, <1>3
  <2>2. beam >= VblankStart /\ owed' = 0 /\ beam' = beam + owed + n
    BY <2>1, <1>0, <1>3, <1>4
  <2>3. /\ left + beam + owed >= Field + VblankStart /\ owed = 0
        /\ Start(turns) <= beam - VblankStart + PerLine
    BY <2>2, <1>0 DEF BeamInv, Walking
  <2>4. n >= PerLine
    <3>1. owed + n <= ClocksTo(Head(chain)) /\ ClocksTo(Head(chain)) \in Nat
      BY <2>1, <1>1, <1>3
    <3>2. left > VblankStart /\ VblankStart >= PerLine
      BY <2>3, <1>0, Grid
    <3>3. n # left
      BY <3>2, <2>2, <2>3, <1>0, <1>3
    <3> QED BY <3>1, <3>2, <3>3, <1>0, <1>2
  <2>5. Start(turns) \in Nat
    BY <1>0, StartNext
  <2> QED BY <2>2, <2>3, <2>4, <2>5, <1>0, <1>2, <1>3, Grid
<1> QED BY <1>5, <1>6, <1>7, <1>8 DEF BeamInv

(* A raster handler: the chain and the journal move on by the split the     *)
(* beam stands in.                                                          *)
LEMMA HandlerResult ==
  ASSUME BeamInv, inIrq, NEW n \in IrqTimes, Handler(n), UNCHANGED plan
  PROVE  /\ n \in Nat /\ beam' = beam /\ owed' = owed + n /\ ~inIrq' /\ inIrq' \in BOOLEAN
         /\ chain # <<>> /\ beam < VblankStart
         /\ chain' \in Seq(0..(Vblank - 1)) /\ Len(chain') = Len(chain) - 1
         /\ chain' # <<>> => beam <= Start(Head(chain'))
         /\ Progress'
<1> DEFINE h == Head(chain)
           k == Serviced
<1>0. /\ beam \in Nat /\ beam < Field /\ owed \in Nat /\ chain \in Seq(0..(Vblank - 1))
      /\ chain # <<>> /\ beam = Start(h) + 1 /\ VblankStart \in Nat
      /\ plan \in Chains \cup {<<>>} /\ Vblank \in Nat
      /\ PerLine \in Nat /\ PerLine >= 2 /\ Field \in Nat
  BY Grid DEF BeamInv, BeamType, Ahead
<1>1. h \in 0..(Vblank - 1) /\ h = chain[1] /\ 1 <= Len(chain)
      /\ Start(h) \in Nat /\ Start(h) + PerLine <= VblankStart
  BY <1>0, HeadOnLine
<1>2. /\ n \in Nat /\ beam' = beam /\ owed' = owed + n /\ inIrq' = FALSE
      /\ chain' = Tail(chain) /\ journal' = journal \cup {<<Line, "split">>} /\ plan' = plan
  BY FieldBeamAssumption DEF Handler, Held
<1>3. Line = h
  <2> HIDE DEF h
  <2>1. h \in Nat /\ Start(h) <= beam /\ beam < Start(h) + PerLine
    BY <1>0, <1>1
  <2> QED BY <2>1, <1>0, LineOf DEF Line
<1>4. chain' \in Seq(0..(Vblank - 1)) /\ Len(chain') = Len(chain) - 1
      /\ \A i \in 1..Len(chain') : chain'[i] = chain[i + 1]
  BY <1>0, <1>1, <1>2
<1>5. plan \in Seq(0..(Vblank - 1)) /\ \A i, j \in DOMAIN plan : i < j => plan[i] < plan[j]
  BY <1>0, PlanType
<1>6. /\ Len(chain) <= Len(plan) /\ \A i \in 1..Len(chain) : chain[i] = plan[k + i]
      /\ journal = {<<plan[i], "split">> : i \in 1..k} /\ k = Len(plan) - Len(chain)
      /\ k \in Nat /\ Len(plan) \in Nat /\ Len(chain) \in Nat
  BY <1>0, <1>5 DEF BeamInv, Progress, Serviced
<1> HIDE DEF k
<1>7. Serviced' = k + 1
  BY <1>2, <1>4, <1>6 DEF Serviced
<1>8. Progress'
  <2>1. Len(chain') <= Len(plan')
    BY <1>2, <1>4, <1>6
  <2>2. \A i \in 1..Len(chain') : chain'[i] = plan'[Serviced' + i]
    <3> SUFFICES ASSUME NEW i \in 1..Len(chain') PROVE chain'[i] = plan[k + 1 + i]
      BY <1>2, <1>7
    <3>1. i + 1 \in 1..Len(chain) /\ chain'[i] = chain[i + 1] /\ k + (i + 1) = k + 1 + i
      BY <1>4, <1>6
    <3> QED BY <3>1, <1>6
  <2>3. journal' = {<<plan'[i], "split">> : i \in 1..Serviced'}
    <3>1. Line = plan[k + 1]
      BY <1>1, <1>3, <1>6
    <3>2. 1..(k + 1) = 1..k \cup {k + 1}
      BY <1>6
    <3>3. journal' = {<<plan[i], "split">> : i \in 1..(k + 1)}
      BY <3>1, <3>2, <1>2, <1>6, Zenon
    <3> QED BY <3>3, <1>2, <1>7
  <2> QED BY <2>1, <2>2, <2>3 DEF Progress
<1>9. ASSUME chain' # <<>> PROVE beam <= Start(Head(chain'))
  <2>1. Head(chain') = chain'[1] /\ 1 <= Len(chain') /\ Head(chain') \in 0..(Vblank - 1)
    BY <1>4, <1>9, HeadOnLine
  <2>2. Head(chain') = plan[k + 2] /\ h = plan[k + 1]
    <3>1. 1 \in 1..Len(chain') /\ 1 \in 1..Len(chain) /\ 1 + 1 \in 1..Len(chain)
      BY <2>1, <1>1, <1>4, <1>6
    <3>2. chain'[1] = chain[1 + 1]
      BY <3>1, <1>4
    <3>3. chain[1] = plan[k + 1] /\ chain[1 + 1] = plan[k + (1 + 1)] /\ k + (1 + 1) = k + 2
      BY <3>1, <1>6
    <3> QED BY <3>2, <3>3, <2>1, <1>1
  <2>3. k + 1 \in DOMAIN plan /\ k + 2 \in DOMAIN plan /\ k + 1 < k + 2
    BY <2>1, <1>4, <1>5, <1>6
  <2>4. h < Head(chain')
    BY <2>2, <2>3, <1>5
  <2>5. Start(h) + PerLine <= Start(Head(chain'))
    BY <2>1, <2>4, <1>1, Grid
  <2>6. Start(Head(chain')) \in Nat
    BY <2>1, Grid
  <2> QED BY <2>5, <2>6, <1>0, <1>1
<1>10. beam < VblankStart
  BY <1>0, <1>1
<1>11. ~inIrq' /\ inIrq' \in BOOLEAN
  BY <1>2
<1> QED BY <1>0, <1>2, <1>4, <1>8, <1>9, <1>10, <1>11

LEMMA SplitSteps == BeamInv /\ ServiceSplit => BeamInv'
<1> SUFFICES ASSUME BeamInv, ServiceSplit PROVE BeamInv'
  OBVIOUS
<1>0. PICK n \in IrqTimes : Handler(n) /\ left' = left - n
  BY DEF ServiceSplit
<1>1. /\ inIrq /\ beamPc' = "slice" /\ turns' \in Nat /\ plan' = plan
      /\ booted' = booted /\ nmiLine' = nmiLine
      /\ beam \in Nat /\ beam < Field /\ owed \in Nat /\ left \in Int
      /\ booted \in BOOLEAN /\ plan \in Chains \cup {<<>>}
  BY DEF ServiceSplit, BeamInv, BeamType
<1>2. /\ n \in Nat /\ beam' = beam /\ owed' = owed + n /\ ~inIrq' /\ inIrq' \in BOOLEAN
      /\ beam < VblankStart /\ chain' \in Seq(0..(Vblank - 1))
      /\ chain' # <<>> => beam <= Start(Head(chain'))
      /\ Progress'
  BY <1>0, <1>1, HandlerResult
<1>3. BeamType'
  BY <1>0, <1>1, <1>2 DEF BeamType
<1>4. Ahead' /\ Ending' /\ NmiInVblank'
  BY <1>1, <1>2 DEF BeamInv, Ahead, Ending, NmiInVblank
<1>5. Walking'
  BY <1>2, <1>1, Grid DEF Walking, VblankStart, Start
<1> QED BY <1>2, <1>3, <1>4, <1>5 DEF BeamInv

LEMMA SlicesEnd == BeamInv /\ EndSlices => BeamInv'
<1> SUFFICES ASSUME BeamInv, EndSlices PROVE BeamInv'
  OBVIOUS
<1>0. /\ beam \in Nat /\ beam < Field /\ owed \in Nat /\ left \in Int /\ turns \in Nat
      /\ Field \in Nat /\ VblankStart \in Nat /\ inIrq \in BOOLEAN
      /\ chain \in Seq(0..(Vblank - 1)) /\ plan \in Chains \cup {<<>>}
      /\ beamPc' = "drain" /\ turns' = 0 /\ left' = 0
      /\ UNCHANGED <<booted, beam, owed, nmiOn, chain, inIrq, plan, journal, nmiLine>>
  BY Grid DEF BeamInv, BeamType, EndSlices
<1>1. \/ beamPc = "ran" /\ ~inIrq /\ left <= 0
      \/ beamPc = "slice" /\ (left <= 0 \/ turns >= MaxSlices)
  BY <1>0, FrameBudgetAssumption DEF EndSlices, InFrame
<1>2. BeamType'
  BY <1>0 DEF BeamInv, BeamType
<1>3. Progress' /\ NmiInVblank' /\ Ahead' /\ Walking'
  BY <1>0 DEF BeamInv, Progress, Serviced, NmiInVblank, Ahead, Walking, VblankStart, Start
<1>4. ASSUME chain # <<>>, beam >= VblankStart PROVE FALSE
  <2>1. /\ left + beam + owed >= Field + VblankStart
        /\ beamPc = "slice" => left > 0 /\ Start(turns) <= beam - VblankStart
        /\ beamPc = "ran" => owed = 0
    BY <1>1, <1>4 DEF BeamInv, Walking
  <2>2. beamPc = "slice" /\ turns >= MaxSlices
    BY <2>1, <1>0, <1>1
  <2>3. Lines - Vblank \in Nat /\ turns >= Lines - Vblank
    BY <2>2, <1>0, FieldBeamAssumption, FrameBudgetAssumption
  <2>4. beam - VblankStart \in Nat /\ beam - VblankStart < Start(Lines - Vblank)
    BY <1>0, <1>4, Grid DEF Start
  <2>5. Start(Lines - Vblank) <= beam - VblankStart
    <3>1. (beam - VblankStart) \div PerLine >= turns
      BY <2>1, <2>2, <2>4, <1>0, LineOf
    <3>2. (beam - VblankStart) \div PerLine >= Lines - Vblank
      BY <3>1, <2>3, <2>4, <1>0, LineOf
    <3> QED BY <3>2, <2>3, <2>4, LineOf
  <2>6. Start(Lines - Vblank) \in Nat
    BY <2>3, StartNext
  <2> QED BY <2>4, <2>5, <2>6
<1>5. StepsLeft <= MaxDrain
  <2>1. MaxDrain \in Nat /\ MaxDrain >= 2 * Len(plan) + 2
    BY <1>0, PlanType, FrameBudgetAssumption
  <2>2. Len(chain) <= Len(plan) /\ Len(plan) \in Nat /\ Len(chain) \in Nat
    BY <1>0, PlanType DEF BeamInv, Progress
  <2> QED BY <2>1, <2>2 DEF StepsLeft
<1>6. Ending'
  <2>1. StepsLeft' = StepsLeft /\ StepsLeft \in Int
    BY <1>0 DEF StepsLeft
  <2> QED BY <1>0, <1>4, <1>5, <2>1 DEF Ending, VblankStart, Start
<1> QED BY <1>2, <1>3, <1>6 DEF BeamInv

LEMMA DrainSplitSteps == BeamInv /\ DrainSplit => BeamInv'
<1> SUFFICES ASSUME BeamInv, DrainSplit PROVE BeamInv'
  OBVIOUS
<1>0. PICK n \in IrqTimes : Handler(n)
  BY DEF DrainSplit
<1>1. /\ inIrq /\ beamPc = "drain" /\ beamPc' = "drain" /\ turns' = turns + 1 /\ plan' = plan
      /\ booted' = booted /\ nmiLine' = nmiLine /\ left' = left
      /\ beam \in Nat /\ beam < Field /\ owed \in Nat /\ left \in Int /\ turns \in Nat
      /\ booted \in BOOLEAN /\ plan \in Chains \cup {<<>>}
      /\ chain \in Seq(0..(Vblank - 1))
  BY DEF DrainSplit, BeamInv, BeamType
<1>2. /\ n \in Nat /\ beam' = beam /\ owed' = owed + n /\ ~inIrq' /\ inIrq' \in BOOLEAN
      /\ chain # <<>> /\ beam < VblankStart
      /\ chain' \in Seq(0..(Vblank - 1)) /\ Len(chain') = Len(chain) - 1
      /\ chain' # <<>> => beam <= Start(Head(chain'))
      /\ Progress'
  BY <1>0, <1>1, HandlerResult
<1>3. BeamType'
  BY <1>1, <1>2 DEF BeamType
<1>4. Ahead' /\ NmiInVblank' /\ Walking'
  BY <1>1, <1>2 DEF BeamInv, Ahead, Walking, NmiInVblank
<1>5. Ending'
  <2>1. turns + StepsLeft <= MaxDrain
    BY <1>1, <1>2 DEF BeamInv, Ending
  <2>2. StepsLeft' + 1 <= StepsLeft /\ StepsLeft \in Int /\ StepsLeft' \in Int
    BY <1>1, <1>2 DEF StepsLeft
  <2>3. turns' + StepsLeft' <= MaxDrain
    <3>1. PICK old \in Int, new \in Int : old = StepsLeft /\ new = StepsLeft'
      BY <2>2
    <3>2. new + 1 <= old /\ turns + old <= MaxDrain /\ MaxDrain \in Nat
      BY <2>1, <2>2, <3>1, FrameBudgetAssumption
    <3>3. turns + 1 + new <= MaxDrain
      BY <3>2, <1>1
    <3> QED BY <3>1, <3>3, <1>1
  <2> QED BY <2>3, <1>1, <1>2 DEF Ending, VblankStart, Start
<1> QED BY <1>2, <1>3, <1>4, <1>5 DEF BeamInv

LEMMA DrainSteps == BeamInv /\ DrainStep => BeamInv'
<1> SUFFICES ASSUME BeamInv, DrainStep PROVE BeamInv'
  OBVIOUS
<1> DEFINE n == ClocksTo(Vblank)
<1>0. /\ beam \in Nat /\ beam < Field /\ owed \in Nat /\ left \in Int /\ turns \in Nat
      /\ Field \in Nat /\ VblankStart \in Nat /\ VblankStart < Field /\ Vblank \in Nat
      /\ PerLine \in Nat /\ PerLine >= 2
      /\ chain \in Seq(0..(Vblank - 1))
      /\ ~inIrq /\ beamPc = "drain" /\ beamPc' = "drain" /\ turns' = turns + 1 /\ Draining
      /\ UNCHANGED <<booted, left, nmiOn, chain, plan, journal, nmiLine>>
      /\ BeamType /\ Ahead /\ Sync(n)
  BY Grid DEF BeamInv, BeamType, DrainStep
<1>1. beam < VblankStart
  BY <1>0, InVisible DEF Draining
<1>2. n = VblankStart - beam /\ n \in Nat
  <2>1. n = VblankStart - beam
    BY <1>0, <1>1, Clocks DEF VblankStart
  <2> QED BY <2>1, <1>0, <1>1
<1> HIDE DEF n
<1>3. /\ beam' \in Nat /\ beam' < Field /\ owed' \in Nat /\ inIrq' \in BOOLEAN
      /\ inIrq' => chain # <<>> /\ beam' = Start(Head(chain)) + 1
      /\ ~inIrq' => owed' = 0
      /\ ~inIrq' /\ chain # <<>> => owed + n <= ClocksTo(Head(chain))
      /\ ~inIrq' => beam' = (beam + owed + n) % Field
  BY <1>0, <1>2, SyncResult
<1>4. chain # <<>> => /\ inIrq' /\ beam' = Start(Head(chain)) + 1 /\ beam' < VblankStart
                      /\ 1 <= Len(chain)
  <2> SUFFICES ASSUME chain # <<>>
               PROVE  inIrq' /\ beam' = Start(Head(chain)) + 1 /\ beam' < VblankStart
                      /\ 1 <= Len(chain)
    OBVIOUS
  <2>1. /\ Head(chain) \in Nat /\ Start(Head(chain)) \in Nat /\ 1 <= Len(chain)
        /\ Start(Head(chain)) + PerLine <= VblankStart
    BY <1>0, HeadOnLine
  <2>2. beam <= Start(Head(chain))
    BY <1>0, <1>1 DEF Ahead
  <2>3. ClocksTo(Head(chain)) = Start(Head(chain)) - beam
    BY <2>1, <2>2, <1>0, Clocks
  <2>4. inIrq'
    BY <2>1, <2>2, <2>3, <1>0, <1>2, <1>3
  <2> QED BY <2>1, <2>4, <1>0, <1>3
<1>5. BeamType'
  BY <1>0, <1>3 DEF BeamType
<1>6. Progress' /\ NmiInVblank' /\ Walking'
  BY <1>0 DEF BeamInv, Progress, Serviced, NmiInVblank, Walking
<1>7. Ahead'
  BY <1>0, <1>3, <1>4 DEF Ahead
<1>8. turns + StepsLeft <= MaxDrain
  BY <1>0, <1>1 DEF BeamInv, Ending
<1>9. ASSUME chain = <<>>, owed = 0 PROVE beam' = VblankStart
  <2>1. ~inIrq' /\ beam + owed + n = VblankStart
    BY <1>9, <1>0, <1>2, <1>3
  <2> QED BY <2>1, <1>0, <1>3, WrapOnce
<1>10. beam' < VblankStart => turns' + StepsLeft' <= MaxDrain
  <2> SUFFICES ASSUME beam' < VblankStart PROVE turns' + StepsLeft' <= MaxDrain
    OBVIOUS
  <2>1. Len(chain) \in Nat /\ chain' = chain /\ MaxDrain \in Nat
    BY <1>0, FrameBudgetAssumption
  <2>2. StepsLeft = 2 * Len(chain) + (IF chain = <<>> /\ owed = 0 THEN 1 ELSE 2)
    BY <1>0, <2>1 DEF StepsLeft
  <2>3. CASE chain = <<>>
    <3>1. owed # 0 /\ ~inIrq' /\ owed' = 0
      BY <2>3, <1>0, <1>3, <1>9
    <3>2. StepsLeft' = 2 * Len(chain) + 1 /\ StepsLeft = 2 * Len(chain) + 2
      BY <3>1, <2>1, <2>2, <2>3 DEF StepsLeft
    <3> QED BY <3>2, <2>1, <1>0, <1>8
  <2>4. CASE chain # <<>>
    <3>1. StepsLeft' = 2 * Len(chain) + 1 /\ StepsLeft = 2 * Len(chain) + 2
      BY <1>4, <2>1, <2>2, <2>4 DEF StepsLeft
    <3> QED BY <3>1, <2>1, <1>0, <1>8
  <2> QED BY <2>3, <2>4
<1>11. Ending'
  BY <1>0, <1>4, <1>10 DEF Ending, VblankStart, Start
<1> QED BY <1>5, <1>6, <1>7, <1>11 DEF BeamInv

LEMMA FrameEnds == BeamInv /\ EndFrame => BeamInv'
<1> SUFFICES ASSUME BeamInv, EndFrame PROVE BeamInv'
  OBVIOUS
<1>0. /\ beam \in Nat /\ VblankStart \in Nat /\ inIrq \in BOOLEAN /\ turns \in Nat
      /\ chain \in Seq(0..(Vblank - 1)) /\ MaxDrain \in Nat
      /\ beamPc = "drain" /\ ~Draining /\ beamPc' = "host"
      /\ UNCHANGED <<booted, beam, owed, left, nmiOn, chain, inIrq, plan, journal,
                     nmiLine, turns>>
  BY Grid, FrameBudgetAssumption DEF BeamInv, BeamType, EndFrame
<1>1. beam >= VblankStart
  <2> SUFFICES ASSUME beam < VblankStart PROVE FALSE
    BY <1>0
  <2>1. turns >= MaxDrain
    BY <1>0, InVisible DEF Draining
  <2>2. turns + StepsLeft <= MaxDrain
    BY <1>0 DEF BeamInv, Ending
  <2>3. StepsLeft \in Int /\ StepsLeft >= 1
    BY <1>0 DEF StepsLeft, BeamInv, Ahead
  <2> QED BY <2>1, <2>2, <2>3, <1>0
<1>2. chain = <<>>
  BY <1>0, <1>1 DEF BeamInv, Ending
<1>3. ~inIrq
  BY <1>2 DEF BeamInv, Ahead
<1>4. BeamType' /\ Progress' /\ NmiInVblank'
  BY <1>0 DEF BeamInv, BeamType, Progress, Serviced, NmiInVblank
<1>5. Ahead' /\ Walking' /\ Ending'
  BY <1>0, <1>1, <1>2, <1>3 DEF Ahead, Walking, Ending, VblankStart, Start
<1> QED BY <1>4, <1>5 DEF BeamInv

LEMMA BeamSteps == BeamInv /\ [BeamNext]_beamVars => BeamInv'
<1> SUFFICES ASSUME BeamInv, [BeamNext]_beamVars PROVE BeamInv'
  OBVIOUS
<1>1. ASSUME UNCHANGED beamVars PROVE BeamInv'
  BY <1>1 DEF beamVars, BeamInv, BeamType, Progress, Serviced, Ahead, Walking, Ending,
              StepsLeft, NmiInVblank, VblankStart, Start
<1> QED BY <1>1, FrameStarts, StallSteps, MainlineSteps, SplitSteps, ParkSteps, SlicesEnd,
           DrainSplitSteps, DrainSteps, FrameEnds DEF BeamNext

LEMMA BandsFollow == BeamInv => BandsInPlace
<1> SUFFICES ASSUME BeamInv, beamPc = "host"
             PROVE  ~inIrq /\ journal = {<<plan[i], "split">> : i \in DOMAIN plan}
  BY DEF BandsInPlace
<1>1. ~inIrq /\ chain = <<>>
  BY DEF BeamInv, Ending
<1>2. plan \in Seq(0..(Vblank - 1))
  BY PlanType DEF BeamInv, BeamType
<1>3. Serviced = Len(plan) /\ DOMAIN plan = 1..Len(plan)
  BY <1>1, <1>2 DEF Serviced
<1> QED BY <1>1, <1>3 DEF BeamInv, Progress

(* No NMI is delivered outside of vblank, whatever the handlers, stalls and
   the mainline took: the drain reaches vblank within its budget. *)
THEOREM NmiStaysInVblank == BeamSpec => []NmiInVblank
<1>1. BeamInv => NmiInVblank
  BY DEF BeamInv
<1> QED BY <1>1, BeamStarts, BeamSteps, PTL DEF BeamSpec

(* A frame that is over has delivered every split of its plan on its line and
   nothing else, and leaves no interrupt pending. *)
THEOREM BandsStayInPlace == BeamSpec => []BandsInPlace
BY BandsFollow, BeamStarts, BeamSteps, PTL DEF BeamSpec
=============================================================================
