------------------------ MODULE PeerAgreement_proofs ------------------------
(* For any set of peers, every margin bound and every way of starting them:
   peers started alike run the same guest code in every match. *)
EXTENDS PeerAgreement, WsPatch_lemmas

(* What the room's caps and a peer's own settings make of its guest.  Nothing
   else does: not its window, and nothing an earlier session left behind. *)
Outcome(s, selected, c) ==
  IF /\ selected /\ c > 0
     /\ IF s.override >= 0 THEN Clamp(s.override) = c ELSE Clamp(c) = c
     /\ ~s.killed /\ s.rom = Vanilla /\ Emits(c)
  THEN c ELSE 0

(* Every start has the fields the actions read. *)
LEMMA StartFields ==
  ASSUME start \in Starts, NEW p \in Peer
  PROVE  /\ start[p].override \in Peers /\ start[p].killed \in BOOLEAN
         /\ start[p].rom \in Images /\ start[p].rom # NoImage
<1>1. start[p] \in Setting
  BY PeerAgreementAssumption, SMT
<1>2. QED
  BY <1>1, SMT DEF Setting, Images, Short, Foreign, Vanilla, NoImage

(* A pinned width is a margin. *)
LEMMA MarginType ==
  ASSUME start \in Starts, NEW p \in Peer, NEW selected \in BOOLEAN,
         NEW pin \in Peers, NEW window \in Margins
  PROVE  Margin(p, selected, pin, window) \in Margins
  BY StartFields, WsPatchAssumption, SMT DEF Margin, Clamp, Margins, Peers, NoPeer

(* `extra # 0` is one of the two truth values Armed's other facts are about. *)
LEMMA ArmedWide ==
  ASSUME NEW q, NEW extra, NEW killed
  PROVE  \E w \in BOOLEAN :
           /\ w <=> extra # 0
           /\ Armed(q, extra, extra # 0, killed) = Armed(q, extra, w, killed)
<1>1. CASE extra # 0
  <2>1. Armed(q, extra, extra # 0, killed) = Armed(q, extra, TRUE, killed)
    BY <1>1, SMT DEF Armed
  <2>2. QED
    BY <1>1, <2>1, Zenon
<1>2. CASE extra = 0
  <2>1. Armed(q, extra, extra # 0, killed) = Armed(q, extra, FALSE, killed)
    BY <1>2, SMT DEF Armed
  <2>2. QED
    BY <1>2, <2>1, Zenon
<1>3. QED
  BY <1>1, <1>2

(* In a session with a peer, the patch is decided by the margin, the caps and
   the image alone. *)
LEMMA ArmDecides ==
  ASSUME NEW q \in Patches, NEW extra \in Margins, NEW killed \in BOOLEAN,
         NEW w \in BOOLEAN, w <=> extra # 0,
         Sound(q), ~q.armed, q.netActive
  PROVE  LET r == Armed(q, extra, w, killed)
         IN /\ r \in Patches /\ Sound(r)
            /\ r.rom > 0 => r.rom = extra
            /\ r.rom > 0 <=> /\ extra > 0 /\ q.netPeer = extra
                             /\ ~killed /\ q.rom = Vanilla /\ Emits(extra)
<1> DEFINE r == Armed(q, extra, w, killed)
<1>1. /\ r \in Patches /\ Sound(r)
      /\ r.rom # q.rom => r.rom = extra
      /\ r.rom > 0 <=> r.applied
  BY ArmedFromCleanSlate, SMT
<1>2. extra \in Int /\ q.rom \in Int /\ ~(q.rom > 0) /\ ~q.applied
  <2>1. extra \in Int /\ q.rom \in Int
    BY WsPatchAssumption, SMT
       DEF Margins, Patches, Images, NoImage, Short, Foreign, Vanilla
  <2>2. ~q.applied /\ ~(q.rom > 0)
    BY Zenon DEF Sound
  <2>3. QED
    BY <2>1, <2>2
<1>3. CASE extra > 0 /\ q.netPeer = extra
  <2>1. r = Applied(q, extra, killed)
    <3>1. w
      BY <1>2, <1>3, SMT
    <3>2. QED
      BY <1>2, <1>3, <3>1, SMT DEF Armed, NetplayAllows
  <2>2. HasSite(q) <=> q.rom # NoImage /\ q.rom # Short
    BY Zenon DEF HasSite
  <2>3. Applies(q, extra, killed) <=> ~killed /\ q.rom = Vanilla /\ Emits(extra)
    BY <2>2, SMT DEF Applies, Vanilla, NoImage, Short
  <2>4. ASSUME Applies(q, extra, killed)
        PROVE  r.applied
    <3>1. r = [ q EXCEPT !.rom = extra, !.applied = TRUE, !.written = extra,
                         !.armed = TRUE, !.armedExtra = extra ]
      BY <2>1, <2>4, Zenon DEF Applied
    <3> HIDE DEF r
    <3>2. QED
      BY <3>1, SMT DEF Patches
  <2>5. ASSUME ~Applies(q, extra, killed)
        PROVE  ~r.applied
    <3>1. r = [ q EXCEPT !.armed = FALSE, !.armedExtra = 0 ]
      BY <2>1, <2>5, Zenon DEF Applied
    <3> HIDE DEF r
    <3>2. r.applied = q.applied
      BY <3>1, SMT DEF Patches
    <3>3. QED
      BY <1>2, <3>2, Zenon
  <2> HIDE DEF r
  <2>6. r.rom > 0 => r.rom = extra
    BY <1>1, <1>2, SMT
  <2>7. QED
    BY <1>1, <1>2, <1>3, <2>3, <2>4, <2>5, <2>6, Zenon DEF r
<1>4. CASE ~(extra > 0 /\ q.netPeer = extra)
  <2>1. r = q
    BY <1>2, <1>4, SMT DEF Armed, NetplayAllows
  <2>2. QED
    BY <1>1, <1>2, <1>4, <2>1, Zenon
<1>5. QED
  BY <1>3, <1>4

-----------------------------------------------------------------------------
(* What each stage of a peer has established.  It is inductive where
   BothOrNeither is not: a match runs on decisions that every peer took
   before it met the others. *)
Decided(p) ==
  /\ Sound(patch[p])
  /\ stage[p] \in { "room", "boot" } => patch[p].rom = NoImage
  /\ stage[p] \in { "pin", "connect", "arm" }
       => ~patch[p].armed /\ patch[p].rom = start[p].rom
  /\ stage[p] \in { "connect", "arm" }
       => \E window \in Margins : wsExtra[p] = Margin(p, wide[p], caps[p], window)
  /\ stage[p] = "arm" => patch[p].netActive = active[p] /\ patch[p].netPeer = caps[p]
  /\ stage[p] = "play" /\ active[p] => Clip(p) = Outcome(start[p], wide[p], caps[p])

SameCaps == \A p, q \in Peer : caps[p] = caps[q]

Joined ==
  match = "running" => (\A p \in Peer : stage[p] = "play" /\ active[p]) /\ SameIdentity

Agreement == (\A p \in Peer : Decided(p)) /\ SameCaps /\ Joined

-----------------------------------------------------------------------------
LEMMA InitHolds == Init => TypeOK /\ Agreement
<1> SUFFICES ASSUME Init
             PROVE  TypeOK /\ Agreement
  OBVIOUS
<1>1. NoImage \in Images /\ NoPeer \in Peers /\ 0 \in Margins
  BY WsPatchAssumption, SMT DEF Images, Peers, NoPeer, Margins
<1>2. \A p \in Peer : patch[p] \in Patches /\ Sound(patch[p]) /\ patch[p].rom = NoImage
  BY <1>1, UnarmedFacts, SMT DEF Init
<1>3. TypeOK
  <2>1. patch \in [ Peer -> Patches ]
    BY <1>1, <1>2, SMT DEF Init
  <2>2. QED
    BY <1>1, <2>1, SMT DEF Init, TypeOK, Stages
<1>4. \A p \in Peer : Decided(p)
  BY <1>2, SMT DEF Init, Decided
<1>5. SameCaps /\ Joined
  BY SMT DEF Init, SameCaps, Joined
<1>6. QED
  BY <1>3, <1>4, <1>5 DEF Agreement

LEMMA TypeStep ==
  ASSUME TypeOK, \A p \in Peer : Decided(p), [Next]_vars
  PROVE  TypeOK'
<1>1. CASE \E p \in Peer : Toggle(p)
  BY <1>1, SMT DEF Toggle, TypeOK
<1>2. CASE \E p \in Peer : PublishCaps(p)
  <2>1. PICK p \in Peer : PublishCaps(p)
    BY <1>2
  <2>2. PICK window \in Margins : offered' = Margin(p, sel[p], netPin[p], window)
    BY <2>1 DEF PublishCaps
  <2>3. offered' \in Margins
    BY <2>2, MarginType, Zenon DEF TypeOK
  <2>4. offered' \in Peers
    BY <2>3, WsPatchAssumption, SMT DEF Margins, Peers, NoPeer
  <2>5. QED
    BY <2>1, <2>4, SMT DEF PublishCaps, TypeOK
<1>3. CASE OtherCaps
  BY <1>3, SMT DEF OtherCaps, TypeOK
<1>4. CASE Launch
  BY <1>4, SMT DEF Launch, TypeOK, Stages
<1>5. CASE \E p \in Peer : PlayOffline(p)
  <2>1. NoPeer \in Peers
    BY WsPatchAssumption, SMT DEF Peers, NoPeer
  <2>2. QED
    BY <1>5, <2>1, SMT DEF PlayOffline, TypeOK
<1>6. CASE \E p \in Peer : Boot(p)
  <2>1. PICK p \in Peer : Boot(p)
    BY <1>6
  <2>2. Disarmed([ Disarmed(patch[p]) EXCEPT !.rom = start[p].rom ]) \in Patches
    <3>1. /\ Disarmed(patch[p]) \in Patches /\ Sound(Disarmed(patch[p]))
          /\ start[p].rom \in Images
      BY StartFields, DisarmedFacts, SMT DEF TypeOK, Decided
    <3>2. QED
      BY <3>1, ImageFacts, DisarmedFacts, SMT
  <2>3. QED
    BY <2>1, <2>2, SMT DEF Boot, TypeOK, Stages
<1>7. CASE \E p \in Peer : Pin(p)
  <2>1. PICK p \in Peer : Pin(p)
    BY <1>7
  <2>2. PICK window \in Margins :
               wsExtra' = [ wsExtra EXCEPT ![p] = Margin(p, wide[p], caps[p], window) ]
    BY <2>1 DEF Pin
  <2>3. Margin(p, wide[p], caps[p], window) \in Margins
    BY MarginType, SMT DEF TypeOK
  <2>4. QED
    BY <2>1, <2>2, <2>3, SMT DEF Pin, TypeOK, Stages
<1>8. CASE \E p \in Peer : Connect(p)
  <2>1. PICK p \in Peer : Connect(p)
    BY <1>8
  <2>2. PICK ok \in BOOLEAN :
               /\ active' = [ active EXCEPT ![p] = ok ]
               /\ patch' = [ patch EXCEPT ![p] = WithNetplay(@, ok, caps[p]) ]
    BY <2>1 DEF Connect
  <2>3. WithNetplay(patch[p], ok, caps[p]) \in Patches
    BY WithNetplayFacts, SMT DEF TypeOK
  <2>4. patch' \in [ Peer -> Patches ] /\ active' \in [ Peer -> BOOLEAN ]
    BY <2>2, <2>3, SMT DEF TypeOK
  <2>5. QED
    BY <2>1, <2>4, SMT DEF Connect, TypeOK, Stages
<1>9. CASE \E p \in Peer : Arm(p)
  <2>1. PICK p \in Peer : Arm(p)
    BY <1>9
  <2>2. /\ patch[p] \in Patches /\ wsExtra[p] \in Margins /\ Sound(patch[p])
        /\ start[p].killed \in BOOLEAN
    BY StartFields, SMT DEF TypeOK, Decided
  <2>3. Armed(patch[p], wsExtra[p], wsExtra[p] # 0, start[p].killed) \in Patches
    <3>1. PICK w \in BOOLEAN :
                 Armed(patch[p], wsExtra[p], wsExtra[p] # 0, start[p].killed)
                   = Armed(patch[p], wsExtra[p], w, start[p].killed)
      BY ArmedWide
    <3>2. Armed(patch[p], wsExtra[p], w, start[p].killed) \in Patches
      BY <2>2, ArmedFacts, Zenon
    <3>3. QED
      BY <3>1, <3>2
  <2>4. QED
    BY <2>1, <2>3, SMT DEF Arm, TypeOK, Stages
<1>10. CASE Meet
  BY <1>10, SMT DEF Meet, TypeOK
<1>11. CASE BackToRoom
  <2>1. ASSUME NEW p \in Peer
        PROVE  [ patch[p] EXCEPT !.rom = NoImage ] \in Patches
    <3>1. patch[p] \in Patches /\ NoImage \in Images
      BY SMT DEF TypeOK, Images
    <3>2. QED
      BY <3>1, ImageFacts, Zenon
  <2>2. QED
    BY <1>11, <2>1, SMT DEF BackToRoom, TypeOK, Stages
<1>12. CASE UNCHANGED vars
  BY <1>12, SMT DEF vars, TypeOK
<1>13. QED
  BY <1>1, <1>2, <1>3, <1>4, <1>5, <1>6, <1>7, <1>8, <1>9, <1>10, <1>11, <1>12
     DEF Next, Lobby, Room, Setup

-----------------------------------------------------------------------------
(* A step of another peer leaves this one's decision alone. *)
LEMMA Untouched ==
  ASSUME NEW p \in Peer, Decided(p), start' = start, stage'[p] = stage[p],
         wide'[p] = wide[p], wsExtra'[p] = wsExtra[p], caps'[p] = caps[p],
         active'[p] = active[p], patch'[p] = patch[p]
  PROVE  Decided(p)'
<1>1. Clip(p)' = Clip(p)
  BY SMT DEF Clip
<1>2. \A window \in Margins :
        Margin(p, wide[p], caps[p], window)' = Margin(p, wide[p], caps[p], window)
  BY SMT DEF Margin
<1>3. Sound(patch[p])'
  BY SMT DEF Decided, Sound
<1>4. QED
  BY <1>1, <1>2, <1>3, SMT DEF Decided

(* Peers change one at a time: a step of one is a matter of that one. *)
LEMMA OthersUntouched ==
  ASSUME TypeOK, NEW p \in Peer, NEW q \in Peer, p # q, Decided(q),
         Setup(p) \/ Room(p)
  PROVE  Decided(q)'
<1>1. /\ start' = start /\ stage'[q] = stage[q] /\ wide'[q] = wide[q]
      /\ wsExtra'[q] = wsExtra[q] /\ caps'[q] = caps[q]
      /\ active'[q] = active[q] /\ patch'[q] = patch[q]
  <2>1. CASE Toggle(p) \/ PublishCaps(p) \/ PlayOffline(p)
    BY <2>1, SMT DEF Toggle, PublishCaps, PlayOffline, TypeOK
  <2>2. CASE Boot(p)
    BY <2>2, SMT DEF Boot, TypeOK
  <2>3. CASE Pin(p)
    BY <2>3, SMT DEF Pin, TypeOK
  <2>4. CASE Connect(p)
    BY <2>4, SMT DEF Connect, TypeOK
  <2>5. CASE Arm(p)
    BY <2>5, SMT DEF Arm, TypeOK
  <2>6. QED
    BY <2>1, <2>2, <2>3, <2>4, <2>5 DEF Setup, Room
<1>2. QED
  BY <1>1, Untouched

(* Booting gives the peer its own image, unpatched. *)
LEMMA BootDecides ==
  ASSUME TypeOK, NEW p \in Peer, Decided(p), Boot(p)
  PROVE  Decided(p)'
<1> DEFINE clean == [ Disarmed(patch[p]) EXCEPT !.rom = start[p].rom ]
<1>1. /\ Disarmed(patch[p]) \in Patches /\ Sound(Disarmed(patch[p]))
      /\ ~Disarmed(patch[p]).armed /\ start[p].rom \in Images
  BY StartFields, DisarmedFacts, SMT DEF TypeOK, Decided
<1>2. /\ clean \in Patches /\ Sound(clean) /\ clean.rom = start[p].rom
      /\ ~clean.armed
  BY <1>1, ImageFacts, SMT
<1>3. clean.rom <= 0
  BY <1>1, <1>2, SMT DEF Images, NoImage, Short, Foreign, Vanilla
<1> HIDE DEF clean
<1>4. /\ Sound(Disarmed(clean)) /\ ~Disarmed(clean).armed
      /\ Disarmed(clean).rom = start[p].rom
  BY <1>2, <1>3, DisarmedFacts, SMT
<1>5. patch'[p] = Disarmed(clean) /\ stage'[p] = "pin" /\ start' = start
  BY SMT DEF Boot, TypeOK, clean
<1>6. Sound(patch[p])'
  BY <1>4, <1>5, Zenon DEF Sound
<1>7. QED
  BY <1>4, <1>5, <1>6, SMT DEF Decided

LEMMA PinDecides ==
  ASSUME TypeOK, NEW p \in Peer, Decided(p), Pin(p)
  PROVE  Decided(p)'
<1>1. PICK window \in Margins :
             wsExtra' = [ wsExtra EXCEPT ![p] = Margin(p, wide[p], caps[p], window) ]
  BY DEF Pin
<1>2. /\ stage'[p] = "connect" /\ stage[p] = "pin"
      /\ start' = start /\ wide' = wide /\ caps' = caps /\ patch' = patch
      /\ wsExtra'[p] = Margin(p, wide[p], caps[p], window)
  BY <1>1, SMT DEF Pin, TypeOK
<1>3. Margin(p, wide[p], caps[p], window)' = Margin(p, wide[p], caps[p], window)
  BY <1>2, SMT DEF Margin
<1>4. Sound(patch[p])'
  BY <1>2, SMT DEF Decided, Sound
<1>5. QED
  BY <1>2, <1>3, <1>4, SMT DEF Decided

LEMMA ConnectDecides ==
  ASSUME TypeOK, NEW p \in Peer, Decided(p), Connect(p)
  PROVE  Decided(p)'
<1>1. PICK ok \in BOOLEAN :
             /\ active' = [ active EXCEPT ![p] = ok ]
             /\ patch' = [ patch EXCEPT ![p] = WithNetplay(@, ok, caps[p]) ]
  BY DEF Connect
<1> DEFINE q == WithNetplay(patch[p], ok, caps[p])
<1>2. /\ q.rom = patch[p].rom /\ q.armed = patch[p].armed
      /\ q.netActive = ok /\ q.netPeer = caps[p] /\ Sound(q)
  BY WithNetplayFacts, SMT DEF TypeOK, Decided
<1>3. /\ stage'[p] = "arm" /\ stage[p] = "connect"
      /\ start' = start /\ wide' = wide /\ caps' = caps /\ wsExtra' = wsExtra
      /\ patch'[p] = q /\ active'[p] = ok
  BY <1>1, SMT DEF Connect, TypeOK
<1> HIDE DEF q
<1>4. \A window \in Margins :
        Margin(p, wide[p], caps[p], window)' = Margin(p, wide[p], caps[p], window)
  BY <1>3, SMT DEF Margin
<1>5. Sound(patch[p])'
  BY <1>2, <1>3, Zenon DEF Sound
<1>6. QED
  BY <1>2, <1>3, <1>4, <1>5, SMT DEF Decided

(* The margin a peer arms with is the room's exactly when its own settings
   let the room's caps through. *)
LEMMA MarginIsCaps ==
  ASSUME start \in Starts, NEW p \in Peer, NEW selected \in BOOLEAN,
         NEW c \in Peers, NEW window \in Margins
  PROVE  LET extra == Margin(p, selected, c, window)
         IN extra > 0 /\ c = extra
              <=> /\ selected /\ c > 0
                  /\ IF start[p].override >= 0 THEN Clamp(start[p].override) = c
                                               ELSE Clamp(c) = c
  BY StartFields, WsPatchAssumption, SMT DEF Margin, Clamp, Margins, Peers, NoPeer

(* Arming makes the outcome of the caps and the peer's own settings. *)
LEMMA ArmDecidesPeer ==
  ASSUME TypeOK, NEW p \in Peer, Decided(p), Arm(p)
  PROVE  Decided(p)'
<1> DEFINE q == patch[p]
<1>0. PICK w \in BOOLEAN :
        /\ w <=> wsExtra[p] # 0
        /\ Armed(q, wsExtra[p], wsExtra[p] # 0, start[p].killed)
             = Armed(q, wsExtra[p], w, start[p].killed)
  BY ArmedWide
<1> DEFINE r == Armed(q, wsExtra[p], w, start[p].killed)
<1>1. /\ stage'[p] = "play" /\ stage[p] = "arm"
      /\ start' = start /\ wide' = wide /\ caps' = caps /\ active' = active
      /\ patch'[p] = r
  <2>1. patch'[p] = Armed(q, wsExtra[p], wsExtra[p] # 0, start[p].killed)
    BY SMT DEF Arm, TypeOK
  <2>2. QED
    BY <1>0, <2>1, SMT DEF Arm, TypeOK
<1>2. /\ q \in Patches /\ wsExtra[p] \in Margins /\ Sound(q)
      /\ start[p].killed \in BOOLEAN /\ ~q.armed /\ q.rom = start[p].rom
      /\ q.netActive = active[p] /\ q.netPeer = caps[p]
      /\ \E window \in Margins : wsExtra[p] = Margin(p, wide[p], caps[p], window)
  BY <1>1, StartFields, SMT DEF TypeOK, Decided
<1>3. Sound(r)
  BY <1>2, ArmedFacts, Zenon
<1>4. CASE active[p]
  <2>1. /\ r \in Patches
        /\ r.rom > 0 => r.rom = wsExtra[p]
        /\ r.rom > 0 <=> /\ wsExtra[p] > 0 /\ q.netPeer = wsExtra[p]
                         /\ ~start[p].killed /\ q.rom = Vanilla /\ Emits(wsExtra[p])
    <3>1. /\ q \in Patches /\ wsExtra[p] \in Margins /\ start[p].killed \in BOOLEAN
          /\ Sound(q) /\ ~q.armed /\ q.netActive
      BY <1>2, <1>4, Zenon
    <3>2. QED
      BY <1>0, <3>1, ArmDecides, SMTT(30)
  <2>2. PICK window \in Margins : wsExtra[p] = Margin(p, wide[p], caps[p], window)
    BY <1>2
  <2>3. wsExtra[p] > 0 /\ caps[p] = wsExtra[p]
          <=> /\ wide[p] /\ caps[p] > 0
              /\ IF start[p].override >= 0 THEN Clamp(start[p].override) = caps[p]
                                           ELSE Clamp(caps[p]) = caps[p]
    <3>1. /\ start \in Starts /\ wide[p] \in BOOLEAN /\ caps[p] \in Peers
      BY SMT DEF TypeOK
    <3>2. QED
      BY <2>2, <3>1, MarginIsCaps, SMT
  <2> HIDE DEF q, r
  <2>4. (IF r.rom > 0 THEN r.rom ELSE 0) = Outcome(start[p], wide[p], caps[p])
    BY <1>2, <2>1, <2>3, SMT DEF Outcome
  <2>5. Clip(p)' = Outcome(start[p], wide[p], caps[p])'
    BY <1>1, <2>4, SMT DEF Clip, Outcome
  <2>6. Sound(patch[p])'
    BY <1>1, <1>3, Zenon DEF Sound
  <2>7. QED
    BY <1>1, <2>5, <2>6, SMT DEF Decided
<1>5. CASE ~active[p]
  <2> HIDE DEF q, r
  <2>1. Sound(patch[p])'
    BY <1>1, <1>3, Zenon DEF Sound
  <2>2. QED
    BY <1>1, <1>5, <2>1, SMT DEF Decided
<1>6. QED
  BY <1>4, <1>5

(* In the room a peer has no machine, and nothing it does there makes one. *)
LEMMA RoomDecides ==
  ASSUME TypeOK, NEW p \in Peer, Decided(p), Room(p)
  PROVE  Decided(p)'
<1>1. CASE Toggle(p) \/ PublishCaps(p)
  BY <1>1, Untouched, SMT DEF Toggle, PublishCaps
<1>2. CASE PlayOffline(p)
  <2>1. stage'[p] = "room" /\ patch'[p] = patch[p] /\ patch[p].rom = NoImage
    BY <1>2, SMT DEF PlayOffline, Decided
  <2>2. Sound(patch[p])'
    BY <2>1, Zenon DEF Decided, Sound
  <2>3. QED
    BY <2>1, <2>2, SMT DEF Decided
<1>3. QED
  BY <1>1, <1>2 DEF Room

LEMMA LobbyDecides ==
  ASSUME TypeOK, NEW p \in Peer, Decided(p), Lobby
  PROVE  Decided(p)'
<1>1. CASE OtherCaps \/ Meet
  BY <1>1, Untouched, SMT DEF OtherCaps, Meet
<1>2. CASE Launch
  <2>1. stage'[p] = "boot" /\ patch'[p] = patch[p] /\ patch[p].rom = NoImage
    BY <1>2, SMT DEF Launch, Decided
  <2>2. Sound(patch[p])'
    BY <2>1, Zenon DEF Decided, Sound
  <2>3. QED
    BY <2>1, <2>2, SMT DEF Decided
<1>3. CASE BackToRoom
  <2> DEFINE q == [ patch[p] EXCEPT !.rom = NoImage ]
  <2>1. q.rom = NoImage /\ Sound(q)
    <3>1. patch[p] \in Patches /\ NoImage \in Images /\ Sound(patch[p])
      BY SMT DEF TypeOK, Images, Decided
    <3>2. QED
      BY <3>1, ImageFacts, SMT
  <2>2. stage'[p] = "room" /\ patch'[p] = q
    BY <1>3, SMT DEF BackToRoom
  <2> HIDE DEF q
  <2>3. Sound(patch[p])'
    BY <2>1, <2>2, Zenon DEF Sound
  <2>4. QED
    BY <2>1, <2>2, <2>3, SMT DEF Decided
<1>4. QED
  BY <1>1, <1>2, <1>3 DEF Lobby

-----------------------------------------------------------------------------
LEMMA DecidedStep ==
  ASSUME TypeOK, \A p \in Peer : Decided(p), [Next]_vars, NEW q \in Peer
  PROVE  Decided(q)'
<1>1. CASE Lobby
  BY <1>1, LobbyDecides
<1>2. CASE \E p \in Peer : Room(p) \/ Setup(p)
  <2>1. PICK p \in Peer : Room(p) \/ Setup(p)
    BY <1>2
  <2>2. CASE p # q
    BY <2>1, <2>2, OthersUntouched
  <2>3. CASE p = q
    BY <2>1, <2>3, RoomDecides, BootDecides, PinDecides, ConnectDecides,
       ArmDecidesPeer DEF Setup
  <2>4. QED
    BY <2>2, <2>3
<1>3. CASE UNCHANGED vars
  BY <1>3, Untouched, SMT DEF vars
<1>4. QED
  BY <1>1, <1>2, <1>3 DEF Next

(* Caps arrive together, from one room. *)
LEMMA SameCapsStep ==
  ASSUME TypeOK, SameCaps, [Next]_vars
  PROVE  SameCaps'
<1>1. CASE Launch
  BY <1>1, SMT DEF Launch, SameCaps
<1>2. CASE ~Launch
  <2>1. caps' = caps
    <3>1. CASE OtherCaps \/ Meet \/ BackToRoom \/ UNCHANGED vars
      BY <3>1, Zenon DEF OtherCaps, Meet, BackToRoom, vars
    <3>2. ASSUME NEW p \in Peer, Room(p) \/ Setup(p)
          PROVE  caps' = caps
      BY <3>2, Zenon DEF Room, Setup, Toggle, PublishCaps, PlayOffline, Boot, Pin,
         Connect, Arm
    <3>3. QED
      BY <1>2, <3>1, <3>2 DEF Next, Lobby
  <2>2. QED
    BY <2>1, SMT DEF SameCaps
<1>3. QED
  BY <1>1, <1>2

(* A match that runs keeps every peer where it is until it ends. *)
LEMMA JoinedStep ==
  ASSUME TypeOK, Joined, [Next]_vars
  PROVE  Joined'
<1>1. CASE Meet
  BY <1>1, SMT DEF Meet, Joined, SameIdentity
<1>2. CASE Launch \/ BackToRoom
  BY <1>2, SMT DEF Launch, BackToRoom, Joined
<1>3. CASE OtherCaps
  BY <1>3, SMT DEF OtherCaps, Joined
<1>4. CASE \E p \in Peer : Room(p) \/ Setup(p)
  <2>1. PICK p \in Peer : Room(p) \/ Setup(p)
    BY <1>4
  <2>2. stage[p] # "play" /\ match' = match
    BY <2>1, SMT DEF Room, Setup, Toggle, PublishCaps, PlayOffline, Boot, Pin,
       Connect, Arm
  <2>3. QED
    BY <2>2, SMT DEF Joined
<1>5. CASE UNCHANGED vars
  BY <1>5, SMT DEF vars, Joined, SameIdentity
<1>6. QED
  BY <1>1, <1>2, <1>3, <1>4, <1>5 DEF Next, Lobby

LEMMA Invariant == Spec => [](TypeOK /\ Agreement)
<1>1. TypeOK /\ Agreement /\ [Next]_vars => (TypeOK /\ Agreement)'
  <2> SUFFICES ASSUME TypeOK, Agreement, [Next]_vars
               PROVE  TypeOK' /\ Agreement'
    OBVIOUS
  <2>1. TypeOK'
    BY TypeStep DEF Agreement
  <2>2. SameCaps' /\ Joined'
    BY SameCapsStep, JoinedStep DEF Agreement
  <2>3. \A q \in Peer : Decided(q)'
    BY DecidedStep DEF Agreement
  <2>4. Peer' = Peer
    OBVIOUS
  <2>5. QED
    BY <2>1, <2>2, <2>3, <2>4 DEF Agreement
<1>2. QED
  BY <1>1, InitHolds, PTL DEF Spec

(* The state of every peer keeps its type. *)
THEOREM TypeCorrect == Spec => []TypeOK
  BY Invariant, PTL

(* gwed_ws_patch.c:243, for any number of peers and any margin bound: peers
   started alike run the same guest code in every match, though each of them
   decided alone. *)
THEOREM PeersAgree == Spec => []BothOrNeither
<1>1. TypeOK /\ Agreement => BothOrNeither
  <2> SUFFICES ASSUME TypeOK, Agreement, match = "running", SameSettings,
                      NEW p \in Peer, NEW q \in Peer
               PROVE  Clip(p) = Clip(q)
    BY DEF BothOrNeither
  <2>1. /\ Clip(p) = Outcome(start[p], wide[p], caps[p])
        /\ Clip(q) = Outcome(start[q], wide[q], caps[q])
    BY SMT DEF Agreement, Joined, Decided
  <2>2. start[p] = start[q] /\ wide[p] = wide[q] /\ caps[p] = caps[q]
    BY Zenon DEF Agreement, Joined, SameIdentity, SameCaps, SameSettings
  <2>3. QED
    BY <2>1, <2>2
<1>2. QED
  BY <1>1, Invariant, PTL

(* Whatever a peer's settings are, a guest with netplay runs the room's margin
   or none. *)
THEOREM CapsAreACeiling == Spec => []NeverBeyondCaps
<1>1. TypeOK /\ Agreement => NeverBeyondCaps
  BY SMT DEF Agreement, Decided, NeverBeyondCaps, Outcome
<1>2. QED
  BY <1>1, Invariant, PTL
=============================================================================
