------------------------ MODULE HostDevices_proofs ------------------------
(***************************************************************************)
(* What main.c holds of SDL.  For any textures, gamepads and queue: the    *)
(* invariants of HostDevices.  For any rates, channels, requests and number *)
(* of sessions: what the audio thread of AudioPump touches.                *)
(***************************************************************************)
EXTENDS HostDevices, AudioPump, TLAPS

Pads  == [ Slot -> Device \union { NoDevice } ]
Rings == [ Ring -> Pointer ]

(* Main's texture is of this renderer and slot 0 is empty or main's; the other
   slots are of this renderer. *)
Owned(w, live) ==
  /\ w.caller \in live \union { NoTexture }
  /\ w.ring[0] \in { NoTexture, w.caller }
Others(w, live) == { w.ring[1], w.ring[2] } \subseteq live \union { NoTexture }

(* What an upload may do to the pointers w and the live textures. *)
Fine(f, redraw) ==
  /\ f.win \in Windows /\ f.alive \subseteq Texture /\ f.texture \in Pointer
  /\ alive \subseteq f.alive
  /\ f.win.overlay = win.overlay /\ f.win.strip = win.strip
  /\ f.texture = Current(f.win)
  /\ mode = "lock" => f.win.ring = win.ring
  /\ Others(win, alive) => Others(f.win, f.alive)
  /\ Owned(win, alive) => f.win.caller = win.caller /\ Owned(f.win, f.alive)
  /\ Owned(win, alive) /\ Others(win, alive) => f.texture \in f.alive \union { NoTexture }
  /\ ~redraw /\ Current(win) \in alive => f.texture = Current(win)

-----------------------------------------------------------------------------
(* Textures. *)

(* A texture of this renderer is used as it is, others may be replaced by a
   live one, and nothing that lives is lost. *)
LEMMA EnsuredResult ==
  ASSUME NEW t \in Pointer, NEW live \in SUBSET Texture, NEW e \in Ensured(t, live)
  PROVE  /\ e = << e[1], e[2] >> /\ e[1] \in Pointer
         /\ e[2] \subseteq Texture /\ live \subseteq e[2]
         /\ t \in live \union { NoTexture } => e[1] = t
  <1>1. CASE e = << t, live >>
    BY <1>1 DEF Pointer
  <1>2. CASE e \in Created(live) /\ t \notin live \union { NoTexture }
    BY <1>2 DEF Created, Pointer
  <1>3. CASE e \in Failed(live) /\ t \notin live \union { NoTexture }
    BY <1>3 DEF Failed, Pointer
  <1> QED
    BY <1>1, <1>2, <1>3 DEF Ensured

(* An overlay's texture is NULL or alive once it was so. *)
LEMMA ChromeResult ==
  ASSUME NEW open \in BOOLEAN, NEW t \in Pointer, NEW live \in SUBSET Texture,
         NEW e \in Chrome(open, t, live)
  PROVE  /\ e = << e[1], e[2] >> /\ e[1] \in Pointer
         /\ e[2] \subseteq Texture /\ live \subseteq e[2]
         /\ t \in live \union { NoTexture } => e[1] \in e[2] \union { NoTexture }
         /\ ~open => e[1] = t
  <1>1. CASE e = << t, live >>
    BY <1>1
  <1>2. CASE e \in Created(live) /\ open
    BY <1>2 DEF Created, Pointer
  <1>3. CASE e \in Failed(live) /\ open
    BY <1>3 DEF Failed, Pointer
  <1> QED
    BY <1>1, <1>2, <1>3 DEF Chrome

(* One texture. *)
LEMMA LockedFine ==
  ASSUME win \in Windows, alive \subseteq Texture, mode = "lock",
         NEW redraw \in BOOLEAN, NEW f \in Locked
  PROVE  Fine(f, redraw)
  <1>1. PICK e \in Ensured(win.caller, alive) :
          f = Fetch([ win EXCEPT !.caller = e[1] ], e)
    BY Zenon DEF Locked
  <1>2. win.caller \in Pointer
    BY Zenon DEF Windows
  <1>3. /\ e[1] \in Pointer /\ e[2] \subseteq Texture /\ alive \subseteq e[2]
        /\ win.caller \in alive \union { NoTexture } => e[1] = win.caller
    BY <1>2, EnsuredResult
  <1> DEFINE w == [ win EXCEPT !.caller = e[1] ]
  <1>4. w \in Windows
    BY <1>3, Zenon DEF Windows
  <1>5. /\ w.caller = e[1] /\ w.ring = win.ring
        /\ w.overlay = win.overlay /\ w.strip = win.strip
    BY SMT DEF Windows
  <1>6. f.win = w /\ f.alive = e[2] /\ f.texture = e[1]
    BY <1>1, SMT DEF Fetch
  <1> HIDE DEF w
  <1>7. Current(f.win) = e[1] /\ Current(win) = win.caller
    BY <1>5, <1>6, SMT DEF Current
  <1>8. /\ Others(win, alive) => Others(f.win, f.alive)
        /\ Owned(win, alive) => /\ f.win.caller = win.caller /\ Owned(f.win, f.alive)
                               /\ f.texture \in f.alive \union { NoTexture }
    BY <1>3, <1>5, <1>6, SMT DEF Owned, Others
  <1> QED
    BY <1>3, <1>4, <1>5, <1>6, <1>7, <1>8, SMT DEF Fine

(* The ring.  It is enough to know of the slot and the textures what the
   definition of Rotated says of them. *)
LEMMA RotatedFine ==
  ASSUME win \in Windows, alive \subseteq Texture, mode = "rotate",
         NoTexture \notin Texture, NEW redraw \in BOOLEAN, NEW f \in Rotated(redraw)
  PROVE  Fine(f, redraw)
  <1> DEFINE first == IF win.ring[0] = NoTexture THEN win.caller ELSE win.ring[0]
             next  == Turned(redraw)
             ring  == [ win.ring EXCEPT ![0] = first ]
             grown == IF ring[next] # NoTexture \/ first = NoTexture
                      THEN { << ring[next], alive >> }
                      ELSE Created(alive) \union Failed(alive)
             slot(g) == IF g[1] = NoTexture THEN 0 ELSE next
             from(g) == IF slot(g) = 0 THEN first ELSE g[1]
  <1> DEFINE result(g, e) ==
               Fetch([ win EXCEPT !.ring = [ ring EXCEPT ![slot(g)] = e[1] ],
                                  !.idx = slot(g),
                                  !.caller = IF slot(g) = 0 THEN e[1] ELSE @ ], e)
  <1>a. f \in UNION { { result(g, e) : e \in Ensured(from(g), g[2]) } : g \in grown }
    BY DEF Rotated
  <1>0. PICK g \in grown : \E e \in Ensured(from(g), g[2]) : f = result(g, e)
    <2> HIDE DEF result, grown, from
    <2> QED
      BY <1>a
  <1>1. PICK e \in Ensured(from(g), g[2]) : f = result(g, e)
    BY <1>0, Zenon
  <1>2. /\ win.caller \in Pointer /\ win.ring \in Rings /\ win.idx \in Ring
        /\ win.overlay \in Pointer /\ win.strip \in Pointer
    BY Zenon DEF Windows, Rings
  <1>3. 0 \in Ring
    BY SMT DEF Ring
  <1>4. first \in Pointer /\ win.ring[0] \in Pointer
    BY <1>2, <1>3, SMT DEF Rings
  <1>5. next \in Ring /\ (~redraw => next = win.idx)
    BY <1>2, SMT DEF Turned, Ring
  <1>6. ring \in Rings
    BY <1>2, <1>3, <1>4, SMT DEF Rings
  <1>7. /\ g[1] \in Pointer /\ g[2] \subseteq Texture /\ alive \subseteq g[2]
        /\ ring[next] \in alive => g[1] = ring[next] /\ g[2] = alive
        /\ g[1] \in g[2] \union { NoTexture, ring[next] }
    <2>1. ring[next] \in Pointer
      BY <1>5, <1>6, SMT DEF Rings
    <2>2. CASE g = << ring[next], alive >>
      BY <2>1, <2>2, SMT
    <2>3. CASE g \in Created(alive) /\ ring[next] = NoTexture
      BY <2>3 DEF Created, Pointer
    <2>4. CASE g \in Failed(alive) /\ ring[next] = NoTexture
      BY <2>4 DEF Failed, Pointer
    <2> QED
      BY <2>2, <2>3, <2>4, SMT
  <1>8. slot(g) \in Ring /\ from(g) \in Pointer
    BY <1>3, <1>4, <1>5, <1>7, SMT
  <1>9. /\ e[1] \in Pointer /\ e[2] \subseteq Texture
        /\ alive \subseteq e[2] /\ g[2] \subseteq e[2]
        /\ from(g) \in g[2] \union { NoTexture } => e[1] = from(g)
    BY <1>1, <1>7, <1>8, EnsuredResult
  <1> DEFINE turned == [ ring EXCEPT ![slot(g)] = e[1] ]
             called == IF slot(g) = 0 THEN e[1] ELSE win.caller
             w == [ win EXCEPT !.ring = turned, !.idx = slot(g), !.caller = called ]
  <1>10. turned \in Rings /\ turned[slot(g)] = e[1] /\ called \in Pointer
    BY <1>2, <1>6, <1>8, <1>9, SMT DEF Rings
  <1>11. f.win = w /\ f.alive = e[2] /\ f.texture = e[1]
    BY <1>1, SMT DEF Fetch
  <1>12. ~redraw /\ Current(win) \in alive => e[1] = Current(win)
    <2> SUFFICES ASSUME ~redraw, win.ring[win.idx] \in alive
                 PROVE  e[1] = win.ring[win.idx]
      BY SMT DEF Current
    <2>1. ring[next] = win.ring[win.idx]
      BY <1>2, <1>5, SMT DEF Rings
    <2>2. g[1] = win.ring[win.idx] /\ g[2] = alive /\ slot(g) = win.idx
      BY <1>5, <1>7, <2>1, SMT
    <2>3. from(g) = win.ring[win.idx]
      BY <2>2, SMT
    <2> QED
      BY <1>9, <2>2, <2>3, SMT
  <1>16. Others(win, alive) =>
           /\ { turned[1], turned[2] } \subseteq e[2] \union { NoTexture }
           /\ slot(g) # 0 => e[1] \in e[2] \union { NoTexture }
    <2> SUFFICES ASSUME Others(win, alive)
                 PROVE  /\ { turned[1], turned[2] } \subseteq e[2] \union { NoTexture }
                        /\ slot(g) # 0 => e[1] \in e[2] \union { NoTexture }
      OBVIOUS
    <2>1. { ring[1], ring[2] } \subseteq alive \union { NoTexture }
      BY <1>2, SMT DEF Others, Rings, Ring
    <2>2. slot(g) # 0 => from(g) = g[1] /\ slot(g) = next /\ next \in { 1, 2 }
      BY <1>5, SMT DEF Ring
    <2>6. slot(g) # 0 => ring[next] \in alive \union { NoTexture }
      BY <2>1, <2>2, SMT
    <2>7. slot(g) # 0 => from(g) \in g[2] \union { NoTexture }
      <3> HIDE DEF slot, from, ring, next, grown
      <3> QED
        BY <1>7, <2>2, <2>6, Zenon
    <2>3. slot(g) # 0 => e[1] \in e[2] \union { NoTexture }
      <3> HIDE DEF slot, from, ring, next, grown
      <3> QED
        BY <1>9, <2>7, SMT
    <2>4. \A i \in { 1, 2 } : turned[i] = ring[i] \/ (turned[i] = e[1] /\ slot(g) # 0)
      BY <1>6, <1>8, SMT DEF Rings, Ring
    <2>5. alive \subseteq e[2]
      BY <1>7, <1>9, SMT
    <2> HIDE DEF turned, slot, from, ring, next
    <2> QED
      BY <2>1, <2>3, <2>4, <2>5, SMT
  <1>17. Owned(win, alive) =>
           /\ called = win.caller /\ turned[0] = win.caller
           /\ slot(g) = 0 => e[1] = win.caller
    <2> SUFFICES ASSUME Owned(win, alive)
                 PROVE  /\ called = win.caller /\ turned[0] = win.caller
                        /\ slot(g) = 0 => e[1] = win.caller
      OBVIOUS
    <2>1. first = win.caller /\ win.caller \in alive \union { NoTexture }
      BY SMT DEF Owned
    <2>2. ring[0] = first
      BY <1>2, <1>3, SMT DEF Rings
    <2>3. slot(g) = 0 => e[1] = win.caller
      BY <1>7, <1>9, <2>1, SMT
    <2>4. turned[0] = IF slot(g) = 0 THEN e[1] ELSE ring[0]
      BY <1>3, <1>6, <1>8, SMT DEF Rings
    <2> QED
      BY <2>1, <2>2, <2>3, <2>4, SMT
  <1> HIDE DEF turned, called, slot, from, grown, ring, next, first
  <1>13. w \in Windows
    BY <1>2, <1>8, <1>10, Zenon DEF Windows, Rings
  <1>14. /\ w.overlay = win.overlay /\ w.strip = win.strip
         /\ w.ring = turned /\ w.idx = slot(g) /\ w.caller = called
    BY SMT DEF Windows
  <1> HIDE DEF w
  <1>15. Current(f.win) = e[1]
    BY <1>10, <1>11, <1>14, SMT DEF Current
  <1>18. alive \subseteq e[2]
    BY <1>7, <1>9, SMT
  <1>19. /\ Others(win, alive) => Others(f.win, f.alive)
         /\ Owned(win, alive) => f.win.caller = win.caller /\ Owned(f.win, f.alive)
         /\ Owned(win, alive) /\ Others(win, alive)
              => f.texture \in f.alive \union { NoTexture }
    BY <1>11, <1>14, <1>16, <1>17, <1>18, SMT DEF Owned, Others
  <1> QED
    BY <1>9, <1>11, <1>12, <1>13, <1>14, <1>15, <1>18, <1>19, SMT DEF Fine

LEMMA FetchedFine ==
  ASSUME win \in Windows, alive \subseteq Texture, mode \in Modes,
         NEW redraw \in BOOLEAN, NEW f \in Fetched(redraw)
  PROVE  Fine(f, redraw)
  <1>1. mode \in { "lock", "rotate" } /\ NoTexture \notin Texture
    BY HostDevicesAssumption, SMT
  <1>2. CASE mode = "rotate"
    BY <1>1, <1>2, RotatedFine, Zenon DEF Fetched
  <1>3. CASE mode = "lock"
    BY <1>1, <1>3, LockedFine, Zenon DEF Fetched
  <1> QED
    BY <1>1, <1>2, <1>3, Zenon

(* The last picture is the one on the screen and the one a held frame finds. *)
Standing == shown = latest /\ latest = Current(win) /\ latest \in alive

(* It stands if the last new frame was uploaded.  With one texture a picture
   that was once uploaded stands. *)
Upheld ==
  /\ uploaded => Standing
  /\ mode = "lock" /\ latest # NoTexture => Standing

(* What is drawn with. *)
Drawable ==
  /\ win.overlay \in alive \union { NoTexture }
  /\ win.strip \in alive \union { NoTexture }
  /\ Others(win, alive)
  /\ mode = "lock" => win.ring[0] = NoTexture
  /\ mode = "lock" \/ ~rematch =>
       Owned(win, alive) /\ shown \in alive \union { NoTexture }

(* Everything a present may do. *)
LEMMA PresentResult ==
  ASSUME TypeOK, UNCHANGED << mode, rematch >>, NEW redraw \in BOOLEAN, Present(redraw)
  PROVE  /\ win' \in Windows /\ alive' \subseteq Texture
         /\ shown' \in Pointer /\ latest' \in Pointer /\ uploaded' \in BOOLEAN
         /\ modal = {} => win'.overlay = win.overlay /\ win'.strip = win.strip
         /\ Drawable => Drawable'
         /\ Drawable /\ Upheld => Upheld'
  <1>1. /\ win \in Windows /\ alive \subseteq Texture /\ mode \in Modes
        /\ shown \in Pointer /\ latest \in Pointer /\ uploaded \in BOOLEAN
        /\ NoTexture \notin Texture
    BY HostDevicesAssumption, Zenon DEF TypeOK
  <1>2. PICK f \in Fetched(redraw) :
          \/ /\ f.texture = NoTexture
             /\ win' = f.win /\ alive' = f.alive
             /\ uploaded' = (uploaded /\ ~redraw)
             /\ UNCHANGED << shown, latest >>
          \/ /\ f.texture # NoTexture
             /\ \E ok \in BOOLEAN :
                  LET held == ok /\ f.texture \in f.alive
                  IN /\ uploaded' = IF redraw THEN held ELSE uploaded
                     /\ latest' = IF redraw /\ held THEN f.texture ELSE latest
             /\ shown' = f.texture
             /\ \E o \in Chrome("menu" \in modal, f.win.overlay, f.alive) :
                  \E s \in Chrome("rewind" \in modal, f.win.strip, o[2]) :
                    /\ win' = [ f.win EXCEPT !.overlay = o[1], !.strip = s[1] ]
                    /\ alive' = s[2]
    BY Zenon DEF Present
  <1>3. Fine(f, redraw)
    BY <1>1, FetchedFine, Zenon
  <1>4. /\ f.win \in Windows /\ f.alive \subseteq Texture /\ f.texture \in Pointer
        /\ alive \subseteq f.alive
        /\ f.win.overlay = win.overlay /\ f.win.strip = win.strip
        /\ f.texture = Current(f.win)
        /\ mode = "lock" => f.win.ring = win.ring
        /\ Others(win, alive) => Others(f.win, f.alive)
        /\ Owned(win, alive) => f.win.caller = win.caller /\ Owned(f.win, f.alive)
        /\ Owned(win, alive) /\ Others(win, alive)
             => f.texture \in f.alive \union { NoTexture }
        /\ ~redraw /\ Current(win) \in alive => f.texture = Current(win)
    BY <1>3, Zenon DEF Fine
  <1>5. f.win.overlay \in Pointer /\ f.win.strip \in Pointer
    BY <1>4, Zenon DEF Windows
  <1>6. ASSUME Drawable, mode = "lock", Standing
        PROVE  f.texture = latest /\ latest # NoTexture /\ Current(f.win) = latest
    <2>1. f.win.caller = win.caller
      BY <1>4, <1>6, SMT DEF Drawable
    <2> QED
      BY <1>1, <1>4, <1>6, <2>1, SMT DEF Standing, Current
  <1>7. CASE f.texture = NoTexture
    <2>1. /\ win' = f.win /\ alive' = f.alive
          /\ uploaded' = (uploaded /\ ~redraw) /\ shown' = shown /\ latest' = latest
      BY <1>2, <1>7, Zenon
    <2>2. ~(uploaded /\ ~redraw /\ Standing)
      BY <1>1, <1>4, <1>7, Zenon DEF Standing
    <2>3. uploaded' \in BOOLEAN /\ (uploaded' => uploaded /\ ~redraw)
      BY <2>1, Zenon
    <2>4. Drawable /\ Upheld => Upheld'
      <3> SUFFICES ASSUME Drawable, Upheld PROVE Upheld'
        OBVIOUS
      <3>1. ~uploaded'
        BY <2>2, <2>3, Zenon DEF Upheld
      <3>2. ~(mode = "lock" /\ latest # NoTexture)
        BY <1>6, <1>7, Zenon DEF Upheld
      <3> QED
        BY <2>1, <3>1, <3>2, Zenon DEF Upheld
    <2>5. Drawable => Drawable'
      BY <1>4, <2>1, SMT DEF Drawable, Owned
    <2> QED
      BY <1>1, <1>4, <2>1, <2>3, <2>4, <2>5, SMT
  <1>8. CASE f.texture # NoTexture
    <2>1. shown' = f.texture
      BY <1>2, <1>8, Zenon
    <2>2. PICK o \in Chrome("menu" \in modal, f.win.overlay, f.alive) :
            \E s \in Chrome("rewind" \in modal, f.win.strip, o[2]) :
              /\ win' = [ f.win EXCEPT !.overlay = o[1], !.strip = s[1] ]
              /\ alive' = s[2]
      BY <1>2, <1>8, Zenon
    <2>3. PICK s \in Chrome("rewind" \in modal, f.win.strip, o[2]) :
            /\ win' = [ f.win EXCEPT !.overlay = o[1], !.strip = s[1] ]
            /\ alive' = s[2]
      BY <2>2, Zenon
    <2>4. PICK ok \in BOOLEAN :
            LET held == ok /\ f.texture \in f.alive
            IN /\ uploaded' = IF redraw THEN held ELSE uploaded
               /\ latest' = IF redraw /\ held THEN f.texture ELSE latest
      BY <1>2, <1>8, Zenon
    <2>5. PICK m \in BOOLEAN : m <=> "menu" \in modal
      OBVIOUS
    <2>6. PICK r \in BOOLEAN : r <=> "rewind" \in modal
      OBVIOUS
    <2>7. o \in Chrome(m, f.win.overlay, f.alive) /\ s \in Chrome(r, f.win.strip, o[2])
      BY <2>2, <2>3, <2>5, <2>6, SMT DEF Chrome
    <2>8. /\ o[1] \in Pointer /\ o[2] \subseteq Texture /\ f.alive \subseteq o[2]
          /\ f.win.overlay \in f.alive \union { NoTexture }
               => o[1] \in o[2] \union { NoTexture }
          /\ ~m => o[1] = f.win.overlay
      BY <1>4, <1>5, <2>7, ChromeResult
    <2>9. /\ s[1] \in Pointer /\ s[2] \subseteq Texture /\ o[2] \subseteq s[2]
          /\ f.win.strip \in o[2] \union { NoTexture }
               => s[1] \in s[2] \union { NoTexture }
          /\ ~r => s[1] = f.win.strip
      BY <1>5, <2>7, <2>8, ChromeResult
    <2>10. win' \in Windows
      BY <1>4, <2>3, <2>8, <2>9, Zenon DEF Windows
    <2>11. /\ win'.overlay = o[1] /\ win'.strip = s[1]
           /\ win'.caller = f.win.caller /\ win'.ring = f.win.ring /\ win'.idx = f.win.idx
      BY <1>4, <2>3, SMT DEF Windows
    <2>12. Current(win)' = f.texture /\ Current(f.win) = f.texture
      BY <1>4, <2>11, SMT DEF Current
    <2>13. latest' \in Pointer /\ uploaded' \in BOOLEAN
      BY <1>1, <1>4, <2>4, Zenon
    <2>14. f.alive \subseteq alive' /\ alive \subseteq alive' /\ alive' = s[2]
      BY <1>4, <2>3, <2>8, <2>9, SMT
    <2>15. Drawable /\ Upheld => Upheld'
      <3> SUFFICES ASSUME Drawable, Upheld PROVE Upheld'
        OBVIOUS
      <3>1. CASE redraw /\ ok /\ f.texture \in f.alive
        <4>1. latest' = f.texture
          BY <2>4, <3>1, Zenon
        <4> QED
          BY <2>1, <2>12, <2>14, <3>1, <4>1, SMT DEF Standing, Upheld
      <3>2. CASE redraw /\ ~(ok /\ f.texture \in f.alive)
        <4>1. ~uploaded' /\ latest' = latest
          BY <2>4, <3>2, Zenon
        <4>2. ASSUME mode = "lock", latest # NoTexture
              PROVE  Standing'
          <5>1. Standing
            BY <4>2, Zenon DEF Upheld
          <5>2. f.texture = latest
            BY <1>6, <4>2, <5>1, Zenon
          <5> QED
            BY <2>1, <2>12, <2>14, <4>1, <5>1, <5>2, SMT DEF Standing
        <4> QED
          BY <4>1, <4>2, Zenon DEF Upheld
      <3>3. CASE ~redraw
        <4>1. uploaded' = uploaded /\ latest' = latest
          BY <2>4, <3>3, Zenon
        <4>2. Standing => Standing'
          BY <1>4, <2>1, <2>12, <2>14, <3>3, <4>1, SMT DEF Standing
        <4> QED
          BY <4>1, <4>2, Zenon DEF Upheld
      <3> QED
        BY <3>1, <3>2, <3>3, Zenon
    <2>16. Drawable => Drawable'
      <3> SUFFICES ASSUME Drawable PROVE Drawable'
        OBVIOUS
      <3>1. win'.overlay \in alive' \union { NoTexture }
        BY <1>4, <2>8, <2>9, <2>11, <2>14, SMT DEF Drawable
      <3>2. win'.strip \in alive' \union { NoTexture }
        BY <1>4, <2>8, <2>9, <2>11, <2>14, SMT DEF Drawable
      <3>3. Others(win', alive')
        BY <1>4, <2>11, <2>14, SMT DEF Drawable, Others
      <3>4. mode' = "lock" => win'.ring[0] = NoTexture
        BY <1>4, <2>11, SMT DEF Drawable
      <3>5. mode' = "lock" \/ ~rematch' =>
              Owned(win', alive') /\ shown' \in alive' \union { NoTexture }
        BY <1>4, <2>1, <2>11, <2>14, SMT DEF Drawable, Owned
      <3> QED
        BY <3>1, <3>2, <3>3, <3>4, <3>5, Zenon DEF Drawable
    <2>17. modal = {} => ~m /\ ~r
      BY <2>5, <2>6, Zenon
    <2> QED
      BY <1>4, <2>1, <2>3, <2>8, <2>9, <2>10, <2>11, <2>13, <2>15, <2>16, <2>17, SMT
  <1> QED
    BY <1>7, <1>8, Zenon

-----------------------------------------------------------------------------
(* Gamepads. *)

Fits(slots) == (slots[1] = NoDevice => slots[2] = NoDevice)
                 /\ (slots[1] = slots[2] => slots[1] = NoDevice)

Waiting(kind) == \E i \in DOMAIN queue : queue[i] = kind

(* Every seat of an offline session. *)
Seated ==
  /\ Fits(pads)
  /\ (\E s \in Slot : pads[s] \notin connected \union { NoDevice }) => Waiting("removed")
  /\ (pads[1] = NoDevice /\ connected # {}) => queue # << >>

(* A scan fills the seats with gamepads that are there, and leaves the first
   empty only when there is none. *)
LEMMA OpenedResult ==
  ASSUME NEW slots \in Pads, connected \subseteq Device, NoDevice \notin Device,
         NEW p \in Opened(slots)
  PROVE  /\ p \in Pads
         /\ Fits(slots) => Fits(p)
         /\ Fits(slots) /\ p[1] = NoDevice => connected = {}
         /\ \A s \in Slot : p[s] = slots[s] \/ p[s] \in connected \union { NoDevice }
  <1>0. Slot = { 1, 2 }
    BY SMT DEF Slot
  <1>1. CASE p = slots /\ (slots[1] # NoDevice \/ connected = {})
    BY <1>1, Zenon
  <1>2. CASE ~(slots[1] # NoDevice \/ connected = {})
    <2> DEFINE second(d) == IF slots[2] # NoDevice THEN { slots[2] }
                            ELSE IF connected = { d } THEN { NoDevice } ELSE connected \ { d }
               filled(d, e) == [ slots EXCEPT ![1] = d, ![2] = e ]
    <2>1. p \in UNION { { filled(d, e) : e \in second(d) } : d \in connected }
      BY <1>2 DEF Opened
    <2>2. PICK d \in connected : \E e \in second(d) : p = filled(d, e)
      <3> HIDE DEF second, filled
      <3> QED
        BY <2>1
    <2>3. PICK e \in second(d) : p = filled(d, e)
      BY <2>2, Zenon
    <2>4. /\ e \in Device \union { NoDevice }
          /\ slots[2] = NoDevice => e # d /\ e \in connected \union { NoDevice }
          /\ slots[2] # NoDevice => e = slots[2]
      BY <1>0, <2>2, <2>3, SMT DEF Pads
    <2>5. p \in Pads /\ p[1] = d /\ p[2] = e
      BY <1>0, <2>2, <2>3, <2>4, SMT DEF Pads
    <2> QED
      BY <1>0, <1>2, <2>2, <2>4, <2>5, SMT DEF Fits
  <1> QED
    BY <1>1, <1>2, SMT DEF Opened

LEMMA NoPadsFit == NoPads \in Pads /\ Fits(NoPads)
  BY SMT DEF NoPads, Pads, Fits, Slot

(* A waiting event is still waiting when another one is queued, and until it
   is at the head. *)
LEMMA QueueGrows ==
  ASSUME NEW kind \in { "added", "removed" },
         queue \in Seq({ "added", "removed" }), queue' = Append(queue, kind)
  PROVE  /\ queue' \in Seq({ "added", "removed" }) /\ queue' # << >>
         /\ Waiting("removed") => Waiting("removed")'
         /\ kind = "removed" => Waiting("removed")'
  <1>1. /\ queue' \in Seq({ "added", "removed" }) /\ Len(queue') = Len(queue) + 1
        /\ queue'[Len(queue')] = kind
        /\ \A i \in 1 .. Len(queue) : queue'[i] = queue[i]
        /\ DOMAIN queue = 1 .. Len(queue) /\ DOMAIN queue' = 1 .. Len(queue')
        /\ Len(queue) \in Nat
    BY SMT
  <1> QED
    BY <1>1, SMT DEF Waiting

LEMMA QueueShrinks ==
  ASSUME queue \in Seq({ "added", "removed" }), queue # << >>, queue' = Tail(queue)
  PROVE  /\ queue' \in Seq({ "added", "removed" })
         /\ Len(queue') = Len(queue) - 1 /\ Head(queue) \in { "added", "removed" }
         /\ Waiting("removed") /\ Head(queue) = "added" => Waiting("removed")'
  <1>1. /\ queue' \in Seq({ "added", "removed" }) /\ Len(queue') = Len(queue) - 1
        /\ Head(queue) = queue[1] /\ Len(queue) \in Nat \ { 0 }
        /\ \A i \in 1 .. Len(queue') : queue'[i] = queue[i + 1]
        /\ DOMAIN queue = 1 .. Len(queue) /\ DOMAIN queue' = 1 .. Len(queue')
    BY SMT
  <1>2. Head(queue) \in { "added", "removed" }
    BY <1>1, SMT
  <1>3. ASSUME Waiting("removed"), Head(queue) = "added"
        PROVE  Waiting("removed")'
    <2>1. PICK i \in 1 .. Len(queue) : queue[i] = "removed"
      BY <1>1, <1>3, SMT DEF Waiting
    <2>2. i - 1 \in 1 .. Len(queue') /\ queue'[i - 1] = "removed"
      BY <1>1, <1>3, <2>1, SMT
    <2>3. i - 1 \in DOMAIN queue' /\ queue'[i - 1] = "removed"
      BY <1>1, <2>2, Zenon
    <2> QED
      BY <2>3, Zenon DEF Waiting
  <1> QED
    BY <1>1, <1>2, <1>3, SMT

-----------------------------------------------------------------------------
(* The invariant.  Overlays exist in sessions that do not lead to another, so a
   match and the launcher have none, and the launcher has no ring but the slot 0
   of an earlier session; what is drawn with is alive and the last picture
   stands; the seats of an offline session are right, and between sessions none
   is taken. *)
Bare == modal = {} /\ win.overlay = NoTexture /\ win.strip = NoTexture

NoRing ==
  /\ win.ring[1] = NoTexture /\ win.ring[2] = NoTexture
  /\ mode = "lock" \/ ~rematch => win.ring[0] = NoTexture

Control ==
  /\ stage \in { "rewind", "late", "menu" } => ~link
  /\ (stage \in Session /\ link) \/ stage = "launcher" => Bare
  /\ stage = "launcher" => NoRing

Pictures == stage \in Session => Drawable /\ Upheld

Seats ==
  /\ stage \in Session /\ ~link => Seated
  /\ stage = "launcher" => pads = NoPads

IInv == TypeOK /\ Control /\ Pictures /\ Seats

LEMMA InitInvariant == Init => IInv
  <1> SUFFICES ASSUME Init PROVE IInv
    OBVIOUS
  <1>1. win \in Windows
    BY SMT DEF Init, Windows, Pointer, Ring
  <1>2. queue \in Seq({ "added", "removed" }) /\ Len(queue) <= QueueMax
    BY HostDevicesAssumption, SMT DEF Init
  <1>3. pads \in Pads
    BY NoPadsFit, Zenon DEF Init
  <1>4. TypeOK
    BY <1>1, <1>2, <1>3, Zenon DEF Init, TypeOK, Stages, Overlays, Pointer, Pads
  <1>5. Control /\ Pictures /\ Seats
    BY SMT DEF Init, Control, Bare, NoRing, Ring, Pictures, Seats, Session
  <1> QED
    BY <1>4, <1>5, Zenon DEF IInv

-----------------------------------------------------------------------------
(* Steps that leave the textures alone, and steps that leave the pads alone. *)

LEMMA PicturesCarry ==
  ASSUME Pictures, stage \in Session, UNCHANGED << mode, rematch, textureVars >>
  PROVE  Pictures'
  BY SMT DEF Pictures, textureVars, Drawable, Owned, Others, Upheld, Standing, Current

LEMMA SeatsCarry ==
  ASSUME Seats, stage \in Session, stage' \in Session, UNCHANGED << link, padVars >>
  PROVE  Seats'
  BY SMT DEF Seats, padVars, Seated, Fits, Waiting, Session

LEMMA PicturesPresent ==
  ASSUME TypeOK, Pictures, stage \in Session, UNCHANGED << mode, rematch >>,
         NEW redraw \in BOOLEAN, Present(redraw)
  PROVE  Pictures'
  BY PresentResult, Zenon DEF Pictures

LEMMA BarePresent ==
  ASSUME TypeOK, Bare, UNCHANGED << mode, rematch, modal >>,
         NEW redraw \in BOOLEAN, Present(redraw)
  PROVE  Bare'
  BY PresentResult, SMT DEF Bare

(* What a step of the devices has to show for the pads. *)
PadsKept ==
  /\ connected' \subseteq Device /\ pads' \in Pads
  /\ queue' \in Seq({ "added", "removed" }) /\ Len(queue') <= QueueMax
  /\ Seats'

(* Plugging in and pulling out: the event that is queued accounts for it. *)
LEMMA HardwareKeeps ==
  ASSUME TypeOK, Seats, UNCHANGED << stage, link, pads >>,
         NEW kind \in { "added", "removed" }, Tell(kind), connected' \subseteq Device,
         kind = "added" => connected \subseteq connected'
  PROVE  PadsKept
  <1>1. /\ pads \in Pads /\ queue \in Seq({ "added", "removed" })
        /\ Len(queue) <= QueueMax /\ QueueMax \in Nat
    BY HostDevicesAssumption, Zenon DEF TypeOK, Pads
  <1>2. CASE stage \in Session
    <2>1. Len(queue) < QueueMax /\ queue' = Append(queue, kind)
      BY <1>2, Zenon DEF Tell
    <2>2. /\ queue' \in Seq({ "added", "removed" }) /\ queue' # << >>
          /\ Waiting("removed") => Waiting("removed")'
          /\ kind = "removed" => Waiting("removed")'
      BY <1>1, <2>1, QueueGrows
    <2>3. Len(queue') <= QueueMax
      BY <1>1, <2>1, SMT
    <2>4. Seated => Seated'
      BY <2>2, SMT DEF Seated, Fits
    <2>5. Seats'
      BY <1>2, <2>4, SMT DEF Seats, Session
    <2> QED
      BY <1>1, <2>2, <2>3, <2>5, Zenon DEF PadsKept
  <1>3. CASE stage \notin Session
    <2>1. queue' = queue
      BY <1>3, Zenon DEF Tell
    <2>2. Seats'
      BY <1>3, SMT DEF Seats
    <2> QED
      BY <1>1, <2>1, <2>2, SMT DEF PadsKept
  <1> QED
    BY <1>2, <1>3

(* An event is handled: the seats fit, and none is left to a gamepad that went
   away, unless another event says so. *)
LEMMA HandlingKeeps ==
  ASSUME TypeOK, Seats, HandleEvent
  PROVE  PadsKept
  <1>1. /\ pads \in Pads /\ connected \subseteq Device /\ NoDevice \notin Device
        /\ queue \in Seq({ "added", "removed" }) /\ Len(queue) <= QueueMax
        /\ QueueMax \in Nat
    BY HostDevicesAssumption, Zenon DEF TypeOK, Pads
  <1>2. /\ queue # << >> /\ queue' = Tail(queue) /\ pads' \in Handled(Head(queue))
        /\ stage \in Session /\ stage' = stage /\ link' = link
        /\ connected' = connected
    BY SMT DEF HandleEvent, Session
  <1>3. /\ queue' \in Seq({ "added", "removed" })
        /\ Len(queue') = Len(queue) - 1 /\ Head(queue) \in { "added", "removed" }
        /\ Waiting("removed") /\ Head(queue) = "added" => Waiting("removed")'
    BY <1>1, <1>2, QueueShrinks
  <1>4. Len(queue') <= QueueMax
    BY <1>1, <1>3, SMT
  <1>5. CASE Head(queue) = "added"
    <2>1. pads' \in Opened(pads)
      BY <1>2, <1>5, SMT DEF Handled
    <2>2. /\ pads' \in Pads
          /\ Fits(pads) => Fits(pads')
          /\ Fits(pads) /\ pads'[1] = NoDevice => connected = {}
          /\ \A s \in Slot : pads'[s] = pads[s] \/ pads'[s] \in connected \union { NoDevice }
      BY <1>1, <2>1, OpenedResult
    <2>3. Seated => Seated'
      BY <1>2, <1>3, <1>5, <2>2, SMT DEF Seated, Fits
    <2>4. Seats'
      BY <1>2, <2>3, SMT DEF Seats, Session
    <2> QED
      BY <1>1, <1>2, <1>3, <1>4, <2>2, <2>4, Zenon DEF PadsKept
  <1>6. CASE Head(queue) = "removed"
    <2>1. pads' \in Opened(NoPads)
      BY <1>2, <1>6, SMT DEF Handled
    <2>2. /\ pads' \in Pads
          /\ Fits(pads')
          /\ pads'[1] = NoDevice => connected = {}
          /\ \A s \in Slot : pads'[s] = NoPads[s] \/ pads'[s] \in connected \union { NoDevice }
      BY <1>1, <2>1, OpenedResult, NoPadsFit
    <2>3. Seated'
      BY <1>2, <2>2, SMT DEF Seated, Fits, NoPads
    <2>4. Seats'
      BY <1>2, <2>3, SMT DEF Seats, Session
    <2> QED
      BY <1>1, <1>2, <1>3, <1>4, <2>2, <2>4, Zenon DEF PadsKept
  <1> QED
    BY <1>3, <1>5, <1>6

LEMMA BarrierKeeps ==
  ASSUME TypeOK, Seats, BarrierDropsEvents
  PROVE  PadsKept
  <1>1. /\ pads \in Pads /\ connected \subseteq Device
        /\ queue' = << >> /\ pads' = pads /\ connected' = connected
        /\ stage' = stage /\ link' = link /\ link /\ stage = "body"
        /\ QueueMax \in Nat
    BY HostDevicesAssumption, Zenon DEF TypeOK, Pads, BarrierDropsEvents
  <1>2. queue' \in Seq({ "added", "removed" }) /\ Len(queue') <= QueueMax
    BY <1>1, SMT
  <1>3. Seats'
    BY <1>1, SMT DEF Seats
  <1> QED
    BY <1>1, <1>2, <1>3, Zenon DEF PadsKept

(* A step of the devices leaves the program where it is. *)
LEMMA DevicesInvariant == IInv /\ Devices => IInv'
  <1> SUFFICES ASSUME IInv, Devices PROVE IInv'
    OBVIOUS
  <1>1. TypeOK /\ Control /\ Pictures /\ Seats /\ connected \subseteq Device
    BY Zenon DEF IInv, TypeOK
  <1>2. UNCHANGED << mode, stage, running, rematch, link, modal, textureVars >>
    BY SMT DEF Devices, Plug, Unplug, HandleEvent, BarrierDropsEvents
  <1>3. Control' /\ Pictures'
    BY <1>1, <1>2, SMT DEF Control, Bare, NoRing, Pictures, textureVars, Drawable, Owned, Others,
      Upheld, Standing, Current
  <1>4. ASSUME NEW d \in Device, Plug(d)
        PROVE  PadsKept
    <2>1. /\ connected' = connected \union { d } /\ Tell("added")
          /\ UNCHANGED << stage, link, pads >>
      BY <1>4, SMT DEF Plug
    <2> QED
      BY <1>1, <2>1, HardwareKeeps
  <1>5. ASSUME NEW d \in Device, Unplug(d)
        PROVE  PadsKept
    <2>1. /\ connected' = connected \ { d } /\ Tell("removed")
          /\ UNCHANGED << stage, link, pads >>
      BY <1>5, SMT DEF Unplug
    <2> QED
      BY <1>1, <2>1, HardwareKeeps
  <1>6. PadsKept
    BY <1>1, <1>4, <1>5, HandlingKeeps, BarrierKeeps, Zenon DEF Devices
  <1>7. TypeOK'
    BY <1>1, <1>2, <1>6, SMT DEF TypeOK, PadsKept, Pads, textureVars
  <1> QED
    BY <1>3, <1>6, <1>7, Zenon DEF IInv, PadsKept

-----------------------------------------------------------------------------
(* The loop. *)

(* A step that presents. *)
LEMMA PresentingInvariant ==
  ASSUME IInv, NEW redraw \in BOOLEAN, Present(redraw), stage \in Session,
         stage' \in Session, UNCHANGED << mode, running, rematch, link, modal, padVars >>,
         stage' \in { "rewind", "late", "menu" } => ~link
  PROVE  IInv'
  <1>1. TypeOK /\ Control /\ Pictures /\ Seats
    BY Zenon DEF IInv
  <1>2. Seats'
    BY <1>1, SeatsCarry, Zenon
  <1>3. Pictures'
    BY <1>1, PicturesPresent, SMT
  <1>4. Control'
    <2>1. link => Bare'
      BY <1>1, BarePresent, Zenon DEF Control
    <2> QED
      BY <2>1, SMT DEF Control, Session
  <1>5. /\ win' \in Windows /\ alive' \subseteq Texture
        /\ shown' \in Pointer /\ latest' \in Pointer /\ uploaded' \in BOOLEAN
    BY <1>1, PresentResult, Zenon
  <1>6. /\ stage' \in Stages
        /\ UNCHANGED << mode, running, rematch, link, modal, connected, pads, queue >>
    BY SMT DEF Session, Stages, padVars
  <1>7. TypeOK'
    BY <1>1, <1>5, <1>6, SMT DEF TypeOK
  <1> QED
    BY <1>2, <1>3, <1>4, <1>7, Zenon DEF IInv

(* A step within a session that presents nothing. *)
LEMMA SilentInvariant ==
  ASSUME IInv, stage \in Session, stage' \in Session,
         UNCHANGED << mode, rematch, link, textureVars, padVars >>,
         running' \in BOOLEAN, modal' \subseteq Overlays,
         link => modal' = modal,
         stage' \in { "rewind", "late", "menu" } => ~link
  PROVE  IInv'
  <1>1. TypeOK /\ Control /\ Pictures /\ Seats
    BY Zenon DEF IInv
  <1>2. Seats'
    BY <1>1, SeatsCarry, SMT
  <1>3. Pictures'
    BY <1>1, PicturesCarry, SMT
  <1>4. Control'
    BY <1>1, SMT DEF Control, Bare, Session, textureVars
  <1>5. TypeOK'
    BY <1>1, SMT DEF TypeOK, Session, Stages, textureVars, padVars
  <1> QED
    BY <1>2, <1>3, <1>4, <1>5, Zenon DEF IInv

LEMMA FramesInvariant == IInv /\ Frames => IInv'
  <1> SUFFICES ASSUME IInv, Frames PROVE IInv'
    OBVIOUS
  <1>0. /\ stage \in { "rewind", "late", "menu" } => ~link
        /\ running \in BOOLEAN /\ modal \subseteq Overlays
    BY Zenon DEF IInv, Control, TypeOK
  <1>1. CASE PumpDone
    <2>1. /\ stage = "pump" /\ stage' = "body" /\ running' \in BOOLEAN /\ modal' = modal
          /\ UNCHANGED << mode, rematch, link, textureVars, padVars >>
      BY <1>1, Zenon DEF PumpDone
    <2> QED
      BY <1>0, <2>1, SilentInvariant, SMT DEF Session
  <1>2. CASE NetplayFrame
    <2>1. PICK redraw \in BOOLEAN : Present(redraw)
      BY <1>2, Zenon DEF NetplayFrame
    <2>2. /\ stage = "body" /\ stage' \in { "pump", "teardown" }
          /\ UNCHANGED << mode, running, rematch, link, modal, padVars >>
      BY <1>2, SMT DEF NetplayFrame, Again
    <2> QED
      BY <2>1, <2>2, PresentingInvariant, SMT DEF Session
  <1>3. CASE NetplayBreak
    <2>1. /\ stage = "body" /\ stage' = "teardown" /\ running' \in BOOLEAN /\ modal' = modal
          /\ UNCHANGED << mode, rematch, link, textureVars, padVars >>
      BY <1>3, Zenon DEF NetplayBreak
    <2> QED
      BY <1>0, <2>1, SilentInvariant, SMT DEF Session
  <1>4. CASE OpenRewind
    <2>1. /\ stage = "body" /\ stage' \in { "rewind", "late" } /\ ~link
          /\ running' = running /\ modal' \subseteq Overlays
          /\ UNCHANGED << mode, rematch, link, textureVars, padVars >>
      BY <1>4, SMT DEF OpenRewind, Overlays
    <2> QED
      BY <1>0, <2>1, SilentInvariant, SMT DEF Session
  <1>5. CASE OpenMenu
    <2>1. /\ stage \in { "body", "late" } /\ stage' \in { "menu", "pump", "teardown" }
          /\ ~link /\ running' = running /\ modal' \subseteq Overlays
          /\ UNCHANGED << mode, rematch, link, textureVars, padVars >>
      BY <1>0, <1>5, SMT DEF OpenMenu, Again, Overlays
    <2> QED
      BY <1>0, <2>1, SilentInvariant, SMT DEF Session
  <1>6. CASE ModalTurn
    <2>1. PICK redraw \in BOOLEAN : Present(redraw)
      BY <1>6, Zenon DEF ModalTurn
    <2>2. /\ stage \in { "rewind", "menu" } /\ stage' = stage
          /\ UNCHANGED << mode, running, rematch, link, modal, padVars >>
      BY <1>6, Zenon DEF ModalTurn, Overlays
    <2> QED
      BY <1>0, <2>1, <2>2, PresentingInvariant, SMT DEF Session
  <1>7. CASE CloseModal
    <2>1. /\ stage \in { "rewind", "menu" } /\ stage' \in { "late", "pump", "teardown" }
          /\ running' \in BOOLEAN /\ modal' \subseteq Overlays
          /\ UNCHANGED << mode, rematch, link, textureVars, padVars >>
      BY <1>0, <1>7, SMT DEF CloseModal, Overlays
    <2> QED
      BY <1>0, <2>1, SilentInvariant, SMT DEF Session
  <1>8. CASE OfflineFrame
    <2>1. PICK redraw \in BOOLEAN : Present(redraw)
      BY <1>8, Zenon DEF OfflineFrame
    <2>2. /\ stage \in { "body", "late" } /\ stage' \in { "pump", "teardown" }
          /\ UNCHANGED << mode, running, rematch, link, modal, padVars >>
      BY <1>8, Zenon DEF OfflineFrame, Again
    <2> QED
      BY <2>1, <2>2, PresentingInvariant, SMT DEF Session
  <1> QED
    BY <1>1, <1>2, <1>3, <1>4, <1>5, <1>6, <1>7, <1>8, Zenon DEF Frames

-----------------------------------------------------------------------------
(* From session to session. *)

LEMMA StartInvariant == IInv /\ StartSession => IInv'
  <1> SUFFICES ASSUME IInv, StartSession PROVE IInv'
    OBVIOUS
  <1>1. /\ TypeOK /\ stage = "launcher" /\ stage' = "pump" /\ Bare /\ NoRing /\ pads = NoPads
        /\ connected \subseteq Device /\ NoDevice \notin Device /\ win \in Windows
        /\ link' \in BOOLEAN /\ running' = TRUE /\ uploaded' = FALSE
        /\ UNCHANGED << mode, rematch, modal, connected >> /\ shown' = NoTexture /\ latest' = NoTexture
    BY HostDevicesAssumption, Zenon DEF IInv, TypeOK, Control, Seats, StartSession
  <1>2. PICK t \in Texture : win' = [ win EXCEPT !.caller = t ] /\ alive' = { t }
    BY Zenon DEF StartSession
  <1>3. win' \in Windows
    BY <1>1, <1>2, Zenon DEF Windows, Pointer
  <1>4. /\ win'.caller = t /\ win'.ring = win.ring
        /\ win'.overlay = win.overlay /\ win'.strip = win.strip
    BY <1>1, <1>2, SMT DEF Windows
  <1>5. pads' \in Opened(NoPads)
    BY <1>1, Zenon DEF StartSession
  <1>6. /\ pads' \in Pads /\ Fits(pads') /\ (pads'[1] = NoDevice => connected = {})
        /\ \A s \in Slot : pads'[s] = NoPads[s] \/ pads'[s] \in connected \union { NoDevice }
    BY <1>1, <1>5, OpenedResult, NoPadsFit
  <1>7. queue' \in Seq({ "added", "removed" }) /\ Len(queue') <= QueueMax
    <2>1. queue' \in { << >>, << "added" >> }
      BY Zenon DEF StartSession
    <2>2. QueueMax \in Nat \ { 0 }
      BY HostDevicesAssumption, Zenon
    <2>3. CASE queue' = << >>
      BY <2>2, <2>3, SMT
    <2>4. CASE queue' = << "added" >>
      BY <2>2, <2>4, SMT
    <2> QED
      BY <2>1, <2>3, <2>4
  <1>8. Seated'
    BY <1>1, <1>6, SMT DEF Seated, Fits, NoPads
  <1>9. Seats' /\ Control' /\ Pictures'
    BY <1>1, <1>2, <1>4, <1>8, SMT DEF Seats, Control, Bare, NoRing, Pictures, Drawable,
      Owned, Others, Upheld, Session
  <1>10. TypeOK'
    <2>1. alive' \subseteq Texture /\ stage' \in Stages
      BY <1>1, <1>2, SMT DEF Stages
    <2> QED
      BY <1>1, <1>3, <1>6, <1>7, <2>1, Zenon DEF TypeOK, Pads, Pointer
  <1> QED
    BY <1>9, <1>10, Zenon DEF IInv

LEMMA TeardownInvariant == IInv /\ Teardown => IInv'
  <1> SUFFICES ASSUME IInv, Teardown PROVE IInv'
    OBVIOUS
  <1>1. /\ TypeOK /\ stage = "teardown" /\ stage' \in { "exit", "launcher" }
        /\ stage' = "launcher" => link
        /\ link => Bare
        /\ (mode = "lock" => win.ring[0] = NoTexture) /\ rematch' = TRUE
        /\ win \in Windows /\ win' = Cleared(win) /\ alive' = {}
        /\ pads' = NoPads /\ queue' = << >> /\ uploaded' = FALSE
        /\ shown' = NoTexture /\ latest' = NoTexture
        /\ UNCHANGED << mode, running, link, modal, connected >>
    BY SMT DEF IInv, Control, Pictures, Drawable, Teardown, Session, TypeOK
  <1> DEFINE ring == [ i \in Ring |-> IF i = 0 THEN win.ring[0] ELSE NoTexture ]
  <1>2. ring \in Rings
    <2>1. win.ring \in Rings
      BY <1>1, Zenon DEF Windows, Rings
    <2> QED
      BY <2>1, SMT DEF Rings, Ring, Pointer
  <1>3. win' = [ win EXCEPT !.ring = ring, !.overlay = NoTexture ]
    BY <1>1, Zenon DEF Cleared
  <1>10. ring[0] = win.ring[0] /\ ring[1] = NoTexture /\ ring[2] = NoTexture
    BY SMT DEF Ring
  <1> HIDE DEF ring
  <1>4. win' \in Windows
    BY <1>1, <1>2, <1>3, Zenon DEF Windows, Rings, Pointer
  <1>5. win'.ring = ring /\ win'.overlay = NoTexture /\ win'.strip = win.strip
    BY <1>1, <1>3, SMT DEF Windows
  <1>6. queue' \in Seq({ "added", "removed" }) /\ Len(queue') <= QueueMax
    BY <1>1, HostDevicesAssumption, SMT
  <1>7. Seats' /\ Control' /\ Pictures'
    BY <1>1, <1>5, <1>10, SMT DEF Seats, Control, Bare, NoRing, Pictures, Session
  <1>8. pads' \in Pads
    BY <1>1, NoPadsFit
  <1>9. TypeOK'
    <2>1. alive' \subseteq Texture /\ stage' \in Stages
      BY <1>1, SMT DEF Stages
    <2> QED
      BY <1>1, <1>4, <1>6, <1>8, <2>1, Zenon DEF TypeOK, Pads, Pointer
  <1> QED
    BY <1>7, <1>9, Zenon DEF IInv

LEMMA IdleInvariant == IInv /\ (LeaveLauncher \/ UNCHANGED vars) => IInv'
  <1> SUFFICES ASSUME IInv, LeaveLauncher \/ UNCHANGED vars PROVE IInv'
    OBVIOUS
  <1>1. CASE LeaveLauncher
    <2>1. /\ stage' = "exit"
          /\ UNCHANGED << mode, running, rematch, link, modal, textureVars, padVars >>
      BY <1>1, Zenon DEF LeaveLauncher
    <2>2. TypeOK'
      BY <2>1, SMT DEF IInv, TypeOK, Stages, textureVars, padVars
    <2>3. Control' /\ Pictures' /\ Seats'
      BY <2>1, SMT DEF Control, Pictures, Seats, Session
    <2> QED
      BY <2>2, <2>3, Zenon DEF IInv
  <1>2. CASE UNCHANGED vars
    <2>1. TypeOK' /\ Control' /\ Pictures'
      BY <1>2, SMT DEF IInv, TypeOK, Control, Bare, NoRing, Pictures, Drawable, Owned,
        Others, Upheld, Standing, Current, vars
    <2>2. Seats'
      BY <1>2, SMT DEF IInv, Seats, Seated, Fits, Waiting, vars
    <2> QED
      BY <2>1, <2>2, Zenon DEF IInv
  <1> QED
    BY <1>1, <1>2

THEOREM InvariantHolds == Spec => []IInv
  <1>1. IInv /\ [Next]_vars => IInv'
    <2> SUFFICES ASSUME IInv, [Next]_vars PROVE IInv'
      OBVIOUS
    <2>1. CASE Devices
      BY <2>1, DevicesInvariant
    <2>2. CASE Frames
      BY <2>2, FramesInvariant
    <2>3. CASE StartSession
      BY <2>3, StartInvariant
    <2>4. CASE Teardown
      BY <2>4, TeardownInvariant
    <2>5. CASE LeaveLauncher \/ UNCHANGED vars
      BY <2>5, IdleInvariant
    <2> QED
      BY <2>1, <2>2, <2>3, <2>4, <2>5, Zenon DEF Next, Exited
  <1> QED
    BY InitInvariant, <1>1, PTL DEF Spec

-----------------------------------------------------------------------------
(* The pointers, seats and events of main.c keep their types. *)
THEOREM TypeCorrect == Spec => []TypeOK
  <1>1. IInv => TypeOK
    BY Zenon DEF IInv
  <1> QED
    BY InvariantHolds, <1>1, PTL

(* NoStaleTexture, for any textures, failures and number of sessions: overlays
   and the cleared slots of the ring are alive in every session and mode, main's
   texture, slot 0 and what is on the screen with one texture, and with the ring
   in the first session. *)
THEOREM NothingStale == Spec => []NoStaleTexture
  <1>1. IInv => NoStaleTexture
    BY SMT DEF IInv, Pictures, Drawable, Owned, Others, NoStaleTexture
  <1> QED
    BY InvariantHolds, <1>1, PTL

(* HeldShowsLatest: with one texture a held frame shows the last picture whatever
   failed since; with the ring it does if the last new frame was uploaded. *)
THEOREM HeldFramesHold == Spec => []HeldShowsLatest
  <1>1. IInv => HeldShowsLatest
    BY Zenon DEF IInv, Pictures, Upheld, Standing, HeldShowsLatest
  <1> QED
    BY InvariantHolds, <1>1, PTL

(* PadsFollowDevices: outside a match the seats follow the hardware. *)
THEOREM SeatsFollow == Spec => []PadsFollowDevices
  <1>1. IInv => PadsFollowDevices
    BY SMT DEF IInv, Seats, Seated, Fits, Waiting, PadsFollowDevices
  <1> QED
    BY InvariantHolds, <1>1, PTL

-----------------------------------------------------------------------------
(* The audio thread. *)

(* The block of the session that is under way. *)
OwnBlock == [session |-> sessions, samples |-> BlockSize]

(* What the audio thread may have touched last while it fills. *)
Served(a) ==
  \/ a = [kind |-> "lock", created |-> FALSE]
  \/ a = [kind |-> "mix", into |-> OwnBlock, samples |-> BlockSize]
  \/ a.kind = "copy" /\ a = [kind |-> "copy", from |-> OwnBlock, upto |-> a.upto] /\ a.upto \in 0..BlockSize

(* The device and the lock follow main's place in the session. *)
Attended ==
  /\ mainPc \in {"launcher", "open", "allocate", "unpause", "frames", "free"}
  /\ mainPc \in {"open", "allocate", "unpause", "frames"} => machine
  /\ mainPc \in {"allocate", "unpause"} => device = "paused"
  /\ mainPc \in {"launcher", "open", "free"} => device = "closed"
  /\ device = "playing" => mainPc = "frames"
  /\ mainPc \in {"allocate", "unpause"} => mutex = "free"
  /\ mutex \in {"none", "free", "main", "audio"}
  /\ device = "playing" => mutex # "none"

(* From unpausing to closing, the block and its cursors are this session's. *)
OwnedBlock ==
  mainPc = "unpause" \/ device = "playing" =>
    /\ block = OwnBlock
    /\ span = [of |-> OwnBlock, cur |-> span.cur, end |-> span.end]
    /\ span.cur \in Nat /\ span.end \in Nat
    /\ span.cur <= span.end /\ span.end <= BlockSize

(* A call in progress keeps the device open, and holds the lock as it fills. *)
Calls ==
  /\ callback \in {"idle", "waits", "fills"}
  /\ callback # "idle" => device = "playing"
  /\ callback = "fills" <=> mutex = "audio"
  /\ want \in Nat
  /\ callback = "fills" => Served(access)
  /\ callback # "fills" => access = NoAccess

(* The inductive invariant of the two threads. *)
AudioInv ==
  /\ sessions \in Nat /\ scratch \in Nat
  /\ format = [frames |-> format.frames, channels |-> format.channels]
  /\ format.frames \in Nat /\ format.channels \in Nat
  /\ Attended /\ OwnedBlock /\ Calls

LEMMA BlockSizeType == AudioInv => BlockSize \in Nat
  BY DEF AudioInv, BlockSize

LEMMA AudioStarts == AudioInit => AudioInv
  BY DEF AudioInit, AudioInv, Attended, OwnedBlock, Calls, NoAccess

LEMMA AudioServed == AudioInv => CallbackIsServed
  <1> SUFFICES ASSUME AudioInv PROVE CallbackIsServed
    OBVIOUS
  <1>1. CASE access = NoAccess
    BY <1>1 DEF CallbackIsServed, NoAccess
  <1>2. CASE callback = "fills"
    <2>1. Served(access) /\ machine
      BY <1>2 DEF AudioInv, Calls, Attended
    <2> QED BY <2>1, BlockSizeType DEF CallbackIsServed, Served, OwnBlock
  <1> QED BY <1>1, <1>2 DEF AudioInv, Calls

LEMMA AudioSteps == AudioInv /\ [AudioNext]_audioVars => AudioInv'
  <1> SUFFICES ASSUME AudioInv, [AudioNext]_audioVars PROVE AudioInv'
    OBVIOUS
  <1> USE AudioPumpAssumption
  <1>0. BlockSize \in Nat
    BY BlockSizeType
  <1>1. CASE BootMachine
    BY <1>1 DEF BootMachine, AudioInv, Attended, OwnedBlock, Calls, OwnBlock, BlockSize, Served, NoAccess
  <1>2. CASE OpenDevice
    BY <1>2 DEF OpenDevice, AudioInv, Attended, OwnedBlock, Calls, OwnBlock, BlockSize, Served, NoAccess
  <1>3. CASE AllocateBlock
    BY <1>3, <1>0 DEF AllocateBlock, NewBlock, AudioInv, Attended, OwnedBlock, Calls, OwnBlock, BlockSize, Served, NoAccess
  <1>4. CASE Unpause
    BY <1>4 DEF Unpause, AudioInv, Attended, OwnedBlock, Calls, OwnBlock, BlockSize, Served, NoAccess
  <1>5. CASE GuestFrame
    BY <1>5 DEF GuestFrame, AudioInv, Attended, OwnedBlock, Calls, OwnBlock, BlockSize, Served, NoAccess
  <1>6. CASE CloseDevice
    BY <1>6 DEF CloseDevice, AudioInv, Attended, OwnedBlock, Calls, OwnBlock, BlockSize, Served, NoAccess
  <1>7. CASE FreeMachine
    BY <1>7 DEF FreeMachine, AudioInv, Attended, OwnedBlock, Calls, OwnBlock, BlockSize, Served, NoAccess
  <1>8. CASE Call
    BY <1>8 DEF Call, AudioInv, Attended, OwnedBlock, Calls, OwnBlock, BlockSize, Served, NoAccess
  <1>9. CASE Lock
    BY <1>9 DEF Lock, AudioInv, Attended, OwnedBlock, Calls, OwnBlock, BlockSize, Served, NoAccess
  <1>10. CASE Mix
    BY <1>10, <1>0 DEF Mix, AudioInv, Attended, OwnedBlock, Calls, OwnBlock, BlockSize, Served, NoAccess
  <1>11. CASE Copy
    BY <1>11, <1>0 DEF Copy, AudioInv, Attended, OwnedBlock, Calls, OwnBlock, BlockSize, Served, NoAccess
  <1>12. CASE Unlock
    BY <1>12 DEF Unlock, AudioInv, Attended, OwnedBlock, Calls, OwnBlock, BlockSize, Served, NoAccess
  <1>13. CASE UNCHANGED audioVars
    BY <1>13 DEF audioVars, AudioInv, Attended, OwnedBlock, Calls, OwnBlock, BlockSize, Served, NoAccess
  <1> QED BY <1>1, <1>2, <1>3, <1>4, <1>5, <1>6, <1>7, <1>8, <1>9, <1>10, <1>11, <1>12, <1>13 DEF AudioNext

(* In every session and at every step of the main thread, the audio thread
   works on a live machine, under a lock that exists, and inside this session's
   block. *)
THEOREM CallbacksAreServed == AudioSpec => []CallbackIsServed
  BY AudioStarts, AudioSteps, AudioServed, PTL DEF AudioSpec
=============================================================================
