---------------------------- MODULE HostDevices ----------------------------
(***************************************************************************)
(* What main.c holds from SDL while sessions come and go: the textures the *)
(* picture goes through and the gamepads.  Both are pointers in statics    *)
(* that outlive the renderer and the devices they came from, and both are  *)
(* touched from three event pumps: the frame loop's, the modal loops' and  *)
(* the netplay barrier's.                                                  *)
(*                                                                         *)
(* SDL, the netplay library, and the rewind and save-state overlays are    *)
(* external.  Opening a gamepad that SDL lists succeeds, and a link that   *)
(* is up stays up until the session ends.                                  *)
(***************************************************************************)
EXTENDS Integers, Sequences, FiniteSets

CONSTANTS
  Texture,     \* the addresses SDL_CreateTexture may return
  NoTexture,   \* NULL
  Device,      \* the gamepads
  NoDevice,    \* an empty slot
  Modes,       \* the values of GWED_UPLOAD_MODE: "lock" and "rotate"
  QueueMax     \* bound: events waiting at a time

ASSUME HostDevicesAssumption ==
  /\ NoTexture \notin Texture
  /\ NoDevice \notin Device
  /\ Modes \subseteq { "lock", "rotate" }
  /\ QueueMax \in Nat \ { 0 }

VARIABLES
  mode,       \* g_upload_mode
  stage,      \* where main() is
  running,    \* main's local
  rematch,    \* ghost: main() has come back to session_reboot
  link,       \* snes_netplay_active()
  modal,      \* external: the overlays that are open
  alive,      \* external: the textures of the present renderer
  win,        \* the texture pointers of main.c
  shown,      \* the texture the last present of this session put up
  latest,     \* the texture the last picture was uploaded to
  uploaded,   \* the last new picture is in a texture of the present renderer
  connected,  \* external: the gamepads SDL lists
  pads,       \* g_pads
  queue       \* external: SDL's device events that nobody has polled

textureVars == << alive, win, shown, latest, uploaded >>
padVars     == << connected, pads, queue >>
vars == << mode, stage, running, rematch, link, modal, alive, win, shown, latest,
           uploaded, connected, pads, queue >>

Stages  == { "launcher", "pump", "body", "rewind", "late", "menu", "teardown",
             "exit" }
Session == { "pump", "body", "rewind", "late", "menu", "teardown" }
Overlays == { "rewind", "menu" }

(* GAME_TEX_RING and GAME_MAX_PADS. *)
Ring == 0 .. 2
Slot == 1 .. 2

Pointer == Texture \union { NoTexture }

(* win: main's texture, g_tex_ring and its index, g_overlay_tex and
   g_rewind_tex. *)
Windows == [ caller : Pointer, ring : [ Ring -> Pointer ], idx : Ring,
             overlay : Pointer, strip : Pointer ]

NoPads == [ s \in Slot |-> NoDevice ]

Init ==
  /\ mode \in Modes
  /\ stage = "launcher"
  /\ running = TRUE /\ rematch = FALSE
  /\ link = FALSE
  /\ modal = {}
  /\ alive = {}
  /\ win = [ caller |-> NoTexture, ring |-> [ i \in Ring |-> NoTexture ],
             idx |-> 0, overlay |-> NoTexture, strip |-> NoTexture ]
  /\ shown = NoTexture /\ latest = NoTexture /\ uploaded = FALSE
  /\ connected \in SUBSET Device
  /\ pads = NoPads
  /\ queue = << >>

-----------------------------------------------------------------------------
(* Gamepads. *)

(* game_open_pads: the scan looks at one slot at a time and leaves it only
   when it has filled it, so nothing is opened while the first is taken. *)
Opened(slots) ==
  LET second(d) == IF slots[2] # NoDevice THEN { slots[2] }
                   ELSE IF connected = { d } THEN { NoDevice } ELSE connected \ { d }
  IN IF slots[1] # NoDevice \/ connected = {} THEN { slots }
     ELSE UNION { { [ slots EXCEPT ![1] = d, ![2] = e ] : e \in second(d) } :
                    d \in connected }

(* External: a gamepad comes or goes, and SDL queues the event while the
   program is in a session.  The launcher polls its own. *)
Tell(kind) ==
  IF stage \in Session
  THEN Len(queue) < QueueMax /\ queue' = Append(queue, kind)
  ELSE UNCHANGED queue

Plug(d) ==
  /\ d \notin connected /\ stage # "exit"
  /\ connected' = connected \union { d }
  /\ Tell("added")
  /\ UNCHANGED << mode, stage, running, rematch, link, modal, textureVars, pads >>

Unplug(d) ==
  /\ d \in connected /\ stage # "exit"
  /\ connected' = connected \ { d }
  /\ Tell("removed")
  /\ UNCHANGED << mode, stage, running, rematch, link, modal, textureVars, pads >>

(* Mutant: a pad that goes away is not closed. *)
Handled_NotClosed(kind) == Opened(pads)

(* SDL_CONTROLLERDEVICEADDED, and REMOVED with game_close_pads first. *)
Handled(kind) == IF kind = "added" THEN Opened(pads) ELSE Opened(NoPads)

(* The loop over SDL_PollEvent, in the frame loop and in the modal loops. *)
HandleEvent ==
  /\ stage \in { "pump", "rewind", "menu" } /\ queue # << >>
  /\ pads' \in Handled(Head(queue))
  /\ queue' = Tail(queue)
  /\ UNCHANGED << mode, stage, running, rematch, link, modal, textureVars, connected >>

(* netplay_poll_events: the barrier's pump looks for quit and Escape and
   drops everything else. *)
BarrierDropsEvents ==
  /\ stage = "body" /\ link /\ queue # << >>
  /\ queue' = << >>
  /\ UNCHANGED << mode, stage, running, rematch, link, modal, textureVars, connected,
                  pads >>

-----------------------------------------------------------------------------
(* Textures. *)

Created(live) == { << t, live \union { t } >> : t \in Texture \ live }
Failed(live)  == { << NoTexture, live >> }

(* game_ensure_texture.  The size of a texture of this renderer is right, the
   width is pinned for the session.  A pointer into a destroyed renderer may
   still answer, or is replaced. *)
Ensured(t, live) ==
  IF t \in live \union { NoTexture } THEN { << t, live >> }
  ELSE { << t, live >> } \union Created(live) \union Failed(live)

(* A step of the upload: the pointers, the live textures, and the texture. *)
Fetch(w, result) == [ win |-> w, alive |-> result[2], texture |-> result[1] ]

(* The default, one texture. *)
Locked ==
  { Fetch([ win EXCEPT !.caller = e[1] ], e) : e \in Ensured(win.caller, alive) }

(* Mutant: a held frame advances the ring. *)
Turned_Always(redraw) == (win.idx + 1) % 3

Turned(redraw) == IF redraw THEN (win.idx + 1) % 3 ELSE win.idx

(* GWED_UPLOAD_MODE=rotate: slot 0 is seeded once, the others are created when
   the ring first gets there, and a failure stays on slot 0. *)
Rotated(redraw) ==
  LET first == IF win.ring[0] = NoTexture THEN win.caller ELSE win.ring[0]
      next  == Turned(redraw)
      ring  == [ win.ring EXCEPT ![0] = first ]
      grown == IF ring[next] # NoTexture \/ first = NoTexture
               THEN { << ring[next], alive >> }
               ELSE Created(alive) \union Failed(alive)
      slot(g) == IF g[1] = NoTexture THEN 0 ELSE next
      from(g) == IF slot(g) = 0 THEN first ELSE g[1]
  IN UNION { { Fetch([ win EXCEPT
                 !.ring = [ ring EXCEPT ![slot(g)] = e[1] ], !.idx = slot(g),
                 !.caller = IF slot(g) = 0 THEN e[1] ELSE @ ], e) :
               e \in Ensured(from(g), g[2]) } : g \in grown }

Fetched(redraw) == IF mode = "rotate" THEN Rotated(redraw) ELSE Locked

(* The texture a held frame puts up: the ring does not turn for it. *)
Current(w) == IF mode = "rotate" THEN w.ring[w.idx] ELSE w.caller

(* game_draw_overlay and game_draw_rewind: created when first drawn. *)
Chrome(open, t, live) ==
  IF open /\ t = NoTexture THEN Created(live) \union Failed(live)
                           ELSE { << t, live >> }

(* game_present: without a texture nothing is drawn.  A texture that cannot be
   locked keeps what it held. *)
Present(redraw) ==
  \E f \in Fetched(redraw) :
    \/ /\ f.texture = NoTexture
       /\ win' = f.win /\ alive' = f.alive
       /\ uploaded' = (uploaded /\ ~redraw)
       /\ UNCHANGED << shown, latest >>
    \/ /\ f.texture # NoTexture
       /\ \E ok \in BOOLEAN :
            LET held == ok /\ f.texture \in f.alive
            IN /\ uploaded' = IF redraw THEN held ELSE uploaded
               /\ latest' = IF redraw /\ held THEN f.texture ELSE latest
       /\ shown' = f.texture
       /\ \E o \in Chrome("menu" \in modal, f.win.overlay, f.alive) :
            \E s \in Chrome("rewind" \in modal, f.win.strip, o[2]) :
              /\ win' = [ f.win EXCEPT !.overlay = o[1], !.strip = s[1] ]
              /\ alive' = s[2]

-----------------------------------------------------------------------------
(* The loop. *)

(* session_reboot as far as SDL is concerned.  SDL announces the gamepads it
   found with events that are still in the queue when they are open. *)
StartSession ==
  /\ stage = "launcher"
  /\ link' \in BOOLEAN
  /\ \E t \in Texture : win' = [ win EXCEPT !.caller = t ] /\ alive' = { t }
  /\ shown' = NoTexture /\ latest' = NoTexture /\ uploaded' = FALSE
  /\ pads' \in Opened(pads)
  /\ queue' = IF connected = {} THEN << >> ELSE << "added" >>
  /\ running' = TRUE
  /\ stage' = "pump"
  /\ UNCHANGED << mode, rematch, modal, connected >>

(* The player quits, or the window, the renderer or the texture fails. *)
LeaveLauncher ==
  /\ stage = "launcher"
  /\ stage' = "exit"
  /\ UNCHANGED << mode, running, rematch, link, modal, textureVars, padVars >>

(* Nothing is left to poll; a quit among it does not skip the body. *)
PumpDone ==
  /\ stage = "pump" /\ queue = << >>
  /\ running' \in BOOLEAN
  /\ stage' = "body"
  /\ UNCHANGED << mode, rematch, link, modal, textureVars, padVars >>

Again == IF running THEN "pump" ELSE "teardown"

(* The netplay branch: an admitted frame, a held one, or the way out. *)
NetplayFrame ==
  /\ stage = "body" /\ link
  /\ \E redraw \in BOOLEAN : Present(redraw)
  /\ stage' = Again
  /\ UNCHANGED << mode, running, rematch, link, modal, padVars >>

NetplayBreak ==
  /\ stage = "body" /\ link
  /\ running' = FALSE
  /\ stage' = "teardown"
  /\ UNCHANGED << mode, rematch, link, modal, textureVars, padVars >>

OpenRewind ==
  /\ stage = "body" /\ ~link /\ modal = {}
  /\ modal' = { "rewind" }
  /\ stage' = IF running THEN "rewind" ELSE "late"
  /\ UNCHANGED << mode, running, rematch, link, textureVars, padVars >>

(* The menu's loop is skipped when the program is to end, and so is the frame. *)
OpenMenu ==
  /\ stage \in { "body", "late" } /\ ~link
  /\ modal' = modal \union { "menu" }
  /\ stage' = IF running THEN "menu" ELSE Again
  /\ UNCHANGED << mode, running, rematch, link, textureVars, padVars >>

(* A turn of a modal loop: the guest is frozen and the held frame is shown. *)
ModalTurn ==
  /\ stage \in Overlays
  /\ Present(FALSE)
  /\ UNCHANGED << mode, stage, running, rematch, link, modal, padVars >>

(* Closed by the player, or by SDL_QUIT. *)
CloseModal ==
  /\ stage \in Overlays
  /\ running' \in BOOLEAN
  /\ modal' = modal \ { stage }
  /\ stage' = IF stage = "rewind" THEN "late" ELSE IF running' THEN "pump" ELSE "teardown"
  /\ UNCHANGED << mode, rematch, link, textureVars, padVars >>

OfflineFrame ==
  /\ stage \in { "body", "late" } /\ ~link
  /\ Present(TRUE)
  /\ stage' = Again
  /\ UNCHANGED << mode, running, rematch, link, modal, padVars >>

(* The pointers that teardown clears.  Ring slot 0 "is the caller's". *)
Cleared(w) ==
  [ w EXCEPT !.ring = [ i \in Ring |-> IF i = 0 THEN w.ring[0] ELSE NoTexture ],
             !.overlay = NoTexture ]

(* Mutant: the launcher reopens after every session. *)
Teardown_AlwaysReturns ==
  /\ stage = "teardown"
  /\ pads' = NoPads /\ queue' = << >> /\ win' = Cleared(win) /\ alive' = {}
  /\ shown' = NoTexture /\ latest' = NoTexture /\ uploaded' = FALSE
  /\ stage' \in { "exit", "launcher" } /\ rematch' = TRUE
  /\ UNCHANGED << mode, running, link, modal, connected >>

(* game_close_pads, the textures, SDL_DestroyRenderer.  Only a match leads
   back to the launcher. *)
Teardown ==
  /\ stage = "teardown"
  /\ pads' = NoPads
  /\ queue' = << >>
  /\ win' = Cleared(win)
  /\ alive' = {}
  /\ shown' = NoTexture /\ latest' = NoTexture /\ uploaded' = FALSE
  /\ stage' \in { "exit" } \union { s \in { "launcher" } : link }
  /\ rematch' = TRUE
  /\ UNCHANGED << mode, running, link, modal, connected >>

Exited == stage = "exit" /\ UNCHANGED vars

Devices == (\E d \in Device : Plug(d) \/ Unplug(d)) \/ HandleEvent
             \/ BarrierDropsEvents
Frames  == PumpDone \/ NetplayFrame \/ NetplayBreak \/ OpenRewind \/ OpenMenu
             \/ ModalTurn \/ CloseModal \/ OfflineFrame

Next == Devices \/ Frames \/ StartSession \/ LeaveLauncher \/ Teardown \/ Exited

Spec == Init /\ [][Next]_vars

-----------------------------------------------------------------------------
TypeOK ==
  /\ mode \in Modes
  /\ stage \in Stages
  /\ running \in BOOLEAN /\ rematch \in BOOLEAN
  /\ link \in BOOLEAN /\ uploaded \in BOOLEAN
  /\ modal \subseteq Overlays
  /\ alive \subseteq Texture
  /\ win \in Windows
  /\ shown \in Pointer /\ latest \in Pointer
  /\ connected \subseteq Device
  /\ pads \in [ Slot -> Device \union { NoDevice } ]
  /\ queue \in Seq({ "added", "removed" }) /\ Len(queue) <= QueueMax

(* No session draws with a texture of a renderer that is gone: neither with its
   overlays, which a match does not open (teardown never clears g_rewind_tex),
   nor with the slots of the ring that teardown does clear, nor, with one
   texture or before any soft return, with main's own and slot 0.  In rotate
   mode slot 0 comes out of the session before: that case is
   SlotZeroIsCallers. *)
NoStaleTexture ==
  stage \in Session =>
    /\ { win.overlay, win.strip, win.ring[1], win.ring[2] }
         \subseteq alive \union { NoTexture }
    /\ mode = "lock" \/ ~rematch =>
         { win.caller, win.ring[0], shown } \subseteq alive \union { NoTexture }

(* main.c:2680: "A held frame must re-present the slot that actually holds
   the last picture".  With one texture that is so after any failure; with the
   ring, as long as the last new frame got into its slot.  The frame that did
   not is HeldFrameIsLastPicture. *)
HeldShowsLatest ==
  stage \in Session /\ latest # NoTexture /\ (mode = "lock" \/ uploaded)
    => shown = latest /\ Current(win) = latest

(* main.c:2674: "Slot 0 IS the caller's texture, so ownership and teardown are
   unchanged".  Violated: teardown clears the ring from slot 1 on, the seed at
   main.c:2683 is for an empty slot only, and so the session after a match
   keeps the slot 0 of the renderer that was destroyed. *)
SlotZeroIsCallers ==
  stage \in Session /\ mode = "rotate" /\ shown # NoTexture
    => win.ring[0] = win.caller

(* main.c:2680: "A held frame must re-present the slot that actually holds the
   last picture; advancing would show whatever is three frames stale".
   Violated: the ring has advanced for a new frame before its texture turns out
   not to be lockable, and an overlay that opens then holds that slot. *)
HeldFrameIsLastPicture ==
  stage \in Overlays /\ latest # NoTexture => Current(win) = latest

(* In a session without a match the seats follow the hardware: a handle whose
   gamepad is gone is about to be closed, a first gamepad is in use or about
   to be, and no gamepad drives both seats. *)
PadsFollowDevices ==
  stage \in Session /\ ~link =>
    /\ (\E s \in Slot : pads[s] \notin connected \union { NoDevice })
         => \E i \in DOMAIN queue : queue[i] = "removed"
    /\ (pads[1] = NoDevice /\ connected # {}) => queue # << >>
    /\ pads[1] = pads[2] => pads[1] = NoDevice

(* main.c:3860: "a pad connected after launch must still work".  Violated:
   with one gamepad in use, a second one is never opened, though every event
   has been handled and a seat is free. *)
LatePadWorks ==
  stage = "body" /\ ~link /\ queue = << >> /\ (\E s \in Slot : pads[s] = NoDevice)
    => connected \subseteq { pads[1], pads[2] }
=============================================================================
