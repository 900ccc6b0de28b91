---------------------------- MODULE SessionHost ----------------------------
(***************************************************************************)
(* The process of main.c around one guest machine after another: launcher, *)
(* cold boot, plugin activation, the pinned frame width, the netplay       *)
(* session, the guest patch, the frame loop, teardown, and the soft return *)
(* that leads back to the launcher and into the next session.              *)
(*                                                                         *)
(* One step per statement of main() that changes what a later one reads.   *)
(* The launcher, the lobby and the netplay library are external: they are  *)
(* modelled by what main.c asks of them and reads back.                    *)
(***************************************************************************)
EXTENDS WsPatch

CONSTANT Environments
  (* What the process was started with, fixed for its life:
     override   SNESRECOMP_WS_EXTRA, -1 when unset
     killed     SNESRECOMP_WS_OAM=0 or a name in SNESRECOMP_WS_PATCH_DISABLE
     scripted   SNES_NETPLAY=1
     mods       the mod runtime was initialised (g_mods_ready)
     rom        what the ROM file has at the patch site *)

ASSUME EnvironmentsAssumption ==
  \A e \in Environments :
    e \in [ override : Peers, killed : BOOLEAN, scripted : BOOLEAN,
            mods : BOOLEAN, rom : Images \ { NoImage } ]

VARIABLES
  pc,            \* the stage main() is in
  env,           \* the member of Environments this process has
  patch,         \* the guest patch and its image, see WsPatch
  sel,           \* the Mods page selects widescreen
  wsEnabled,     \* s_widescreen_enabled
  netPin,        \* s_net_ws_extra
  wsExtra,       \* g_ws_extra
  pending,       \* g_netplay_pending
  fromLobby,     \* g_netplay_from_lobby
  caps,          \* g_netplay_caps_ws_extra
  active,        \* g_netplay_active_session
  returnToList,  \* g_netplay_return_to_list
  room,          \* external: the lobby seat, "none", "hosted" or "automatch"
  link,          \* external: a netplay session is started and not shut down
  returnReq,     \* external: snes_netplay_return_to_lobby_requested
  launch         \* history: what the launch of this session asked for

vars == << pc, env, patch, sel, wsEnabled, netPin, wsExtra, pending, fromLobby,
           caps, active, returnToList, room, link, returnReq, launch >>

Stages == { "opening", "launcher", "reset", "init", "activate", "pin",
            "connect", "arm", "open", "frames", "teardown", "after", "exit" }

Launches == [ net : BOOLEAN, caps : Peers ]
Offline  == [ net |-> FALSE, caps |-> NoPeer ]

Init ==
  /\ pc = "opening"
  /\ env \in Environments
  /\ patch = Unarmed(NoImage)
  /\ sel \in { FALSE, env.mods }     \* restored from state.toml
  /\ wsEnabled = FALSE
  /\ netPin = NoPeer
  /\ wsExtra = 0
  /\ pending = FALSE
  /\ fromLobby = FALSE
  /\ caps = NoPeer
  /\ active = FALSE
  /\ returnToList = FALSE
  /\ room = "none"
  /\ link = FALSE
  /\ returnReq = FALSE
  /\ launch = Offline

-----------------------------------------------------------------------------
(* The launcher. *)

(* Mutant: the landing page is read and not consumed. *)
OpenLauncher_NotConsumed ==
  /\ pc = "opening"
  /\ pc' = "launcher"
  /\ UNCHANGED << env, patch, sel, wsEnabled, netPin, wsExtra, pending,
                  fromLobby, caps, active, returnToList, room, link, returnReq,
                  launch >>

(* run_gui_launcher up to recomp_launcher_run_window: the landing page is
   consumed. *)
OpenLauncher ==
  /\ pc = "opening"
  /\ pc' = "launcher"
  /\ returnToList' = FALSE
  /\ UNCHANGED << env, patch, sel, wsEnabled, netPin, wsExtra, pending,
                  fromLobby, caps, active, room, link, returnReq, launch >>

(* External: the player toggles the package on the Mods page. *)
ToggleWidescreen ==
  /\ pc = "launcher" /\ env.mods
  /\ sel' = ~sel
  /\ UNCHANGED << pc, env, patch, wsEnabled, netPin, wsExtra, pending,
                  fromLobby, caps, active, returnToList, room, link, returnReq,
                  launch >>

(* External: the player takes or leaves a seat in a room. *)
ChangeRoom ==
  /\ pc = "launcher"
  /\ \/ room = "none" /\ room' \in { "hosted", "automatch" }
     \/ room # "none" /\ room' = "none"
  /\ UNCHANGED << pc, env, patch, sel, wsEnabled, netPin, wsExtra, pending,
                  fromLobby, caps, active, returnToList, link, returnReq,
                  launch >>

(* RECOMP_LAUNCHER_RESULT_LAUNCH with ls.netplay_launch.enabled: the lobby's
   launch result arms the session and carries the room's margin. *)
LaunchMatch ==
  /\ pc = "launcher" /\ room # "none"
  /\ \E peer \in Peers :
       /\ caps' = peer
       /\ launch' = [ net |-> TRUE, caps |-> peer ]
  /\ pending' = TRUE
  /\ fromLobby' = TRUE
  /\ pc' = "reset"
  /\ UNCHANGED << env, patch, sel, wsEnabled, netPin, wsExtra, active,
                  returnToList, room, link, returnReq >>

(* An ordinary launch, or UNAVAILABLE with a ROM resolved the text-mode way. *)
LaunchOffline ==
  /\ pc = "launcher"
  /\ launch' = Offline
  /\ pc' = "reset"
  /\ UNCHANGED << env, patch, sel, wsEnabled, netPin, wsExtra, pending,
                  fromLobby, caps, active, returnToList, room, link, returnReq >>

(* QUIT, RELAUNCH (the process hands over to another and leaves the room), or
   no ROM: the process ends.  Its lobby connection goes with it. *)
LeaveLauncher ==
  /\ pc = "launcher"
  /\ pc' = "exit"
  /\ room' = "none"
  /\ UNCHANGED << env, patch, sel, wsEnabled, netPin, wsExtra, pending,
                  fromLobby, caps, active, returnToList, link, returnReq, launch >>

-----------------------------------------------------------------------------
(* session_reboot. *)

(* snes_host_ensure_sdl, SnesInit, SDL_Init, the window, the renderer or the
   texture fails: main returns 1. *)
SetupFails ==
  /\ pc \in { "reset", "init", "open" }
  /\ pc' = "exit"
  /\ room' = "none"
  /\ UNCHANGED << env, patch, sel, wsEnabled, netPin, wsExtra, pending,
                  fromLobby, caps, active, returnToList, link, returnReq, launch >>

(* snes_host_session_reset, which runs GameSessionReset. *)
ResetSession ==
  /\ pc = "reset"
  /\ patch' = Disarmed(patch)
  /\ pc' = "init"
  /\ UNCHANGED << env, sel, wsEnabled, netPin, wsExtra, pending, fromLobby,
                  caps, active, returnToList, room, link, returnReq, launch >>

(* SnesInit: a fresh image, copied from the ROM buffer read at start. *)
InitMachine ==
  /\ pc = "init"
  /\ patch' = [ patch EXCEPT !.rom = env.rom ]
  /\ pc' = "activate"
  /\ UNCHANGED << env, sel, wsEnabled, netPin, wsExtra, pending, fromLobby,
                  caps, active, returnToList, room, link, returnReq, launch >>

(* snes_mod_runtime_activate_plugins_c: the reset callback of
   widescreen_mod.c, then its activation when the package is selected. *)
ActivatePlugins ==
  /\ pc = "activate"
  /\ IF env.mods
     THEN patch' = Disarmed(patch) /\ wsEnabled' = sel
     ELSE UNCHANGED << patch, wsEnabled >>
  /\ pc' = "pin"
  /\ UNCHANGED << env, sel, netPin, wsExtra, pending, fromLobby, caps, active,
                  returnToList, room, link, returnReq, launch >>

(* ClampEven, as a margin. *)
Clamp(extra) == IF extra > WsExtraMax THEN WsExtraMax ELSE extra

(* GwedDisplay_ComputeFrameWidth as a margin, for a window whose aspect would
   give `window` and the pin that SetNetplayWsExtra just left. *)
SessionMargin(wide, pin, window) ==
  CASE ~wide                             -> 0
    [] wide /\ env.override >= 0         -> Clamp(env.override)
    [] wide /\ env.override < 0 /\ pin >= 0 -> Clamp(pin)
    [] OTHER                             -> window

(* GwedDisplay_SetNetplayWsExtra and GwedDisplay_BeginSession. *)
PinMargin ==
  /\ pc = "pin"
  /\ netPin' = IF pending \/ active THEN caps ELSE NoPeer
  /\ \E window \in Margins : wsExtra' = SessionMargin(wsEnabled, netPin', window)
  /\ pc' = "connect"
  /\ UNCHANGED << env, patch, sel, wsEnabled, pending, fromLobby, caps, active,
                  returnToList, room, link, returnReq, launch >>

(* The netplay block: the scripted path arms a session of its own when the
   launcher did not, snes_netplay_start may fail, and the patch is told. *)
Connect ==
  /\ pc = "connect"
  /\ LET start == pending \/ env.scripted
     IN \E ok \in { FALSE, start } :
          /\ active' = ok
          /\ link' = (link \/ ok)
          /\ patch' = WithNetplay(patch, ok, caps)
  /\ fromLobby' = IF ~pending /\ env.scripted THEN FALSE ELSE fromLobby
  /\ pending' = FALSE
  /\ pc' = "arm"
  /\ UNCHANGED << env, sel, wsEnabled, netPin, wsExtra, caps, returnToList,
                  room, returnReq, launch >>

(* GwedWsPatch_Arm(g_ws_extra); g_ws_active is g_ws_extra # 0. *)
ArmPatch ==
  /\ pc = "arm"
  /\ patch' = Armed(patch, wsExtra, wsExtra # 0, env.killed)
  /\ pc' = "open"
  /\ UNCHANGED << env, sel, wsEnabled, netPin, wsExtra, pending, fromLobby,
                  caps, active, returnToList, room, link, returnReq, launch >>

(* SDL_Init, the window, renderer, texture and audio device. *)
OpenVideo ==
  /\ pc = "open"
  /\ pc' = "frames"
  /\ UNCHANGED << env, patch, sel, wsEnabled, netPin, wsExtra, pending,
                  fromLobby, caps, active, returnToList, room, link, returnReq,
                  launch >>

-----------------------------------------------------------------------------
(* The frame loop and what follows it. *)

(* External: the peer left, or the admit barrier asks for the waiting room. *)
PeerLeaves ==
  /\ pc = "frames" /\ link
  /\ returnReq' = TRUE
  /\ UNCHANGED << pc, env, patch, sel, wsEnabled, netPin, wsExtra, pending,
                  fromLobby, caps, active, returnToList, room, link, launch >>

LeaveFrames ==
  /\ pc = "frames"
  /\ pc' = "teardown"
  /\ UNCHANGED << env, patch, sel, wsEnabled, netPin, wsExtra, pending,
                  fromLobby, caps, active, returnToList, room, link, launch >>

(* Mutant: only a hosted room is polled. *)
SeesReturnRequest_HostedOnly ==
  link /\ room = "hosted" /\ returnReq /\ LeaveFrames /\ UNCHANGED returnReq

(* The netplay branch sees the request after a barrier. *)
SeesReturnRequest == link /\ returnReq /\ LeaveFrames /\ UNCHANGED returnReq

(* SDL_QUIT or Escape: in a lobby match snes_netplay_soft_exit_to_lobby asks
   for the return. *)
UserCloses ==
  /\ LeaveFrames
  /\ returnReq' = (returnReq \/ (link /\ fromLobby))

(* --exit-at-frame. *)
ExitAtFrame == LeaveFrames /\ UNCHANGED returnReq

(* Mutant: the machine is not freed. *)
Teardown_KeepsMachine ==
  /\ pc = "teardown"
  /\ pc' = "after"
  /\ UNCHANGED << env, patch, sel, wsEnabled, netPin, wsExtra, pending,
                  fromLobby, caps, active, returnToList, room, link, returnReq,
                  launch >>

(* Textures, window and audio go, and snes_free takes the image with it. *)
Teardown ==
  /\ pc = "teardown"
  /\ patch' = [ patch EXCEPT !.rom = NoImage ]
  /\ pc' = "after"
  /\ UNCHANGED << env, sel, wsEnabled, netPin, wsExtra, pending, fromLobby,
                  caps, active, returnToList, room, link, returnReq, launch >>

(* The soft return: the session is shut down and the request answered before
   the branch on whose room it was. *)
SoftReturn ==
  /\ pc = "after" /\ returnReq /\ fromLobby
  /\ link' = FALSE
  /\ returnReq' = FALSE
  /\ IF room = "automatch"
     THEN room' = "none" /\ returnToList' = TRUE
     ELSE UNCHANGED << room, returnToList >>
  /\ fromLobby' = FALSE
  /\ pending' = FALSE
  /\ pc' = "opening"
  /\ UNCHANGED << env, patch, sel, wsEnabled, netPin, wsExtra, caps, active,
                  launch >>

(* Anything else ends the process, and its connections with it. *)
Finish ==
  /\ pc = "after" /\ ~(returnReq /\ fromLobby)
  /\ pc' = "exit"
  /\ room' = "none"
  /\ UNCHANGED << env, patch, sel, wsEnabled, netPin, wsExtra, pending,
                  fromLobby, caps, active, returnToList, link, returnReq, launch >>

Exited == pc = "exit" /\ UNCHANGED vars

-----------------------------------------------------------------------------
Player  == ToggleWidescreen \/ ChangeRoom \/ LaunchMatch \/ LaunchOffline
             \/ LeaveLauncher
Setup   == ResetSession \/ InitMachine \/ ActivatePlugins \/ PinMargin
             \/ Connect \/ ArmPatch \/ OpenVideo
Playing == PeerLeaves \/ UserCloses \/ ExitAtFrame
Process == OpenLauncher \/ Setup \/ SetupFails \/ SeesReturnRequest
             \/ Teardown \/ SoftReturn \/ Finish

Next == Player \/ Playing \/ Process \/ Exited

(* main() is one thread that never waits for the player or a peer outside the
   launcher and the frame loop. *)
Spec == Init /\ [][Next]_vars /\ WF_vars(Process)
-----------------------------------------------------------------------------
AfterPin  == { "connect", "arm", "open", "frames", "teardown" }
AfterArm  == { "open", "frames", "teardown" }
Booting   == { "activate", "pin", "connect", "arm" }
Patched   == patch.rom > 0

TypeOK ==
  /\ pc \in Stages
  /\ env \in Environments
  /\ patch \in Patches
  /\ netPin \in Peers /\ caps \in Peers /\ wsExtra \in Margins
  /\ sel \in BOOLEAN /\ wsEnabled \in BOOLEAN /\ pending \in BOOLEAN
  /\ fromLobby \in BOOLEAN /\ active \in BOOLEAN /\ returnToList \in BOOLEAN
  /\ link \in BOOLEAN /\ returnReq \in BOOLEAN
  /\ room \in { "none", "hosted", "automatch" }
  /\ launch \in Launches

(* P16 across sessions: guest code differs from the ROM only while a wide
   session plays, and then by exactly the margin its frame was pinned to,
   whatever the previous session ran at (main.c:3442-3461). *)
PatchedOnlyWide ==
  Patched => /\ pc \in AfterArm \union { "exit" }
             /\ wsEnabled
             /\ patch.rom = wsExtra
             /\ env.rom = Vanilla /\ ~env.killed

(* In a match from the lobby the patch runs only at the margin that this
   match's launch result carried, never at one left by an earlier match
   (gwed_ws_patch.c:240-272, main.c:3439). *)
PatchAgreedWithThisMatch ==
  link /\ launch.net /\ Patched => launch.caps = patch.rom

(* While a session plays, IsArmed and the site flag tell the truth about the
   image that is running: neither survives the machine it was written to. *)
BooksMatchImage ==
  pc \in AfterArm => /\ patch.armed <=> Patched
                     /\ patch.applied <=> Patched
                     /\ Patched => patch.written = patch.rom

(* Every session reaches Arm with a clean slate.  Arm on stale books would
   either do nothing ("already applied") or disarm first, which forgets the
   session's agreement. *)
ArmsFromCleanSlate ==
  pc \in Booting => ~patch.armed /\ ~patch.applied /\ ~Patched

(* snes_netplay_start is never called over a session that was not shut down,
   and a session without a launch or script behind it never has a peer. *)
OneLinkAtATime ==
  /\ pc \in { "opening", "launcher", "reset", "init", "activate", "pin", "connect" }
       => ~link
  /\ link => launch.net \/ env.scripted

(* main.c:4160: an answered return request is not latched across the reboot,
   where the next session would break out of its own frame loop. *)
NoLatchedReturn ==
  returnReq => pc \in { "frames", "teardown", "after", "exit" }

(* main.c:4169: an automatch seat is given up before the launcher reopens, and
   exactly then does it open on the list. *)
SeatMatchesLanding ==
  /\ pc = "opening" => room # "automatch" /\ (returnToList => room = "none")
  /\ pc \notin { "opening", "exit" } => ~returnToList

(* A launch whose peer asked for the return, or that the player closed, gets
   back to the launcher although the process could end in the same stages. *)
MatchReturns ==
  (pc = "frames" /\ returnReq /\ fromLobby) ~> (pc = "launcher")

(* gwed_display.c:327: "-1 clears the pin (offline, or a session that
   negotiated nothing)".  Violated: a session played offline after a match
   keeps the margin that match negotiated. *)
OfflineClearsPin == pc \in AfterPin /\ ~launch.net => netPin = NoPeer

-----------------------------------------------------------------------------
(* The abstract machine this process implements. *)

NoMatch == -2

Machine ==
  CASE pc = "exit" \/ patch.rom = NoImage      -> "off"
    [] pc \in AfterArm /\ patch.rom # NoImage  -> "running"
    [] OTHER                                   -> "booting"

GuestClip   == IF Machine = "running" /\ Patched THEN patch.rom ELSE 0
GuestMargin == IF Machine = "running" THEN wsExtra ELSE 0
GuestPeer   == IF Machine = "running" /\ link /\ launch.net THEN launch.caps
                                                           ELSE NoMatch

Guest == INSTANCE GuestImage WITH
  MaxMargin <- WsExtraMax, machine <- Machine, clip <- GuestClip,
  margin <- GuestMargin, peer <- GuestPeer

(* Over any number of sessions the process only ever boots, decides the clip
   once and powers off: every step of main.c maps to a step of GuestImage. *)
ImplementsGuestImage == Guest!Spec
=============================================================================
