# Gundam Wing Endless Duel recomp: specifications, model checking, proofs

This directory holds TLA+ modules for the host program of the recompilation
(`src/*.c`) and for the tools that build and judge it: the generators of the
localization table and the widescreen gates and reconnaissance in `scripts/`,
and the state hunts in `tools/validation_states/`. The game itself is code
generated from the player's ROM. The engine it runs on (`snesrecomp`, with its
launcher, lobby client and netplay library) is a submodule that is not in this
repository. Both are modelled only as far as the code here uses them.
Paths are relative to the repository, with `src/` and `scripts/` its own
directories.

    tlc -workers 2 -config MCSessionHost.cfg MCSessionHost    # one run
    tlapm SessionHost_proofs.tla                              # one proof module

`PROJECT.json` lists the components, the runs, the mutants each property is
tested with, the source lines behind every definition, the hazards, the
findings and the theorems.

## 1. The system

The program is one process. Its main thread goes through `main()` (`main.c`):

    start -> launcher -> session set-up -> frame loop -> teardown
                ^                                           |
                +---------------- soft return --------------+---> exit

There is no other long-lived thread except SDL's audio callback. What makes it
hard is not parallelism. One process lives through several guest machines, and a
machine through several timelines (save states, rewind, rollback, run-ahead),
while the host keeps its state in file-scope statics that nothing resets by
itself. In netplay a second process takes the same decisions from other inputs,
and the two must agree without asking each other.

| component | state it keeps | operations | interacts with |
|---|---|---|---|
| guest sprite patch, `gwed_ws_patch.c` | `s_armed`, `s_armed_extra`, `s_net_active`, `s_net_peer_ws_extra`, per site `applied` and the bytes written; the cartridge image itself | `Arm`, `Disarm`, `SetNetplaySession`, `IsArmed` | called by the session host, by the session reset in `game_rtl.c` and by the widescreen plugin; writes code the guest runs |
| sprite clip encoding, `emit_oam_x_clip` and `scripts/widescreen/verify_oam_patch.py` | none: bytes from a margin | emit | executed by the guest; its result is decoded by the PPU |
| session host, `main.c` 3173-4205 | `g_netplay_pending`, `g_netplay_from_lobby`, `g_netplay_caps_ws_extra`, `g_netplay_active_session`, `g_netplay_return_to_list`, locals of `main` | launcher, set-up, frame loop, teardown, soft return | everything |
| peers of a match, `GwedFillMatchCaps`, `gwed_publish_identity`, `netplay_allows` | one copy of the host's state per process, and the room's published capabilities | publish, launch, set up, meet, return | lobby server and netplay library (external) |
| frame execution and snapshots, `game_rtl.c` | `g_resume_pc`, `g_last_good_resume_pc`, `g_booted`, the scanout latch `s_scanout_*`, counters | `GameRunOneFrame`, `GameDrawPpuFrame`, the save/load/loaded hooks, `GameSessionReset` | the engine's interpreter and PPU; the snapshot writer |
| display policy, `gwed_display.c` | `s_widescreen_enabled`, `s_net_ws_extra`, `g_ws_extra`, per-frame screen and HUD state | frame width, session start, screen classification, side-space and HUD policy, per-frame begin and end | reads guest RAM and the PPU |
| widescreen plugin, `widescreen_mod.c` | none of its own | `Reset`, activation | mod runtime (external), display policy, guest patch |
| presentation, `main.c` 900-1220, 2363-3080 | texture ring and index, overlay and rewind textures, frame blend, pacing deadline | upload, present, overlays, pace | SDL |
| audio, `main.c` 650-855 | device, mix block and its cursors | open, fill (on SDL's thread), teardown | engine's DSP under the APU lock |
| pads and keyboard, `main.c` 855-1460, 1650-1925 | `g_pads[]`, maps, gesture and turbo state | open, close, hotplug, read | SDL, netplay capture |
| launcher and mod sets, `main.c` 200-620, 2034-2362 | lobby seat, mod runtime flag | fill capabilities, compare and describe mod sets, launch | lobby (external) |
| configuration, `main.c` 990-1120 | none: the ini file | read and write keys | disk |
| diagnostics, `diagnostics_mod.c` | counters, rings, hash chain | sample, dump | reads everything |
| flash guard and translation plugins | their package selection | register, activate, reset | mod runtime, engine's renderer |
| code generation glue, `codegen_setup.c`, `gen_stubs.c`, `host_contract.c` | none | tables, stubs, capability answers | engine |
| localization generators, `scripts/generate_*.py`, `reconstruct_table_image.py` | the `[[rom_patch]]` table, authored text, reference carts, captured art | encode text, write a section, replay the table, check it | `translations/`; the engine replays the table when the language changes, and lays glyph pages when a guard matches |
| localization audits and previews | none | reports and pictures | the same data |
| widescreen gates, `p16_gate.py`, `ws_metrics.py`, `ws_verdicts.py` | captured frames, a report, an exit code | launch, capture, classify, compare, judge | two executables and their debug servers |
| reconnaissance tools, `scripts/widescreen/recon_*.py`, `ws_recon.py` | result files, layer pictures, banked scene states | one stage after another, alone or in an "all" run | the debug server; their results are what the display policy's constants come from |
| validation state tools, `tools/validation_states/` | a socket, two rolling state files | hunt for a state, save it, bank it | debug server |
| build and release, data | none | - | - |

### What is hard, and what has to hold

*Guest sprite patch.* It changes 13 bytes of code the guest runs. The image
under it is freed and reloaded by others, another mod may have written there,
and every call must leave a state from which the patch can be undone. It must
never touch bytes it does not recognise, never leave its own bytes behind
unknown, and never report a state that is not the image's.

*Sprite clip encoding.* The widened comparison works on 16 unsigned bits that
wrap on both sides. The carry the last compare leaves becomes the ninth bit of
the stored X several instructions later. The PPU turns those nine bits into a
coordinate with a bound that depends on the margin again. Three pieces of code
in three places must use the same interval.

*Session host.* The statics survive the soft return, so every session starts
from whatever the last one left. The order of the set-up statements is the
correctness argument: reset before the image, image before the plugins, plugins
before the width, width before netplay, netplay before `Arm`. A guest must be
patched only when this session is wide, by this session's margin and, in a
match, only by the margin this match negotiated. A return request must lead
back to the launcher once and never reach the next session.

*Peers.* Each decides from its own environment and one number that was
published before the match. The emulated RAM digest covers what the patch
changes, so a one-sided decision is a desync.

*Frame execution and snapshots.* The interpreter returns a cursor, not the end
of a program. The host must resume there on the next frame, on the timeline the
machine is on, although the machine can be swapped under it at any frame
boundary. The picture is drawn from a sprite table latched earlier, and a
snapshot must carry latch and cursor along.

*Frame boundary.* One host frame must be one field: the NMI in vblank, every
raster split on its line. The CPU's time and the beam's are two clocks. The beam
stops at a split and is held while a handler runs, the CPU's clocks stay owed,
the next split is armed only by the handler of the one before, and a scene that
runs out of slices has to be drained to the same place.

*Presentation, pads.* Textures belong to a renderer that a soft return destroys,
while pointers to them are statics. Three event pumps see the same hotplug
events and one of them drops some.

*Audio.* SDL's thread drains a block that the main thread replaces between
sessions, with the format, the machine and the lock itself created and freed
around it.

*Localization.* Several generators write sections of one table whose patches
overlap. Each patch recognises its window by any of the bytes any language may
have left there, so what a window shows depends on the languages selected
before. Each check sees a part of the table, and is run before or after the
other generators.

*Gates and reconnaissance.* A pass must mean something: the two sides start the
guest at different frames, may end early, may be in different scenes, and the
offset search may stop at an alignment that hides a difference. The
reconnaissance stages read files that earlier runs, of other guests and other
lengths, have left.

## 2. Modules

| module | models | composed from |
|---|---|---|
| `OamClip` | both byte sequences at $00:A09F, executed as 65816 code for one object; the PPU's decoding | - |
| `WsPatch` | the patch module's state and its operations as functions of that state | - |
| `WsPatchApi` | those operations under callers in any order | `WsPatch` |
| `GuestImage` | abstract: a machine is booted, its clip is decided once, it runs, it is switched off | - |
| `SessionHost` | `main()` around one machine after another | `WsPatch`; implements `GuestImage` |
| `PeerAgreement` | any number of processes in one room, match after match | `WsPatch` |
| `GameRtl` | resume cursor, fallback, scanout latch and snapshots of one machine | - |
| `FieldBeam` | beam, NMI, raster interrupts and drain of a frame | - |
| `HostDevices` | SDL textures and gamepads across sessions, overlays and event pumps | - |
| `AudioPump` | the audio thread and the main thread around the mix block | - |
| `RomPatches` | the patch table laid over a cart, language after language | - |
| `TableGenerators` | the dialogue, accent and caption generators of that table and their checks | `RomPatches` |
| `DialoguePages` | glyph pages and the guards that choose one | - |
| `P16Gate` | the release gate over a baseline and a candidate executable | - |
| `WsMetrics`, `WsVerdicts` | the measurements of a scanline; the five verdict commands | `WsVerdicts` extends `WsMetrics` |
| `ReconScene` | scenes, banked states, tilemap layout | - |
| `ReconScreens`, `ReconGate`, `ReconCamera` | the screen inventory and sprite clip; the scene gate; the camera word | first two extend `ReconScene` |
| `StateHunt` | the two state hunts | - |
| `MC*` | the constants of the small instances | |
| `*_proofs`, `WsPatch_lemmas` | lemmas and theorems | |

### OamClip

State: the bytes at the site (`code`, `margin`), the accumulator `x`, `pc`, the
`carry`. One action per instruction that occurs: `Cmp`, `Bcc`, `Bcs`, `Jmp`.
`EmitBytes` is `emit_oam_x_clip`, byte by byte; `EmitDeclines` holds the margins
for which the emitter writes nothing; `Vanilla` is the signature of the site
table. What the accept set should be is stated apart from any bytes, as the
docstring of `verify_oam_patch.py` does (`Native`, `Widened`). The margin is
the one the emitter was called with; that the PPU decodes with the same one is
`SessionHost`'s `PatchedOnlyWide`.

### WsPatch and WsPatchApi

One record `patch` holds all of the module's statics and what is at the site.
A positive `rom` value m stands for "the 13 bytes emitted for margin m"; the
others are the signature, bytes that match nothing, an image that ends too
early, and no image. `Disarmed`, `Armed`, `WithNetplay` are functions because
`Arm` calls `Disarm` in the middle, and two callers compose them. `Armed` keeps
the code's order of early returns: not wide, already applied, stale, refused by
the agreement, then the site. `WsPatchApi` calls them in any order, with every
argument, while the image is replaced or overwritten by others: the conditions
under which the module's promises cannot rest on its callers.

The code has a table of sites with one entry. The model has that one site.

### SessionHost

`pc` is where `main()` is, one stage per statement that changes what a later
statement reads. `env` is what is fixed for the life of the process: the two
groups of environment switches, whether the mod runtime came up, whether a
netplay script was given, and what the ROM file holds at the site. The other
variables are the statics named in their comments. `room`, `link` and
`returnReq` stand for the lobby seat, the netplay library's session and its
return request, which `main.c` reads. `launch` is a history variable: what the
launch of the current session asked for, which the properties need and the code
does not keep.

| action | code |
|---|---|
| `OpenLauncher`, `ToggleWidescreen`, `ChangeRoom`, `LaunchMatch`, `LaunchOffline`, `LeaveLauncher` | `run_gui_launcher` and its results |
| `ResetSession`, `InitMachine`, `ActivatePlugins`, `PinMargin`, `Connect`, `ArmPatch`, `OpenVideo` | `session_reboot:` down to the frame loop |
| `SetupFails` | every `return 1` on that way |
| `PeerLeaves`, `SeesReturnRequest`, `UserCloses`, `ExitAtFrame` | the ends of the frame loop |
| `Teardown`, `SoftReturn`, `Finish` | after the loop |

The body of a frame is one stage: nothing in it changes the state modelled here.

`GuestImage` states the promise in one page: boot, decide the clip once, run
that code, switch off, and widen only by the margin of the frame and, in a
match, of the peer. `SessionHost` implements it under the mapping at the end of
the module (`Machine`, `GuestClip`, `GuestMargin`, `GuestPeer`).

### PeerAgreement

A process is cut to what the decision reads: `stage`, the selection, the pinned
margin, the capabilities it was launched with, its `patch`. `PublishCaps` is
`GwedFillMatchCaps`, which reads the selection and whatever pin the last session
left. `PlayOffline` is a whole session between matches, seen from the next
match. `Boot`, `Pin`, `Connect`, `Arm` are the set-up of `SessionHost`, and they
interleave between the peers. `Meet` is the start of the match, external: the
netplay library compares the identity each side publishes
(`gwed_publish_identity`), which contains the effective mod set, so peers meet
only with the same selection.

### GameRtl

`host` is the record of the statics: the two cursors, whether the machine has
booted, and the scanout latch with the field it belongs to. The machine is
external and identified by the field it is in, the cursor its last run stopped
at, and the cursors this timeline has stopped at. `entry` records how the last
frame entered the guest. `RunFrame` is one `GameRunOneFrame`: it picks the entry
(cursor, fallback, reset vector), latches the sprite table between the NMI and
the first run, and hands back two arbitrary cursors. The interrupt handlers and
runs between them store cursors in the same way, so the first and the last stand
for all of them. `Save`, `Load` and `SessionReset` are the hooks, together with
the engine's part that runs before them. `knob` is the pair of environment
switches that plants a bad cursor.

A load can bring less than the machine, in two ways, and the code runs on after
both. A chunk whose cursor is refused has already restored the machine: cursor,
latch and execution state stay those of the timeline that was left. A chunk that
is accepted may hold an execution state that cannot be read
(`game_rtl.c:745`): cursor, booted flag and latch are the snapshot's, and the CPU
stays (`LoadedCpu`). `lost` names what did not come along, in the running machine
and in every snapshot saved from it, until a new session or a whole snapshot ends
it. The properties leave out just that part: after a refused chunk `OnOwnTimeline`
and `SpritesMatchBackground` say nothing, and `OneMoment` leaves out the cursor
with `"cursor"` and the execution state with `"execution"`.

`SessionReset` clears what `GameSessionReset` clears, the statics and `g_cpu`. The
guest's memory is not cleared by it or by `SnesInit` ("WRAM, APU, PPU and DMA come
out of the previous match untouched", `game_rtl.c:800-812`), so `guest.field` goes
on from session to session.

### HostDevices

`win` is the record of the texture pointers: main's `texture`, `g_tex_ring` and
its index, `g_overlay_tex`, `g_rewind_tex`. `alive` is what they should point
into, the textures of the present renderer; a pointer outside it dangles, and
what SDL does with one is arbitrary (`Ensured`). `shown` and `latest` are the
texture on the screen and the one that received the last picture, `uploaded` is
whether the last new frame reached one. `rematch` is a ghost: the process has been
through a soft return. `pads` is `g_pads`, `connected`
what SDL lists, `queue` the device events nobody has polled.

| action | code |
|---|---|
| `StartSession`, `LeaveLauncher`, `Teardown` | the texture and the gamepads of a session, and their end |
| `HandleEvent` | the pump of the frame loop, the rewind loop and the menu loop, which treat hotplug alike |
| `BarrierDropsEvents` | `netplay_poll_events`, which does not |
| `PumpDone`, `NetplayFrame`, `NetplayBreak`, `OfflineFrame` | an iteration of the frame loop |
| `OpenRewind`, `OpenMenu`, `ModalTurn`, `CloseModal` | the modal loops, one inside the iteration, one instead of its frame |

`Present` is `game_present` with its failures: no texture, a lock that fails, a
creation that fails. `GWED_UPLOAD_MODE=update` handles textures as `lock` does.
The staging of blended frames does not change which texture is used.

### FieldBeam

`beam` is the beam in clocks from line 0, `owed` the clocks the CPU is ahead of
it, `left` what remains of the frame's budget, `chain` the splits still to come,
the first one armed. `StartFrame` delivers the NMI and its handler, `Stall` the
clocks HDMA steals, `RunMainline` one slice of the interpreter until it parks or
is stopped by a match, `ServiceSplit` a raster handler, `Park` the loop that
gives a parked CPU's clocks to the beam, `EndSlices` the 400-slice limit,
`DrainSplit`, `DrainStep`, `EndFrame` the drain up to vblank. `journal` records
on which line what was delivered. The beam is the engine's and external:
`Sync` consumes what is owed and stops at a match, `Held` charges a handler
without moving it.

### AudioPump

Two threads. The main one: `BootMachine`, `OpenDevice`, `AllocateBlock`,
`Unpause`, `GuestFrame`, `CloseDevice`, `FreeMachine`. SDL's: `Call`, `Lock`,
`Mix`, `Copy`, `Unlock`, each a step of its own. `access` is what the last step
of the audio thread touched. SDL calls back only while a device is open and not
paused, and closing it waits for the call in progress.

### RomPatches, TableGenerators, DialoguePages

`RomPatches` is the replay: `SwitchLanguage` starts a pass, `ApplyPatch` is one
entry of it. A patch is the window it guards, the bytes it expects there and the
bytes of some languages; `Chains` is `fallback_chain`. The engine's version of
this is in the submodule; its two offline mirrors in `scripts/` are the source.

`TableGenerators` holds the file as sections (`file`), what the authors write
(`text`, `override`), the reference carts and what was captured from a running
game (`baseline`, `live`). `DialogueWrite`, `AccentWrite`, `CaptionWrite` are the
generators, each with the checks it makes; `CaptureBaseline`, `Survey`,
`RecordDigests`, `EditOverride` what happens between them; `Ship` hands a table
that `CheckAll` (`check_localization.py`) accepts to the replay. `Settled` is a
shipped table at the end of a pass.

`DialoguePages` builds the rows and pages of a language without letters in the
font (`Build`, which may refuse), and then lets the game draw quotes on
surfaces in any order: `OpenScreen`, `NextQuote`, `Type`, `Poll`. The last four
are external, from the script's header.

### P16Gate, WsMetrics, WsVerdicts

A side of `P16Gate` reaches guest frame g at another of its own frames than the
other (the boot skew). `RunSide` leaves evidence or a fault, `CheckScenario`
judges; `gateWorld` is what the two builds really do, which the gate cannot see.
`WsMetrics` measures one scanline, a function from columns to colours: every
metric is a sum or a comparison over columns, so one line shows it. In
`WsVerdicts` a command launches its sides one after the other (`LaunchSide`,
`CaptureSide`), and `Judge` makes the report; `HarnessError` and the like are
the exits without one. `vWorld` is what the guest would show.

### ReconScene, ReconScreens, ReconGate, ReconCamera, StateHunt

One action per stage of the command line. A stage reads the files of earlier
stages, whichever run wrote them, and an invocation may fail at each of them.
`ReconScreens` shares the banked scene states (`bank`) between its tools;
`ReconGate` runs its sweep on an attract cycle that drifts (`anchor`);
`ReconCamera` finds words that follow the scroll and verifies one of them.
`StateHunt` polls the guest, saves a rolling pair and banks one of it when a
surface appears.

## 3. Runs

| run | states | bounds | shows |
|---|---|---|---|
| `session` | 39,107 | margins 0 to 2, 18 environments, unbounded sessions | the properties of one process over any number of sessions; it implements `GuestImage` |
| `session_pin` | - | same | violated: an offline session clears the pin |
| `peers` | 569,460 | 2 peers, margins 0 to 2, six ways to start both alike, and one switch on one side | peers started alike patch together or not at all; nobody exceeds the room's margin |
| `game_state` | 959,409 | 3 good and 2 bad cursors, 1 snapshot, 3 fields over all sessions | as far as a load brought them along, cursor, execution state and latch are of the machine's timeline and moment |
| `devices` | 311,053 | 5 textures, 2 gamepads, 2 waiting events, both upload modes | outside of slot 0 after a match no dead texture is drawn, held frames hold unless a turned slot was not uploaded, offline seats follow the hardware |
| `devices_late_pad` | - | same | violated: a pad connected later works |
| `devices_slot_zero` | - | same | violated: slot 0 of the ring is the caller's texture |
| `devices_held` | - | same | violated: a held frame is the slot with the last picture |
| `guest_machine` | 57,232 | beam: a field of 10 lines of 3 clocks, four chains of up to 6 splits, 10 slices, 14 drain steps; audio: 2 sessions, 2 rates, 2 channel counts, 3 request sizes; clip: margins 1, 43 (16:9), 95 (`kWsExtraMax`), 112, 113, 144, every X within 4 of a boundary of any of them; patch: margins 0 to 3, the widest without encoding | the NMI is in vblank, every split on its line; the audio thread meets only its own session; the code accepts exactly the intended interval, accepted X survive the ninth bit, native X keep their carry, every object leaves the site; the patch module's books are right under any order of calls |
| `guest_tools` | 2,068,827 | lines of 6 columns, parities of 2 frames, gates of 6 frames and a skew up to 2, 2 invocations of the screen and gate tools, 5 of the camera, 4 turns of a hunt | what a tool reports, banks or passes is true of the game |
| `localization` | 92,600 | a cart of 7 addresses, 4 languages, one row, two accent tiles, a frame tile, a caption; 4 quotes on 2 surfaces | accepted windows show the selected language, a page is its own quote's |
| `table_switch` | - | same | violated: a row outside the known losses switches right |

Why the bounds are enough. The clip compares an X with two constants per
margin, so it can only be wrong next to one of them, and the theorems cover all
margins and X. In the patch, session and peer models a margin is only ever
compared with another margin and with zero, the clamp and the encoding limit:
three values (none, one, another) plus one above the clamp tell all of those
apart. The session model's statics are finite and it has no counter, so
"any number of sessions" is literal. Two peers suffice for a relation between
pairs of peers, and the theorem is for any number. In `game_state` one snapshot
and three fields are enough to save, go on, come back, and play on in another
session. `FieldMax` bounds the fields that the guest's memory goes through over
all sessions and is the only counter; the theorem is for every bound. In `devices` two gamepads fill the two seats, and
five textures are what a first session uses at once. `QueueMax` keeps a
gamepad from coming and going while two events wait; it is the only counter.
Textures are interchangeable and so are gamepads, hence the symmetry.

In `guest_machine` the beam's line is three clocks so that a handler can take less than a
line, a whole one or more; handlers, stall and mainline times are chosen so that
a frame ends on CPU time with splits still to come, and so that the dense chain
runs out of slices. Frames follow each other without a counter. A second session
is what tells an old block from a new one (`MaxSessions`), and a request larger
than a block spans two mixes.

In `guest_machine`, `guest_tools` and `localization` the parts are independent, and an initial
state starts one of them with the others idle; checking them in one run costs
nothing. A window of a picture, a table or a ring matters only by its edges and
by what overlaps it, so the instances hold one of each: columns of the margin,
of the native part next to it and of the middle; a patch alone on its window and
two that overlap; frames inside the ring and just before it. `MaxInvocations`,
`GateRuns` and `CameraRuns` are what it takes to leave a file with one set of
arguments and read it with another; `HuntTicks` allows a save, a refusal and a
surface in every order for two groups.

Deadlock is checked wherever the system goes on for ever. `guest_machine` stops
after the last audio session and when the object has left the site,
`guest_tools` when a tool has exited, so their configurations turn the check
off.

### Properties

Sprite clip. `AcceptSetExact`: code and intention accept the same X.
`AcceptedXRoundTrips`: an accepted X is drawn where the game put it.
`NativeCarryKept`: an X the original accepts arrives with the original's carry.
`EveryXIsDecided`: control does not stay inside the site.

Patch. `NoOrphan`: the replacement is never in an image the module does not know
it patched. `BooksAgree`: armed, applied and the margins tell one story.
`ForeignKept`: unrecognised bytes are never replaced.

Session. `PatchedOnlyWide`, `PatchAgreedWithThisMatch`, `BooksMatchImage`,
`ArmsFromCleanSlate` are about the patch across sessions, `SeatMatchesLanding`
about the lobby seat. `MatchReturns` is liveness. `ImplementsGuestImage` is the
refinement. That a link exists only when it was asked for and that no return
request outlives its session is proved (`LinksAreAskedFor`,
`ReturnsAreAnswered`) and not repeated in the run.

Peers. `BothOrNeither`: "both peers must run it or neither may"
(`gwed_ws_patch.c:243`). `NeverBeyondCaps`: the room's margin or none.

Snapshots. `OnOwnTimeline`, `OneMoment`, `SpritesMatchBackground` are the three
failures the comments at `game_rtl.c:635-665` report from before the hooks
existed, each as far as the loads brought its part along (`lost`, section 2).
`HostStartsCold`: host cursors, latch and CPU of a machine that has not booted are
those of a first start. It says nothing of guest memory, which is not cold.

Devices. `NoStaleTexture`: a session draws with textures of its own renderer. It
holds of the overlays and of ring slots 1 and 2 in every session and either mode,
and of `texture`, slot 0 and the screen in `lock` mode and before a soft return;
slot 0 of a rotating ring after one is finding 3 (`SlotZeroIsCallers`). The rewind
strip is never cleared, and is safe only because rewind never opens in a session
another one can follow; the property depends on both. `HeldShowsLatest`: the
screen and the next held frame are the last picture, in `lock` mode after any
failure, in `rotate` mode as long as the last new frame was uploaded; the frame
that was not is finding 4 (`HeldFrameIsLastPicture`). `PadsFollowDevices`: no seat keeps a gamepad that left unless
the event that says so is still waiting, and none is left out or shared.

Frame boundary. `NmiInVblank`: the host's frame begins where the field's vblank
does. `BandsInPlace`: the picture has all of its splits and each on its line,
although the CPU is past the field by then.

Audio. `CallbackIsServed`: no step of the audio thread creates the lock, mixes
without a machine, or reaches into another session's block or past the end of
its own.

Localization. `SingleOwnerResolves`: a window with one owner holds what the
owner recognises, and after a pass the selected language. `AcceptedWindowsResolve`:
in a table the checks accept this holds of every repaired row, accent tile,
frame tile and caption, whatever languages came before. `PageIsItsQuotes`: once
a quote is typed, the tiles it names are its own glyphs.

Gates. `GatePassSound`: an exit of 0 hides no guest frame at which the
candidate's memory was wrong. `CentreSound`: a centre that passes was measured,
before the first divergence of any process. `HudAnchored`: a HUD that passes
covers every column once and is not scaled at its edges.

Reconnaissance and hunts. `StaticMapsAreStatic`: a map reported as static is not
written, if the samples are dense enough for the ring. `CullMeasuresMotion`: the
clip is measured on a fight that runs. `HistogramNamesTheCell`: a write counts
for the cell it changed. `GateSeparates`: a mode word and a liveness word in
`gate.json` separate the live fight from everything else. `CameraIsTheScroll`: a
camera without a disagreement is the rendered scroll, not the simulation's.
`HuntBanksItsOwn`: what a hunt banks is its own, acknowledged state, once per
group.

Each of them has a mutant in its module, a change of the code that breaks it:
an off-by-one bound, a forgotten reset, a call left out, a check dropped.

## 4. Fairness

`SessionHost`: `WF_vars(Process)`. `Process` holds the statements `main()`
executes by itself. It is one thread that waits for a person in the launcher and
for the next frame in the frame loop, and nowhere else between them. No fairness
is assumed for the player, the peer, or for leaving the frame loop without a
request. `MatchReturns` therefore starts from a request that has arrived.

`OamClip`: `WF_clipVars(ClipNext)`. A processor that is running executes the next
instruction.

The other modules state safety only and assume no fairness. In `FieldBeam` and in
the tools every loop of the code carries its own bound (400 slices, 600 steps, a
deadline), so that it ends is a matter of the model's shape.

## 5. Proofs

All theorems hold for every value of the constants under the named assumptions.

| module | assumptions | theorems | argument |
|---|---|---|---|
| `WsPatch_proofs`, of `OamClip` | margins are naturals, X a 16-bit word | `PathInvariant`, `AcceptSet`, `RoundTrip`, `CarryKept` | `PathInv` says for each of the site's instruction addresses which comparisons led there and what the carry is. A step of the code moves from one of its cases to another. Needed because `AcceptSetExact` says something only at the exits |
| `WsPatch_lemmas` | the two margin limits are positive | lemmas | what each operation returns, keeps and decides |
| `WsPatch_proofs`, of `WsPatchApi` | same | `NeverOrphaned`, `BooksAlwaysAgree`, `ForeignAlwaysKept` | `Sound(patch)`: the books as one predicate of the record, kept by every operation for every argument |
| `SessionHost_proofs` | `EnvironmentsAssumption` | `TypeCorrect` and one theorem per safety property, `ProcessImplementsGuestImage` | `Control`: which of the netplay statics can be set in which stage. `Image`: what books and image are in which stage, with the reason a patched image was allowed to be patched. The properties speak of the stages in which the guest runs; the invariant has to carry the facts from the stage in which they are established |
| `PeerAgreement_proofs` | `PeerAgreementAssumption` | `TypeCorrect`, `PeersAgree`, `CapsAreACeiling` | `Decided`: a process that has armed has the patch its own inputs determine. `SameCaps`: processes of one match carry the same number. `Joined`: a running match has only active processes with one selection. Peers never read each other, so agreement can only follow from equal inputs |
| `GameRtl_proofs` | the good and bad cursors are disjoint, zero and the register area are bad | `TypeCorrect`, `FramesStayOnTimeline`, `MomentsAgree`, `PicturesPair`, `HostsStartCold` | `Sound` of the running machine and of every stored snapshot, each with what its own loads lost: a load makes a stored state the present one, so what is true now must have been true of everything saved |
| `Localization_proofs`, of `RomPatches` | `Off` is no language, the fallbacks are languages | `TypeCorrect`, `OneOwnerResolves` | an entry writes only its own window, and leaves there the bytes of the selected language, which are among those it recognises (`TargetAllowed`, from the first element of a non-empty set of naturals). A sole owner's window is touched by nobody else, so what its own entry left stays (`OtherWindow`), pass after pass |
| `Localization_proofs`, of `DialoguePages` | `PagesAssumption` (addresses, tile numbers and lengths are naturals, the dialogue is finite), `LatinAssumption` (both tiles of a letter lie in the dialogue font, below `LatinFontTiles`) | `PagesShowTheirQuotes` | `PageInv`: the build stands as accepted, the window is that of the screen that is up, and once the row is typed and looked at its page lies in it. The guard of a quote tells its first row from every other row of the pool (`GuardFacts`), so with the whole row on the map its own page is the only one that matches (`OnlyItsPageMatches`), and what other pages left in the window is overwritten wherever it is named. Then a row shows its text: `LineRow` and `CellRow` follow a glyph through the deduplicated page to the tile its cell names, with `FlattenBlocks`, `FlattenAlike`, `FlattenHolds` and `DistinctHolds` on sequences of any length |
| `Localization_proofs`, of `TableGenerators` | `FallbackAssumption`, `WindowsAssumption` (the windows of rows, tiles and rectangles are not empty, lie in the cart and are equal or disjoint), `ArtAssumption` (art and lines are bytes, their languages are languages), `ManifestAssumption` (every language but `en` and `es` falls back on English, and English on nothing: `endless_duel.toml`:6-13) | `AcceptedTablesResolve`, `WrittenTablesResolve` | `GenInv`, see below |
| `HostDevices_proofs` | NULL is no texture, an empty slot no gamepad | `TypeCorrect`, `NothingStale`, `HeldFramesHold`, `SeatsFollow` | `Control`: a match and the launcher have no overlay open and no overlay texture, and the launcher no ring but a slot 0 of an earlier session (`NoRing`). `Drawable`: what a session draws with is alive; main's texture stays it because slot 0 is empty or that same one (`Owned`), until a soft return in rotate mode. `Upheld`: the last picture is on the screen and where a held frame looks (`Standing`), in lock mode because the one texture never changes, in rotate mode if the last upload succeeded. `Seated`: the two seats fill in order, differ, and any dangling one has a removal waiting behind it in the queue |

The refinement theorem gives the abstract initial state and maps each step to a
step of `GuestImage` or a stutter: `InitMachine` is `PowerOn`, `ArmPatch` is
`Run`, `Teardown` and the failures after `InitMachine` are `PowerOff`.

The types are proved where the runs do not repeat them (`TypeCorrect` of
`SessionHost`, `PeerAgreement`, `HostDevices` and `RomPatches`).

`FieldBeam` and `AudioPump` are proved about in the modules of the file they
share: `GameRtl_proofs` (game_rtl.c) and `HostDevices_proofs` (SDL in main.c).

| of | assumptions | theorems | argument |
|---|---|---|---|
| `FieldBeam` | `FieldBeamAssumption` (splits lie in the visible lines and rise, times are naturals), `FrameBudgetAssumption` (an NMI handler and the stall end within the frame, `MaxSlices` covers the lines of vblank, `MaxDrain` two steps for each split and two more) | `NmiStaysInVblank`, `BandsStayInPlace` | `BeamInv`. `Ahead`: the beam has not passed the armed split, and a pending one holds it a clock into its line, so splits are serviced in order and on their lines (`Progress`). `Walking`: while the beam is still in the vblank the frame began in, each slice takes it at least a line on and the frame has clocks left, so the slices cannot end with splits unserved and the drain unneeded. `Ending`: `StepsLeft` bounds the drain, so it ends in vblank and not at its limit. `SyncResult` and `SyncAhead` turn the modular arithmetic of the beam into lines, once |
| `AudioPump` | `AudioPumpAssumption` (naturals) | `CallbacksAreServed` | `AudioInv`. `Attended`: device and lock follow main's place in the session. `OwnedBlock`: from unpausing to closing, block and cursors are of this session. `Calls`: a call in progress keeps the device open and, while it fills, holds the lock. The bound on sessions is not used |

The tools are proved about in one module, `GuestTools_proofs`. What is proved
speaks of one run of a tool after another, as in the run `guest_tools`, but with
constants of any size.

| of | assumptions | theorems | argument |
|---|---|---|---|
| `P16Gate` | `P16Assumption` | `GatePassesOnlyTheSound` | `GateInv`: in each stage the evidence on the disk is what the sides of this scenario record, and an exit 0 judged it without a FAIL. `AlignmentIsSound`: an offset that aligns the digests is either the true skew, where every common frame is compared, or one at which the sides agree only while both stand at guest frame 0, and then they have no other frame in common |
| `WsVerdicts`, `WsMetrics` | `VerdictAssumption`, `MetricsAssumption` | `CentreIsSound`, `HudIsAnchored` | `VerdictInv`: each PASS in the report is the verdict of this world. `ParityIsSound`: the prefix the verdict claims is the first frame in which two processes differ, so a PASS puts the defect behind the first divergence of any of them. `SampledOnce`: in a chain of segments that join, each column lies in exactly one; the segment is the least whose end lies beyond the column |
| `ReconScreens` | `ScreensAssumption` | `StaticMaps`, `CullMoves`, `CellsAreNamed` | `ScrInv`. The two properties speak of finished files only; `NothingMissed` adds what the stage under way has seen: all writes up to its cursor, because consecutive rings overlap. `cull.json` is written from a running fight or carried over from one. The quadrant arithmetic is inverted once, in `CellOfItsWord`, for every cell |
| `ReconGate` | `GateAssumption`, `SampleAssumption` | `GateAlwaysSeparates` | `FilesHold`: what each file holds, of whichever run; a verdict is right because of the files it reads. `UniqueIsMode`: on a wide sweep only a mode word is constant over the live samples and different in all others: constants and latches agree with a sample after the fight, a battle word with a banked battle screen, and a counter is not constant |
| `ReconCamera` | `CameraAssumption`, `ClampAssumption` | `CameraFound` | `CamInv`: both files hold what the words and the scroll show, of whichever invocation. `OnlyTheCopyAgrees`: twice, minus or one frame ahead of a scroll below half the modulus is the scroll itself only where it is 0 or stands still |
| `StateHunt` | `HuntAssumption` | `HuntBanks` | `HuntInv`. `OwnFiles`: the rolling slots in use and every banked file are this hunt's, so what is promoted next is too. `OnePerGroup`: the groups seen are those with exactly one banked file, and exit 0 has seen all |

Assumptions on constants say what tables of the code say. `SampleAssumption` is
the shape of the tables in `recon_gate.py`: a live attract sample is taken in
the fight under a label of its own, no banked scene is live
(`LIVE_STATE_SCENES` is empty), and a battle screen (`victory_quote`,
`ko_1p_win`) is among the banked ones. `ClampAssumption` is the clamp of the
camera to 64..192 (`CAMERA_CLAMP_X`), below half of the scroll's range. The
bands of `VerdictAssumption` are four integers each, in any order and number.

The prover has no induction over data. Where an argument needs one over numbers
(the first frame that differs, the segment a column lies in, the element a loop
stops at) it takes a least counterexample instead: `LeastNat` proves that a
non-empty set of naturals has a least element, from the well-foundedness of
strict inclusion among finite sets. `FlattenSeq` computes with a recursive
function. That this function exists (`FlattensExists`) and what it holds at each
index (`FlattenAlike` and those after it, through `Climb`) are proved in the same
way. So it is for the other recursive functions of this file: the images a pass goes
through (`PassExists`) and the chain of fallbacks (`GrowsExists`).

`AcceptedTablesResolve` starts from any imported table and lets the generators
run and the authors edit in any order. `check_no_overlap` of the accent generator
says less than its name: another patch that covers one of its tiles exactly
passes it. What keeps the tiles apart is that the generator cut them out of every
other section when it wrote its own, and that no generator run later brings them
back. So `GenInv` carries, beside the types, the table being the file and the cart
being untouched until the game starts, `TilesAlone`: once the accent section is in
the file, no other section touches its tiles. `CutAlone` and `ReplaceAlone` show
that cutting and putting back a section keep it. From the moment of `Ship`,
`GenInv` also says that the checks accepted the file. Then:

- An owned window is in the file as a patch described from the cart up (a
  *keeper*), because the section is its generator's (`SectionStands`, with
  `DialogueIs`, `AccentIs`, `CaptionIs`), and alone: tiles by `TilesAlone`,
  rectangles by the caption's own `check_no_overlap`, repaired rows because
  `DialogueCheck` cuts them out of the fragments (`RowAlone`).
- A window with one keeper resolves, pass after pass (`KeepersResolve`, which is
  `SingleOwnerResolves` carried through a game); one that nobody touches holds the
  cart's bytes (`Untouched`).
- What the keeper leaves is what was authored, because a chain is the language
  and then English (`ChainIs`, `TargetIs`).
- A repaired row without a line of its own has no entry at all. Nobody touches it,
  and the acceptance of it by `RepairShows` settles what it shows.

Sections are sorted by rank (`InOrderLists`: every window occurs once), and a patch
that is cut falls into runs of adjacent addresses (`RunsLie`, `PiecesLie`).

The `ASSUME`s of `DialoguePages` say what its tables say: the generator's
`LATIN_FONT_TILES` is the size of the dialogue font, and every letter of
`TILE_BY_CHAR` is drawn by a tile of it and the tile sixteen further on.

Only model-checked:

- `MatchReturns` and `EveryXIsDecided`: liveness under fairness.

## 6. Findings

1. *An offline session keeps the match's margin* (`main.c:3380`, run
   `session_pin`). `main` pins the width from `g_netplay_active_session` before
   it clears that flag, so a session played offline after a match runs at the
   width the match negotiated. `gwed_display.c:327` says it must not.
2. *A second gamepad is not opened while the first is* (`main.c:1291`, run
   `devices_late_pad`). The scan stays on the first slot when it is taken.
3. *Slot 0 of the ring is the last session's* (`main.c:2683`, run
   `devices_slot_zero`). The comment at 2674 says slot 0 is the caller's texture,
   so that teardown need not change; teardown clears the ring from slot 1 on, and
   slot 0 is seeded only when it is empty. With `GWED_UPLOAD_MODE=rotate`, a
   session after a soft return draws with, or takes the size of, a texture of the
   renderer that was destroyed.
4. *A held frame can be an older picture* (`main.c:2686`, run `devices_held`). With
   the ring, the index turns before the slot's texture is locked. If the lock
   fails, nothing is uploaded, and an overlay that opens then re-presents a slot
   with a picture three frames old or with none; the comment at 2680 says it must
   be the slot with the last picture.
5. *A table that passes can lose a row* (`generate_dialogue_patch.py:374`, run
   `table_switch`). `verify_replay` tries nine sequences of languages; its
   docstring says "every language and switch". In the run a row shows Italian and
   `off` is selected, which none of the nine does. The imported fragment does not
   recognise the Italian bytes, so nothing puts the cartridge's bytes back; the
   row's own patch restores its `source`, which is the English the fragment
   leaves. The row stays English.

Observations without a run.

- A scripted netplay session is compared with the capabilities of an earlier
  match (`main.c:3439`); it received none.
- When the margins of two peers differ, only the one that differs from the room
  stays native (`gwed_ws_patch.c:260`).
- The loaded hook copies the current cursor into the fallback
  (`game_rtl.c:754`), so the fallback after a load is not one that was checked.
- `main.c:4152` says "the guest is cold-booted per match" and that a dirty machine
  would be "a desync on the first frame"; `game_rtl.c:800-812` says that guest
  memory comes out of the previous match as it was, and that a boot digest
  refuses a match between peers that differ. `SnesInit` is the engine's, so this
  is what the comments say of it and no run.
- A frame that runs past its budget is not charged to the next
  (`game_rtl.c:199-505`), so the beam drifts through vblank; when it passes line
  0, the drain runs on to the next vblank and one field has no NMI. `NmiInVblank`
  is about the NMIs that are delivered.
- In a match the barrier's event pump drops gamepad events (`main.c:1912`), so a
  pad that leaves while a peer is waited for keeps its handle;
  `PadsFollowDevices` is about the other sessions.
- The encoding of the sprite patch ends at margin 112 (`gwed_ws_patch.c:118`);
  the comment above and `docs/WIDESCREEN.md:230` say 144. No reachable margin is
  affected (`kWsExtraMax` is 95).
- `stage_series` of `recon_camera.py` uses a name it never defines
  (`recon_camera.py:126`), so an "all" run ends there and never reaches the
  report. Stages run one by one do.
- `stagehunt.py` promotes the newer of its two rolling states
  (`stagehunt.py:74-75`); its comment means the older.

## 7. Assumptions and what is left out

- The launcher, the lobby server, the netplay library, the mod runtime, SDL and
  the engine are external: their results are arbitrary within what the calling
  code can receive. A peer's capabilities may exceed the clamp or be absent.
- Peers meet only when their published identities are equal. The fingerprint is
  taken as injective on the selection of the widescreen package.
- `cpu_pc24_resumable` refuses zero. It is the engine's; the code relies on it
  for a machine that never ran.
- A snapshot that is refused, or whose execution state cannot be read, leaves a
  mixture (`lost`, section 2).
- Opening a gamepad that SDL lists succeeds. A netplay link that is up stays up
  until its session ends.
- Guest RAM is not modelled beyond the field it shows. It is not cold in a new
  session (section 2).
- The build of the dialogue pages raises an error for a continuation line whose
  first line is authored in other languages only
  (`generate_dialogue_cjk_patch.py:538`). `DialoguePages` knows the lines of one
  language, and ignores such a continuation as the code does when the first line
  is authored in none.
- The window's aspect gives any margin. How pixels become a width is layout.
- The beam stops one clock past a match, and clocks charged while it is held stay
  owed. That is how `game_rtl.c` uses the engine's, and the model's `Sync` and
  `Held`.
- The PPU replays the registers of each line inside the engine. What a split
  changes in the picture is not modelled, only when it is delivered.
- A tool's guest is any of the worlds its module enumerates; a tool sees it only
  through the debug server, whose failures are modelled as the exceptions the
  tools catch or do not.
- The dialogue pages' draw routine and the engine's guard are external, taken
  from the header of `generate_dialogue_cjk_patch.py`.

Not modelled:

- The generators of the option, crawl and title screens write fixed tiles of one
  screen each and share only the table. The audits and previews are reports and
  pictures. `recon_hud.py`, `recon_text.py`, `recon_tilemap.py`, `recon_dis.py`
  print one measurement each.
- Gestures and turbo, mod-set comparison, screen classification and pacing: see
  the plan. Diagnostics: counters nothing reads back.
- Configuration files, logging, build scripts, previews, translation data and
  generated tables are not planned: text in and out, with no state that a
  property could relate.

## 8. Plan

In order of what goes wrong worst when it goes wrong.

| | module | models | to check |
|---|---|---|---|
| done | everything in section 2 | see above | see above |
| 1 | `ScreenPolicy` | the classification and HUD policy of `gwed_display.c`, over the guest bytes it reads | every screen gets exactly one policy; widened cells never show a stale column |
| 2 | `Gestures` | the rewind, menu and turbo gestures of the pads and keys | a gesture fires once per press; what is held when a menu closes does not reach the guest |
| 3 | `Pacing` | the deadline, late and early resets, vsync and fast-forward, with a scaled clock | the deadline never drifts by more than a period |
| 4 | `ModSets` | comparing and describing mod sets, with the truncation of their buffer | equal text iff equal set, up to the buffer; the description names a difference |
| 5 | the option, crawl and title generators | their sections of the table | they extend `TableGenerators` as the caption does |

Each of them belongs into a run that exists (`devices` or `guest_machine` for 2 and
3, `session` for 1 and 4), so the number of runs stays the number of questions.

Every safety invariant and action property that a run expects to hold is a
theorem, so what is left to prove comes with those modules.
