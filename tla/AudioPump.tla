------------------------------ MODULE AudioPump ------------------------------
(***************************************************************************)
(* Sound (main.c): the audio thread drains blocks the DSP mixes, under the *)
(* APU lock; the main thread opens and closes the device and the machine   *)
(* around every session, and runs the guest under the same lock.           *)
(*                                                                         *)
(* SDL is external: a device opens paused, calls back only while it is     *)
(* open and not paused, and closing it waits for a call in progress.       *)
(***************************************************************************)
EXTENDS Integers

CONSTANTS Rates,       \* frames per block of the rates a device may have
          ChannelSets, \* the channels it may have
          Requests,    \* bytes SDL asks for at a time, in samples
          MaxSessions  \* bound: sessions

ASSUME AudioPumpAssumption ==
    /\ Rates \subseteq Nat \ {0} /\ ChannelSets \subseteq Nat \ {0}
    /\ Requests \subseteq Nat \ {0} /\ MaxSessions \in Nat

VARIABLES mainPc,    \* where the main thread is
          sessions,  \* sessions begun
          machine,   \* g_snes exists
          mutex,     \* the APU mutex: "none", "free", "main" or "audio"
          device,    \* external: "closed", "paused" or "playing"
          format,    \* g_frames_per_block, g_audio_channels
          block,     \* g_audio_block: session and samples; samples 0 is NULL
          span,      \* g_audio_block_cur and _end: block and offsets
          scratch,   \* g_audio_scratch_size
          callback,  \* the audio thread: "idle", "waits" or "fills"
          want,      \* samples the call in progress still has to deliver
          access     \* the last access of the audio thread to a block

audioVars == <<mainPc, sessions, machine, mutex, device, format, block, span,
               scratch, callback, want, access>>

NoBlock == [session |-> 0, samples |-> 0]
NoAccess == [kind |-> "none"]
BlockSize == format.frames * format.channels

AudioInit ==
    /\ mainPc = "launcher" /\ sessions = 0 /\ machine = FALSE
    /\ mutex = "none" /\ device = "closed"
    /\ format = [frames |-> 0, channels |-> 2]
    /\ block = NoBlock /\ span = [of |-> NoBlock, cur |-> 0, end |-> 0]
    /\ scratch = 0 /\ callback = "idle" /\ want = 0 /\ access = NoAccess

(***************************************************************************)
(* The main thread                                                         *)
(***************************************************************************)
\* session_reboot: the machine, with its APU, exists before the device does.
BootMachine ==
    /\ mainPc = "launcher" /\ sessions < MaxSessions
    /\ mainPc' = "open" /\ sessions' = sessions + 1 /\ machine' = TRUE
    /\ UNCHANGED <<mutex, device, format, block, span, scratch, callback, want, access>>

(* open_audio takes and releases the APU lock, which creates it, and opens *)
(* the device; a session whose device does not open plays without sound.   *)
OpenDevice ==
    /\ mainPc = "open" /\ mutex \in {"none", "free"}
    /\ mutex' = "free"
    /\ \/ /\ device' = "paused" /\ mainPc' = "allocate"
          /\ \E f \in Rates, c \in ChannelSets : format' = [frames |-> f, channels |-> c]
       \/ /\ device' = "closed" /\ mainPc' = "frames" /\ UNCHANGED format
    /\ UNCHANGED <<sessions, machine, block, span, scratch, callback, want, access>>

\* The block without setting the cursors to it.
NewBlock_CursorsKept ==
    /\ \/ /\ block' = [session |-> sessions, samples |-> BlockSize]
          /\ mainPc' = "unpause"
       \/ /\ block' = NoBlock /\ mainPc' = "frames"
    /\ UNCHANGED span

(* The block of the device's rate, empty.  Without memory for it the       *)
(* device stays paused.  The block of the session before is not freed.     *)
NewBlock ==
    /\ \/ /\ block' = [session |-> sessions, samples |-> BlockSize]
          /\ span' = [of |-> block', cur |-> 0, end |-> 0]
          /\ mainPc' = "unpause"
       \/ /\ block' = NoBlock /\ mainPc' = "frames" /\ UNCHANGED span

AllocateBlock ==
    /\ mainPc = "allocate" /\ NewBlock
    /\ UNCHANGED <<sessions, machine, mutex, device, format, scratch, callback, want, access>>

Unpause ==
    /\ mainPc = "unpause" /\ device' = "playing" /\ mainPc' = "frames"
    /\ UNCHANGED <<sessions, machine, mutex, format, block, span, scratch, callback, want, access>>

\* A frame of the guest, which the engine runs under the APU lock.
GuestFrame ==
    /\ mainPc = "frames"
    /\ \/ mutex \in {"none", "free"} /\ mutex' = "main"
       \/ mutex = "main" /\ mutex' = "free"
    /\ UNCHANGED <<mainPc, sessions, machine, device, format, block, span, scratch, callback, want, access>>

(* Teardown closes the device, which waits for the audio thread, and frees *)
(* the machine after it.                                                   *)
CloseDevice ==
    /\ mainPc = "frames" /\ mutex # "main" /\ callback = "idle"
    /\ device' = "closed" /\ mainPc' = "free"
    /\ UNCHANGED <<sessions, machine, mutex, format, block, span, scratch, callback, want, access>>

FreeMachine ==
    /\ mainPc = "free" /\ machine' = FALSE /\ mainPc' = "launcher"
    /\ UNCHANGED <<sessions, mutex, device, format, block, span, scratch, callback, want, access>>

(***************************************************************************)
(* The audio thread                                                        *)
(***************************************************************************)
(* audio_stream_cb grows its scratch buffer when it must, and delivers     *)
(* nothing when it cannot.                                                 *)
Call ==
    /\ device = "playing" /\ callback = "idle"
    /\ \E n \in Requests :
         /\ scratch' \in {scratch, IF n > scratch THEN n ELSE scratch}
         /\ IF n <= scratch' THEN callback' = "waits" /\ want' = n
                            ELSE UNCHANGED <<callback, want>>
    /\ UNCHANGED <<mainPc, sessions, machine, mutex, device, format, block, span, access>>

\* fill_audio: RtlApuLock, which creates the mutex when nobody has.
Lock ==
    /\ callback = "waits" /\ mutex \in {"none", "free"}
    /\ mutex' = "audio" /\ callback' = "fills"
    /\ access' = [kind |-> "lock", created |-> mutex = "none"]
    /\ UNCHANGED <<mainPc, sessions, machine, device, format, block, span, scratch, want>>

\* The block is used up: the DSP mixes the next one.
Mix ==
    /\ callback = "fills" /\ want > 0 /\ span.cur = span.end
    /\ access' = [kind |-> "mix", into |-> block, samples |-> BlockSize]
    /\ span' = [of |-> block, cur |-> 0, end |-> BlockSize]
    /\ UNCHANGED <<mainPc, sessions, machine, mutex, device, format, block, scratch, callback, want>>

Copy ==
    /\ callback = "fills" /\ want > 0 /\ span.cur < span.end
    /\ LET n == IF span.end - span.cur > want THEN want ELSE span.end - span.cur
       IN /\ access' = [kind |-> "copy", from |-> span.of, upto |-> span.cur + n]
          /\ span' = [span EXCEPT !.cur = @ + n]
          /\ want' = want - n
    /\ UNCHANGED <<mainPc, sessions, machine, mutex, device, format, block, scratch, callback>>

Unlock ==
    /\ callback = "fills" /\ want = 0
    /\ callback' = "idle" /\ mutex' = "free" /\ access' = NoAccess
    /\ UNCHANGED <<mainPc, sessions, machine, device, format, block, span, scratch, want>>

AudioNext ==
    \/ BootMachine \/ OpenDevice \/ AllocateBlock \/ Unpause \/ GuestFrame
    \/ CloseDevice \/ FreeMachine
    \/ Call \/ Lock \/ Mix \/ Copy \/ Unlock

AudioSpec == AudioInit /\ [][AudioNext]_audioVars

(***************************************************************************)
(* Property                                                                *)
(***************************************************************************)
(* Whatever the audio thread does between any two steps of the main        *)
(* thread, in any session: it mixes only with a machine, into a block of   *)
(* this session and no further than it reaches, it plays nothing of an     *)
(* earlier session's block, and it never creates the lock ("the audio      *)
(* thread must never be the one to race that", main.c:740).                *)
CallbackIsServed ==
    CASE access.kind = "lock" -> ~access.created
      [] access.kind = "mix" -> /\ machine
                                /\ access.into.session = sessions
                                /\ access.samples <= access.into.samples
      [] access.kind = "copy" -> /\ access.from.session = sessions
                                 /\ access.upto <= access.from.samples
      [] OTHER -> TRUE
=============================================================================
