------------------------------ MODULE FieldBeam ------------------------------
(***************************************************************************)
(* GameRunOneFrame (game_rtl.c): how one frame of the host drives the beam *)
(* and the CPU over one field of the PPU, and delivers the NMI and the     *)
(* raster interrupts in it.                                                *)
(*                                                                         *)
(* A scene splits the screen with a chain of raster interrupts: the NMI    *)
(* programs the first line, and the handler of each programs the next.     *)
(* The engine's beam and the guest are external, and modelled from what    *)
(* this file relies on: the beam consumes the clocks the CPU ran up, stops *)
(* at a match, and stands still while it is held; clocks it has not        *)
(* consumed stay owed.                                                     *)
(***************************************************************************)
EXTENDS Integers, Sequences

CONSTANTS Lines,      \* scanlines of a field (262)
          Vblank,     \* the line vblank begins at (225)
          PerLine,    \* GAME_MASTER_CYCLES_PER_LINE
          MaxSlices,  \* 400
          MaxDrain,   \* 600
          Chains,     \* the split lines of the scenes, each a rising sequence
          NmiTimes,   \* clocks an NMI handler may take
          IrqTimes,   \* clocks a raster handler may take
          RunTimes,   \* clocks the mainline may run before it parks
          StallTimes, \* clocks HDMA steals in a frame
          Latency,    \* clocks the mainline runs on after a match
          Overshoot   \* clocks it runs on after the end of the frame

PerFrame == Lines * PerLine     \* GAME_MASTER_CYCLES_PER_FRAME

ASSUME FieldBeamAssumption ==
    /\ Lines \in Nat /\ Vblank \in 1..(Lines - 1) /\ PerLine \in Nat \ {0, 1}
    /\ Chains \subseteq Seq(0..(Vblank - 1))
    /\ \A c \in Chains : \A i, j \in DOMAIN c : i < j => c[i] < c[j]
    /\ NmiTimes \cup IrqTimes \cup RunTimes \cup StallTimes \subseteq Nat
    /\ {Latency, Overshoot} \subseteq Nat

(* What the code's budgets rest on: an NMI handler and the stall leave some *)
(* of the frame, the slices reach out of vblank, and the drain has two      *)
(* steps for each split.                                                    *)
ASSUME FrameBudgetAssumption ==
    /\ \A n \in NmiTimes, m \in StallTimes : n + m < PerFrame
    /\ MaxSlices \in Nat /\ MaxSlices >= Lines - Vblank
    /\ MaxDrain \in Nat /\ MaxDrain >= 2
    /\ \A c \in Chains : MaxDrain >= 2 * Len(c) + 2

VARIABLES beamPc,     \* where GameRunOneFrame is
          booted,     \* g_booted
          beam,       \* external: the beam, in clocks from line 0
          owed,       \* external: clocks the CPU is ahead of the beam
          left,       \* frame_end - master_cycles
          nmiOn,      \* external: NMITIMEN
          chain,      \* external: splits still to come, the first one armed
          inIrq,      \* external: a match latched and not yet serviced
          plan,       \* the splits the NMI of this frame asked for
          journal,    \* the raster journal: <<line, writer>>
          nmiLine,    \* dbgNmiBeamLine, -1 in a frame without an NMI
          turns       \* slices, then drain

beamVars == <<beamPc, booted, beam, owed, left, nmiOn, chain, inIrq, plan,
              journal, nmiLine, turns>>

Line == beam \div PerLine
Field == Lines * PerLine
ClocksTo(line) == (line * PerLine - beam) % Field

BeamInit ==
    /\ beamPc = "host" /\ booted = FALSE /\ beam = 0 /\ owed = 0 /\ left = 0
    /\ nmiOn = FALSE /\ chain = <<>> /\ inIrq = FALSE /\ plan = <<>>
    /\ journal = {} /\ nmiLine = -1 /\ turns = 0

(* snes_sync_master_clock after n clocks, no match pending: the beam stops *)
(* one clock past an armed match inside [beam, beam + clocks).             *)
Sync(n) ==
    LET clocks == owed + n
        match == chain # <<>> /\ ClocksTo(Head(chain)) < clocks
        moved == IF match THEN ClocksTo(Head(chain)) + 1 ELSE clocks
    IN /\ beam' = (beam + moved) % Field
       /\ owed' = clocks - moved
       /\ inIrq' = match

(* snes_beam_hold around a handler: its clocks are owed, the beam stands.  *)
Held(n) == beam' = beam /\ owed' = owed + n

(* The head of the frame and the NMI: vblank work, the journal, and a      *)
(* handler whose writes are journaled at the line the beam stands on.      *)
StartFrame ==
    /\ beamPc = "host" /\ beamPc' = IF booted THEN "stall" ELSE "slice"
    /\ booted' = TRUE
    /\ turns' = 0
    /\ IF booted /\ nmiOn
       THEN \E n \in NmiTimes, c \in Chains :
              /\ nmiLine' = Line
              /\ Held(n) /\ left' = PerFrame - n
              /\ journal' = IF Line < Vblank THEN {<<Line, "nmi">>} ELSE {}
              /\ chain' = c /\ plan' = c
       ELSE /\ nmiLine' = -1 /\ journal' = {} /\ left' = PerFrame
            /\ plan' = chain
            /\ UNCHANGED <<beam, owed, chain>>
    /\ UNCHANGED <<nmiOn, inIrq>>

(* dma_hdmaMasterEstimate, charged with the beam held.                     *)
Stall ==
    /\ beamPc = "stall" /\ beamPc' = "slice"
    /\ \E n \in StallTimes :
         Held(n) /\ left' = left - n
    /\ UNCHANGED <<booted, nmiOn, chain, inIrq, plan, journal, nmiLine, turns>>

InFrame == beamPc = "slice" /\ left > 0 /\ turns < MaxSlices

(* A slice without a pending interrupt: the mainline runs until it parks,  *)
(* a match pre-empts it, or the frame is over.                             *)
RunMainline ==
    /\ InFrame /\ ~inIrq /\ beamPc' = "ran"
    /\ \E n \in RunTimes, on \in BOOLEAN :
         /\ n <= left + Overshoot
         /\ Sync(n) /\ (inIrq' => owed' <= owed + Latency)
         /\ left' = left - n
         /\ nmiOn' = on
    /\ turns' = turns + 1
    /\ UNCHANGED <<booted, chain, plan, journal, nmiLine>>

\* The handler with the beam running: its clocks move the beam at once.
Handler_NotHeld(n) ==
    /\ beam' = (beam + owed + n) % Field /\ owed' = 0
    /\ inIrq' = FALSE
    /\ chain' = Tail(chain)
    /\ journal' = journal \cup {<<Line, "split">>}

(* A raster handler, the beam held: it writes the split's registers, and   *)
(* programs the next split of the chain.                                   *)
Handler(n) ==
    /\ Held(n)
    /\ inIrq' = FALSE
    /\ chain' = Tail(chain)
    /\ journal' = journal \cup {<<Line, "split">>}

\* The interrupt that was pending, or that the mainline's run latched.
ServiceSplit ==
    /\ inIrq
    /\ \/ InFrame /\ turns' = turns + 1
       \/ beamPc = "ran" /\ turns' = turns
    /\ \E n \in IrqTimes : Handler(n) /\ left' = left - n
    /\ beamPc' = "slice"
    /\ UNCHANGED <<booted, nmiOn, plan, nmiLine>>

(* The CPU is parked: on to one clock past the next match when that is     *)
(* nearer than a line, else a whole line, and not past the frame's end.    *)
ParkStep ==
    LET due == IF chain = <<>> \/ ClocksTo(Head(chain)) = 0 THEN 0
               ELSE ClocksTo(Head(chain)) + 1
        step == IF due = 0 \/ due > PerLine THEN PerLine ELSE due
    IN IF step > left THEN left ELSE step
Park ==
    /\ beamPc = "ran" /\ ~inIrq /\ left > 0
    /\ Sync(ParkStep) /\ left' = left - ParkStep
    /\ beamPc' = "slice"
    /\ UNCHANGED <<booted, nmiOn, chain, plan, journal, nmiLine, turns>>

\* The loop ends on CPU time, or gives up.
EndSlices ==
    /\ \/ beamPc = "ran" /\ ~inIrq /\ left <= 0
       \/ beamPc = "slice" /\ ~InFrame
    /\ beamPc' = "drain" /\ turns' = 0 /\ left' = 0
    /\ UNCHANGED <<booted, beam, owed, nmiOn, chain, inIrq, plan, journal, nmiLine>>

\* Draining only what the CPU is ahead, wherever in the field that ends.
Draining_DebtOnly == (owed > 0 \/ inIrq) /\ turns < MaxDrain
Draining == Line < Vblank /\ turns < MaxDrain

DrainSplit ==
    /\ beamPc = "drain" /\ Draining /\ inIrq
    /\ \E n \in IrqTimes : Handler(n)
    /\ turns' = turns + 1
    /\ UNCHANGED <<beamPc, booted, left, nmiOn, plan, nmiLine>>

DrainStep ==
    /\ beamPc = "drain" /\ Draining /\ ~inIrq
    /\ Sync(ClocksTo(Vblank))
    /\ turns' = turns + 1
    /\ UNCHANGED <<beamPc, booted, left, nmiOn, chain, plan, journal, nmiLine>>

EndFrame ==
    /\ beamPc = "drain" /\ ~Draining
    /\ beamPc' = "host"
    /\ UNCHANGED <<booted, beam, owed, left, nmiOn, chain, inIrq, plan, journal,
                   nmiLine, turns>>

BeamNext ==
    \/ StartFrame \/ Stall
    \/ RunMainline \/ ServiceSplit \/ Park \/ EndSlices
    \/ DrainSplit \/ DrainStep \/ EndFrame

BeamSpec == BeamInit /\ [][BeamNext]_beamVars

(***************************************************************************)
(* Properties                                                              *)
(***************************************************************************)
(* The NMI is a vblank event: whatever the handlers, the stalls and the    *)
(* mainline took in the frames before, the host's frame begins where the   *)
(* field's vblank does ("so the next NMI is delivered in vblank the way    *)
(* hardware delivers it", game_rtl.c:480).                                 *)
NmiInVblank == nmiLine # -1 => nmiLine >= Vblank

(* The picture of a frame has its splits, all of them, each on the line    *)
(* the scene asked for, and nothing of the NMI among them, although the    *)
(* CPU's time has run past the field by then and the chain programs each   *)
(* split only when the one before is serviced (game_rtl.c:403-410).        *)
BandsInPlace ==
    beamPc = "host" => /\ ~inIrq
                       /\ journal = {<<plan[i], "split">> : i \in DOMAIN plan}
=============================================================================
