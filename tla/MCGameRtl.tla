----------------------------- MODULE MCGameRtl -----------------------------
(* Three cursors that are code, the reset vector one of them, two that are not,
   one snapshot and three fields over all sessions: enough to save on one
   timeline, leave it, and come back from another or from another session. *)
EXTENDS GameRtl

CONSTANTS reset, loop, wait, zero, mmio, file

MCCode     == { reset, loop, wait }
MCWild     == { zero, mmio }
MCSlot     == { file }
MCFieldMax == 3
=============================================================================
