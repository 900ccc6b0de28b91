------------------------------ MODULE OamClip ------------------------------
(***************************************************************************)
(* The sprite X clip of the OAM emitter and the patch that widens it.      *)
(*                                                                         *)
(* gwed_ws_patch.c replaces thirteen bytes of 65816 code at $00:A09F.  The *)
(* bytes it writes depend on the margin, the carry the last comparison     *)
(* leaves is consumed later as the ninth bit of the sprite's X, and the    *)
(* PPU decodes those nine bits with a bound that depends on the margin     *)
(* again.  This module runs both byte sequences, instruction by            *)
(* instruction, for one object at a time.                                  *)
(***************************************************************************)
EXTENDS Integers

CONSTANTS
  ClipMargins,  \* the per-side margins the patch is emitted for
  Words         \* the accumulator values (signed X as an unsigned 16-bit word)

Site       == 41119                      \* $A09F
SiteLen    == 13
AcceptPc   == Site + SiteLen             \* $A0AC, the PHP of the emitter
RejectPc   == 41230                      \* $A10E, the skip continuation
SpriteBias == 32

ASSUME OamClipAssumption ==
  /\ ClipMargins \subseteq Nat
  /\ \A w \in Words : w \in Nat /\ w < 65536

(* C's `v & 0xFF` and `(v >> 8) & 0xFF` on a two's-complement int. *)
LoByte(v) == v % 256
HiByte(v) == (v \div 256) % 256

(* A byte read as the signed displacement of a relative branch. *)
Displacement(b) == IF b >= 128 THEN b - 256 ELSE b

(* The 16-bit accumulator read as a signed coordinate. *)
Signed(w) == IF w >= 32768 THEN w - 65536 ELSE w

-----------------------------------------------------------------------------
(* The two byte sequences. *)

(* kSites[0].expect: CMP #$0100 / BCC +8 / CMP #$FFE0 / BCS +3 / JMP $A10E. *)
VanillaBytes == << 201, 0, 1,  144, 8,  201, 224, 255,  176, 3,  76, 14, 161 >>

(* Mutant: the displacement counted from the start of the site. *)
RejectBranch_FromSite == RejectPc - Site

(* The margins for which emit_oam_x_clip returns 0 and writes nothing. *)
RejectBranch == RejectPc - (Site + 10)
EmitDeclines(m) ==
  \/ m <= 0
  \/ 256 + m - 1 >= 512 - (SpriteBias + m)
  \/ RejectBranch < -128
  \/ RejectBranch > 127

(* Mutant: the left bound one too high. *)
EmitBytes_LeftOffByOne(m) ==
  LET right == 256 + m
      left  == -(SpriteBias + m) + 1
  IN << 201, LoByte(right), HiByte(right),  144, 5,
        201, LoByte(left), HiByte(left),    144, LoByte(RejectBranch),
        201, 0, 1 >>

(* Mutant: the last immediate with its bytes swapped. *)
EmitBytes_SwappedBytes(m) ==
  LET right == 256 + m
      left  == -(SpriteBias + m)
  IN << 201, LoByte(right), HiByte(right),  144, 5,
        201, LoByte(left), HiByte(left),    144, LoByte(RejectBranch),
        201, 1, 0 >>

(* The replacement: two comparisons that accept or reject, and a third that
   regenerates the ninth-bit carry. *)
EmitBytes(m) ==
  LET right == 256 + m
      left  == -(SpriteBias + m)
  IN << 201, LoByte(right), HiByte(right),  144, 5,
        201, LoByte(left), HiByte(left),    144, LoByte(RejectBranch),
        201, 0, 1 >>

(* Mutant: the PPU keeps the native bound. *)
DecodeOamX_Native(raw, m) == IF raw >= 256 THEN raw - 512 ELSE raw

(* ppu.c PpuDecodeOamX without hints: nine raw bits back to a coordinate. *)
DecodeOamX(raw, m) == IF raw >= 256 + m THEN raw - 512 ELSE raw

-----------------------------------------------------------------------------
VARIABLES
  code,     \* which bytes are at the site: "vanilla" or "patched"
  margin,   \* the session's margin
  x,        \* the accumulator at $A09F
  pc,       \* the program counter
  carry     \* the carry flag

clipVars == << code, margin, x, pc, carry >>

Bytes == IF code = "patched" THEN EmitBytes(margin) ELSE VanillaBytes

Byte(offset) == Bytes[pc - Site + offset + 1]
Immediate    == Byte(1) + 256 * Byte(2)
InSite       == pc \in Site .. Site + SiteLen - 1

ClipInit ==
  /\ code \in { "vanilla", "patched" }
  /\ margin \in ClipMargins
  /\ code = "patched" => ~EmitDeclines(margin)
  /\ x \in Words
  /\ pc = Site
  /\ carry \in BOOLEAN          \* whatever the ADC before the clip left

(* CMP #imm16: the carry is set when A is at or above the immediate. *)
Cmp ==
  /\ InSite /\ Byte(0) = 201
  /\ carry' = (x >= Immediate)
  /\ pc' = pc + 3
  /\ UNCHANGED << code, margin, x >>

(* Mutant: the branch is relative to its own opcode. *)
Branch_FromOpcode(opcode, taken) ==
  /\ InSite /\ Byte(0) = opcode
  /\ pc' = pc + (IF taken THEN Displacement(Byte(1)) ELSE 0)
  /\ UNCHANGED << code, margin, x, carry >>

(* BCC and BCS, relative to the byte after the branch. *)
Branch(opcode, taken) ==
  /\ InSite /\ Byte(0) = opcode
  /\ pc' = pc + 2 + (IF taken THEN Displacement(Byte(1)) ELSE 0)
  /\ UNCHANGED << code, margin, x, carry >>

Bcc == Branch(144, ~carry)
Bcs == Branch(176, carry)

Jmp ==
  /\ InSite /\ Byte(0) = 76
  /\ pc' = Immediate
  /\ UNCHANGED << code, margin, x, carry >>

ClipNext == Cmp \/ Bcc \/ Bcs \/ Jmp

ClipSpec == ClipInit /\ [][ClipNext]_clipVars /\ WF_clipVars(ClipNext)

-----------------------------------------------------------------------------
(* What the emitter is supposed to do with an X, independent of any bytes. *)

Native(v)  == -32 <= v /\ v <= 255
Widened(v, m) == -(32 + m) <= v /\ v <= 255 + m

Accepts(v) == IF code = "patched" THEN Widened(v, margin) ELSE Native(v)

(* The nine bits the emitter stores: the low byte of X and, as bit 8, the
   carry the accepting path arrived with. *)
RawX == (x % 256) + (IF carry THEN 256 ELSE 0)

ClipTypeOK ==
  /\ code \in { "vanilla", "patched" }
  /\ margin \in ClipMargins
  /\ code = "patched" => ~EmitDeclines(margin)
  /\ x \in Words
  /\ pc \in Site .. RejectPc
  /\ carry \in BOOLEAN

(* Control leaves the thirteen bytes only at the two continuations, and the
   accept set is exactly the one verify_oam_patch.py asks for: an X reaches
   the PHP iff it is in [-(32+m), 255+m] (patched) or [-32, 255] (vanilla). *)
AcceptSetExact ==
  /\ pc \notin Site .. Site + SiteLen - 1 => pc \in { AcceptPc, RejectPc }
  /\ pc = AcceptPc => Accepts(Signed(x))
  /\ pc = RejectPc => ~Accepts(Signed(x))

(* Whatever path accepted it, a sprite's nine stored bits decode at this
   margin to the coordinate the object had: no right-margin sprite loses its
   ninth bit and no left one is read as a right one. *)
AcceptedXRoundTrips ==
  pc = AcceptPc /\ ~EmitDeclines(margin) => DecodeOamX(RawX, margin) = Signed(x)

(* Every X vanilla accepts arrives with the carry vanilla gave it, which
   $00:A0DB consumes: clear on screen, set to the left of it. *)
NativeCarryKept ==
  pc = AcceptPc /\ Native(Signed(x)) => (carry <=> Signed(x) < 0)

(* The emitter is never left inside the site: every object is accepted or
   skipped. *)
EveryXIsDecided == <>(pc \in { AcceptPc, RejectPc })
=============================================================================
