---------------------------- MODULE PatchOffset ----------------------------
(***************************************************************************)
(* The write of a rip-relative displacement into an encoded instruction   *)
(* by jit_update_jump (src/src/backend/x86_64/jit.c): the byte index n of *)
(* the 4-byte field, guessed from the first bytes of the encoding and the *)
(* operand shape, and the little-endian write of the 32-bit value d.      *)
(*                                                                         *)
(* An encoding is built from an x86-64 instruction form: legacy prefix,   *)
(* REX prefix, 0F escape, opcode, ModRM (mod 00, r/m 101: rip-relative),  *)
(* the disp32 field (zero until patched) and an immediate.  The reference *)
(* position of the field is the byte after the ModRM byte.                *)
(***************************************************************************)
EXTENDS Integers, Sequences

CONSTANTS
  Forms,      \* instruction forms the encoder may produce
  Disps       \* displacements the relocation may write

VARIABLES
  form,       \* the instruction being relocated
  d,          \* the value written: laddr - base (+ disp)
  code,       \* jc->code.val[0 .. len-1], as a sequence of bytes
  done        \* the relocation has been applied

pvars == <<form, d, code, done>>

ImmByte == 17

Encode(f) ==
  f.pre \o f.rex \o f.esc \o <<f.op, f.modrm>> \o <<0, 0, 0, 0>>
        \o [i \in 1..f.imm |-> ImmByte]

\* The 0-based index of the disp32 field in an encoding of form f.
DispIndex(f) == Len(f.pre) + Len(f.rex) + Len(f.esc) + 2

\* Byte k (0-based) of d as a 32-bit two's-complement value: (d >> 8k) & 0xFF.
Byte(v, k) == (v \div (256 ^ k)) % 256

\* Mutant: the F2/F3 0F test is missing.
PatchIndexNoSse(c, optype) ==
  IF optype \in {"IMM_MEM", "REG_MEM"}
  THEN IF c[1] = 102 \/ (72 <= c[1] /\ c[1] <= 79) THEN 3 ELSE 2
  ELSE Len(c) - 4

(***************************************************************************)
(* n: for a memory destination (OPT_IMM_MEM, OPT_REG_MEM), 4 after F2/F3  *)
(* 0F in an encoding of at least 8 bytes, 3 after 66 or REX.W             *)
(* (0x48..0x4F), else 2; for a memory source the last 4 bytes.            *)
(***************************************************************************)
PatchIndex(c, optype) ==
  IF optype \in {"IMM_MEM", "REG_MEM"}
  THEN IF Len(c) >= 8 /\ c[1] \in {242, 243} /\ c[2] = 15 THEN 4
       ELSE IF c[1] = 102 \/ (72 <= c[1] /\ c[1] <= 79) THEN 3 ELSE 2
  ELSE Len(c) - 4

\* code.val[n++] = d & 0xFF, (d >> 8) & 0xFF, (d >> 16) & 0xFF, d >> 24.
WriteDisp(c, n, v) ==
  [i \in 1..Len(c) |-> IF n < i /\ i <= n + 4 THEN Byte(v, i - n - 1) ELSE c[i]]

PInit ==
  /\ form \in Forms
  /\ d \in Disps
  /\ code = Encode(form)
  /\ done = FALSE

\* The relocation step of jit_update_jump for one resolved instruction.
Patch ==
  /\ ~done
  /\ code' = WriteDisp(code, PatchIndex(code, form.optype), d)
  /\ done' = TRUE
  /\ UNCHANGED <<form, d>>

PSpec == PInit /\ [][Patch]_pvars

-----------------------------------------------------------------------------
\* After the patch, the disp32 field that follows the ModRM byte holds d in
\* little-endian order and every other byte of the instruction (prefixes,
\* opcode, ModRM, immediate) is as encode() produced it.
DispFieldPatched ==
  done =>
    \A i \in 1..Len(code) :
      LET k == i - 1 - DispIndex(form)
      IN code[i] = IF k \in 0..3 THEN Byte(d, k) ELSE Encode(form)[i]
=============================================================================
