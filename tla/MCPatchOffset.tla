--------------------------- MODULE MCPatchOffset ---------------------------
(***************************************************************************)
(* x86-64 forms with a rip-relative memory operand, as encode() would     *)
(* produce them for the instructions asm_text knows (mov, add, movss,     *)
(* movsd, movaps, jmp, fld).  Bytes are written in decimal: 102 = 0x66,   *)
(* 242/243 = 0xF2/0xF3, 15 = 0x0F, 64..79 = REX 0x40..0x4F.               *)
(***************************************************************************)
EXTENDS PatchOffset

F(optype, pre, rex, esc, op, modrm, imm) ==
  [optype |-> optype, pre |-> pre, rex |-> rex, esc |-> esc, op |-> op,
   modrm |-> modrm, imm |-> imm]

\* Forms whose prefixes the guess in jit_update_jump was written for.
MCForms ==
  { F("IMM_MEM", <<>>, <<>>, <<>>, 198, 5, 1),        \* movb $i, g(%rip)
    F("IMM_MEM", <<102>>, <<>>, <<>>, 199, 5, 2),     \* movw $i, g(%rip)
    F("IMM_MEM", <<>>, <<>>, <<>>, 199, 5, 4),        \* movl $i, g(%rip)
    F("IMM_MEM", <<>>, <<72>>, <<>>, 199, 5, 4),      \* movq $i, g(%rip)
    F("IMM_MEM", <<>>, <<72>>, <<>>, 131, 5, 1),      \* addq $i8, g(%rip)
    F("REG_MEM", <<>>, <<>>, <<>>, 137, 5, 0),        \* movl %eax, g(%rip)
    F("REG_MEM", <<102>>, <<>>, <<>>, 137, 13, 0),    \* movw %cx, g(%rip)
    F("REG_MEM", <<>>, <<72>>, <<>>, 137, 5, 0),      \* movq %rax, g(%rip)
    F("REG_MEM", <<242>>, <<>>, <<15>>, 17, 5, 0),    \* movsd %xmm0, g(%rip)
    F("REG_MEM", <<243>>, <<>>, <<15>>, 17, 5, 0),    \* movss %xmm0, g(%rip)
    F("MEM_REG", <<>>, <<72>>, <<>>, 139, 5, 0),      \* movq g(%rip), %rax
    F("MEM_REG", <<242>>, <<68>>, <<15>>, 16, 5, 0),  \* movsd g(%rip), %xmm8
    F("MEM", <<>>, <<>>, <<>>, 255, 37, 0),           \* jmp *g(%rip)
    F("MEM", <<>>, <<>>, <<>>, 219, 45, 0) }          \* fldt g(%rip)

\* Stores whose encoding starts with another REX prefix or with 0F.
MCAllForms ==
  MCForms \cup
  { F("REG_MEM", <<>>, <<68>>, <<>>, 137, 5, 0),      \* movl %r8d, g(%rip)
    F("REG_MEM", <<>>, <<64>>, <<>>, 136, 53, 0),     \* movb %sil, g(%rip)
    F("REG_MEM", <<242>>, <<68>>, <<15>>, 17, 5, 0),  \* movsd %xmm8, g(%rip)
    F("REG_MEM", <<>>, <<>>, <<15>>, 41, 5, 0) }      \* movaps %xmm0, g(%rip)
\* Displacements backwards and forwards, one spanning three bytes.
MCDisps == {-5, 1, 258, -65536}
=============================================================================
