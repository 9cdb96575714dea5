--------------------------- MODULE MCTextBackend ---------------------------
(***************************************************************************)
(* Instantiation of TextBackend for TLC: two functions, a local label, an *)
(* initialized object, a tentative definition, a string literal and       *)
(* float and double constants, declared in any order.                     *)
(***************************************************************************)
EXTENDS TextBackend

Sym(name, kind, sz) == [name |-> name, kind |-> kind, size |-> sz]

MCTextSymbols ==
  {Sym("main", "function", 0), Sym("f", "function", 0), Sym(".L1", "label", 0),
   Sym("g", "data", 0), Sym("t", "tentative", 4), Sym("s", "string", 2),
   Sym("c", "double", 0)}

\* Operands: general registers by reg_name row (0 = a, 1 = c, 5 = bp, 8 = r8,
\* 12 = r12), %rip, xmm registers, addresses, immediates, call targets.
R(n, w) == [cls |-> "gpr", n |-> n, w |-> w]
RIP == [cls |-> "ip", w |-> 8]
Xmm(n) == [cls |-> "xmm", n |-> n, w |-> 8]
NoOpd == [cls |-> "none", w |-> 0]
A(sym, type, disp, base, index, mult) ==
  [sym |-> sym, type |-> type, disp |-> disp, base |-> base, index |-> index,
   mult |-> mult]
Mem(a, w) == [addr |-> a, w |-> w]
Imm(v, w) == [type |-> "int", v |-> v, w |-> w]
Target(a) == [type |-> "addr", addr |-> a, w |-> 8]
Ins(op, fmt, jmp, src, dst) == [op |-> op, fmt |-> fmt, jmp |-> jmp, src |-> src, dst |-> dst]

\* The instruction shapes the front end passes to asm_text.
MCTextInstrs ==
  { Ins("REG_REG", "U2", FALSE, R(0, 4), R(1, 4)),                      \* movl %eax, %ecx
    Ins("MEM_REG", "U2", FALSE, Mem(A("g", "plain", -8, RIP, NoReg, 0), 8), R(0, 8)),
    Ins("REG_MEM", "U2", FALSE, R(8, 2), Mem(A("g", "plain", 3, RIP, NoReg, 0), 2)),
    Ins("IMM_MEM", "U2", FALSE, Imm(-2, 2), Mem(A(NoName, "plain", 16, R(5, 8), R(1, 8), 4), 2)),
    Ins("IMM_REG", "U2", FALSE, Imm(7, 1), R(0, 1)),                    \* movb $7, %al
    Ins("IMM", "I1", FALSE, Target(A("printf", "plt", 0, NoReg, NoReg, 0)), NoOpd),
    Ins("MEM_REG", "U2", FALSE, Mem(A("f", "got", 0, RIP, NoReg, 0), 8), R(0, 8)),
    Ins("IMM", "I1", TRUE, [label |-> ".L1", w |-> 0], NoOpd),          \* jmp .L1
    Ins("REG_REG", "U2S", FALSE, R(0, 4), Xmm(0)),                      \* cvtsi2sdl
    Ins("MEM", "X1", FALSE, Mem(A("c", "plain", 0, RIP, NoReg, 0), 16), NoOpd),
    Ins("MEM", "Y1", FALSE, Mem(A(NoName, "plain", -4, R(5, 8), NoReg, 0), 4), NoOpd),
    Ins("REG", "U1", FALSE, R(12, 8), NoOpd),                           \* pushq %r12
    Ins("REG_MEM", "I2", FALSE, Xmm(1), Mem(A(NoName, "plain", 0, R(0, 8), NoReg, 0), 8)),
    Ins("NONE", "I0", FALSE, NoOpd, NoOpd) }                            \* ret

MCTextDatas ==
  {[type |-> "int", w |-> 4], [type |-> "string", len |-> 2, w |-> 3]}

=============================================================================
