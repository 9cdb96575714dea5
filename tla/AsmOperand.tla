---------------------------- MODULE AsmOperand -----------------------------
(***************************************************************************)
(* The operand text of src/src/backend/x86_64/assemble.c: mnemonic(),     *)
(* asm_address() and immediate(), the width suffixes, and how asm_text    *)
(* picks its source and destination text.  asm_address and immediate     *)
(* each format into one static buffer and return it, so a text is read    *)
(* when the line is printed, not when it was produced.                    *)
(*                                                                         *)
(* A text is a sequence of the pieces sprintf writes: a symbol name, a    *)
(* relocation suffix, a number with the sign characters in front of its  *)
(* digits, "(" with a register, "," with a register and a scale, and ")". *)
(* A register name is its row and column in reg_name (or the xmm, x87 or  *)
(* %rip name).  The register numbering of the front end is not in this    *)
(* repository: a general register is given by its reg_name row.           *)
(***************************************************************************)
EXTENDS Integers, Sequences

NoReg == [cls |-> "none"]
NoName == "-"

\* j = reg.w - 1; if (j == 3) j = 2; if (j == 7) j = 3;
Column(w) == CASE w - 1 = 3 -> 2 [] w - 1 = 7 -> 3 [] OTHER -> w - 1

\* mnemonic(reg): %rip, reg_name[4 * (r - 1) + j], xmm_name or x87_name.
Mnemonic(reg) ==
  CASE reg.cls = "ip" -> [t |-> "reg", cls |-> "ip"]
    [] reg.cls = "gpr" -> [t |-> "reg", cls |-> "gpr", row |-> reg.n, col |-> Column(reg.w)]
    [] reg.cls \in {"xmm", "st"} -> [t |-> "reg", cls |-> reg.cls, row |-> reg.n]

\* sprintf("%s%d", prefix, d): the prefix, then "-" for a negative d.
Num(prefix, d) ==
  [t |-> "num", sign |-> IF d < 0 THEN prefix \o "-" ELSE prefix,
   mag |-> IF d < 0 THEN -d ELSE d]

\* Mutant: a positive displacement after a symbol is printed without "+".
SymDispNoPlus(a) == IF a.disp # 0 THEN <<Num("", a.disp)>> ELSE <<>>

\* default: if (addr.disp != 0) "%s%d", (addr.disp > 0) ? "+" : "", disp
SymDisp(a) == IF a.disp # 0 THEN <<Num(IF a.disp > 0 THEN "+" ELSE "", a.disp)>> ELSE <<>>

(***************************************************************************)
(* asm_address: symbol with @GOTPCREL/@PLT or its displacement, or the     *)
(* bare displacement; then "(base" and ",index,mult" and ")" only when     *)
(* there is a base register.  Registers are printed 8 bytes wide.          *)
(***************************************************************************)
AsmAddress(a) ==
  LET q(r) == Mnemonic([r EXCEPT !.w = 8])
      head == IF a.sym # NoName
              THEN <<[t |-> "sym", s |-> a.sym]>> \o
                   CASE a.type = "got" -> <<[t |-> "reloc", s |-> "GOTPCREL"]>>
                     [] a.type = "plt" -> <<[t |-> "reloc", s |-> "PLT"]>>
                     [] OTHER -> SymDisp(a)
              ELSE IF a.disp # 0 THEN <<Num("", a.disp)>> ELSE <<>>
      tail == IF a.base.cls = "none" THEN <<>>
              ELSE <<[t |-> "(", r |-> q(a.base)]>>
                   \o (IF a.index.cls = "none" THEN <<>>
                       ELSE <<[t |-> ",", r |-> q(a.index), m |-> a.mult]>>)
                   \o <<[t |-> ")"]>>
  IN head \o tail

\* immediate(): "$value" of the integer member for its width.  An IMM_ADDR
\* is returned as asm_address's text, without "$": a call target.
ImmText(imm) == <<[t |-> "$", v |-> imm.v]>>

\* SUFFIX, X87SFX, X87IFX: the size letter of an instruction.
Suffix(w) == CASE w = 1 -> "b" [] w = 2 -> "w" [] w = 4 -> "l" [] OTHER -> "q"
X87Sfx(w) == CASE w = 4 -> "s" [] w = 8 -> "l" [] OTHER -> "t"
X87Ifx(w) == CASE w = 2 -> "s" [] w = 4 -> "l" [] OTHER -> "q"

SrcShapes(op) ==
  CASE op \in {"REG", "REG_REG", "REG_MEM"} -> "reg"
    [] op \in {"IMM", "IMM_REG", "IMM_MEM"} -> "imm"
    [] op \in {"MEM", "MEM_REG"} -> "mem"
    [] OTHER -> "none"

DstShapes(op) ==
  CASE op \in {"REG_REG", "MEM_REG", "IMM_REG"} -> "reg"
    [] op \in {"REG_MEM", "IMM_MEM"} -> "mem"
    [] OTHER -> "none"

(***************************************************************************)
(* asm_text's two switches.  Each yields where its text lives (a constant  *)
(* name, the label string, or one of the two static buffers), what it      *)
(* writes into a buffer, and the width it sets.                             *)
(***************************************************************************)
Source(i) ==
  CASE SrcShapes(i.op) = "reg" ->
         [at |-> "const", text |-> <<Mnemonic(i.src)>>, buf |-> "none", w |-> i.src.w]
    [] SrcShapes(i.op) = "imm" /\ i.jmp ->
         [at |-> "const", text |-> <<[t |-> "sym", s |-> i.src.label]>>, buf |-> "none", w |-> 0]
    [] SrcShapes(i.op) = "imm" /\ i.src.type = "int" ->
         [at |-> "imm", text |-> ImmText(i.src), buf |-> "imm", w |-> i.src.w]
    [] SrcShapes(i.op) = "imm" ->
         [at |-> "addr", text |-> AsmAddress(i.src.addr), buf |-> "addr", w |-> 8]
    [] SrcShapes(i.op) = "mem" ->
         [at |-> "addr", text |-> AsmAddress(i.src.addr), buf |-> "addr", w |-> i.src.w]
    [] OTHER -> [at |-> "const", text |-> <<>>, buf |-> "none", w |-> 0]

Destin(i) ==
  CASE DstShapes(i.op) = "reg" ->
         [at |-> "const", text |-> <<Mnemonic(i.dst)>>, buf |-> "none", w |-> i.dst.w]
    [] DstShapes(i.op) = "mem" ->
         [at |-> "addr", text |-> AsmAddress(i.dst.addr), buf |-> "addr", w |-> i.dst.w]
    [] OTHER -> [at |-> "const", text |-> <<>>, buf |-> "none", w |-> 0]

\* The text at a pointer once both operands have been produced: a buffer
\* holds what was written into it last.
Deref(p, d) ==
  CASE p.at = "const" -> p.text
    [] p.at = d.buf -> d.text
    [] OTHER -> p.text

\* The size letter the opcode's macro prints (U2 from wd, U1 from ws, the
\* x87 macros from ws, none for I0/I1/I2).
SizeLetter(i, ws, wd) ==
  CASE i.fmt = "U2" -> Suffix(wd)
    [] i.fmt = "U2S" -> Suffix(ws)
    [] i.fmt = "U1" -> Suffix(ws)
    [] i.fmt = "X1" -> X87Sfx(ws)
    [] i.fmt = "Y1" -> X87Ifx(ws)
    [] OTHER -> ""

\* The line asm_text writes for i: size letter, source text, destination.
InsnLine(i) ==
  LET s == Source(i)
      d == Destin(i)
  IN [size |-> SizeLetter(i, s.w, d.w), src |-> Deref(s, d), dst |-> Deref(d, d)]
=============================================================================
