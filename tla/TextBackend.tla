---------------------------- MODULE TextBackend ----------------------------
(***************************************************************************)
(* The textual assembler backend of src/src/backend/x86_64/assemble.c:    *)
(* the function context current_symbol, the flush that closes a function  *)
(* with ".size f, .-f", and the stream of directives written to           *)
(* asm_output.                                                             *)
(*                                                                         *)
(* Text is abstracted to one record per directive group: d names the      *)
(* group, sym the symbol it belongs to and n the bytes it assembles to.   *)
(* Mnemonics, operand syntax and linkage directives (.globl/.local) are   *)
(* left out; no property is about them.                                   *)
(***************************************************************************)
EXTENDS Integers, Sequences, SequencesExt, FiniteSets, AsmOperand

CONSTANTS
  Symbols,     \* the symbols the front end declares, each exactly once
  Instrs,      \* the instructions it may emit
  Datas,       \* the data immediates it may emit
  MaxEmits,    \* bound on emit_instruction + emit_data calls
  InBody,      \* symbol kinds the front end may declare inside a function
               \* body without ending it
  NoSym

ASSUME MaxEmits \in Nat

VARIABLES
  asmPhase,   \* "uninit", "emitting", "closed"
  current,    \* current_symbol
  out,        \* the directives written to asm_output, in order
  feSym,      \* the symbol the front end declared last
  declared,   \* the symbols the front end has declared
  emits,
  fn          \* the function whose body the front end is emitting, or NoSym

tvars == <<asmPhase, current, out, feSym, declared, emits, fn>>

Dir(d, sym, n) == [d |-> d, sym |-> sym, n |-> n]

\* The symbol kinds the model uses, as struct symbol's symtype: SYM_DEFINITION
\* (function, data), SYM_TENTATIVE, SYM_STRING_VALUE, SYM_CONSTANT (float,
\* double, ldouble), SYM_LABEL, SYM_TABLE and SYM_TABLE_ENTRY.
IsFunctionDef(s) == s # NoSym /\ s.kind = "function"

(***************************************************************************)
(* asm_flush: a current function definition gets its closing .size; the  *)
(* context is then cleared in every case.                                  *)
(***************************************************************************)
Flush(cur) == IF IsFunctionDef(cur) THEN <<Dir("size", cur.name, 0)>> ELSE <<>>

(***************************************************************************)
(* The directives of each case of asm_symbol's switch and the bytes they  *)
(* assemble to: .comm size; a string with its terminator; a float as one  *)
(* .long, a double as one .quad, a long double as two .quad; nothing for  *)
(* SYM_TABLE and SYM_TABLE_ENTRY (the default case).                      *)
(***************************************************************************)
ConstText == [float |-> 4, double |-> 8, ldouble |-> 16]

SymbolText(s) ==
  CASE s.kind = "tentative" -> <<Dir("comm", s.name, s.size)>>
    [] s.kind = "function" -> <<Dir("func", s.name, 0)>>
    [] s.kind = "data" -> <<Dir("object", s.name, 0)>>
    [] s.kind = "string" -> <<Dir("string", s.name, s.size + 1)>>
    [] s.kind \in {"float", "double", "ldouble"} ->
         <<Dir("const", s.name, ConstText[s.kind])>>
    [] s.kind = "label" -> <<Dir("label", s.name, 0)>>
    [] s.kind \in {"table", "entry"} -> <<>>

\* Mutant: every declaration, labels included, flushes the function.
FlushesAlways(s) == TRUE

\* if (sym->symtype != SYM_LABEL) { asm_flush(); current_symbol = sym; }
Flushes(s) == s.kind # "label"

\* Mutant: a label also becomes current_symbol.
TakesContextAlways(s) == TRUE

TakesContext(s) == s.kind # "label"

\* The function body the front end is in after declaring s.
BodyAfter(s) ==
  CASE s.kind = "function" -> s
    [] s.kind = "label" \/ s.kind \in InBody -> fn
    [] OTHER -> NoSym

AsmInit ==
  /\ asmPhase = "uninit"
  /\ out' = <<Dir("file", NoSym, 0)>>
  /\ asmPhase' = "emitting"
  /\ UNCHANGED <<current, feSym, declared, emits, fn>>

\* Mutant: only a new definition flushes the previous context.
DeclareFlushingDefinitions(cur, s) ==
  IF s.kind \in {"function", "data"} THEN Flush(cur) \o SymbolText(s)
  ELSE SymbolText(s)

\* asm_flush() for the previous context, then the new symbol's directives.
Declare(cur, s) == Flush(cur) \o SymbolText(s)

AsmSymbol(s) ==
  /\ asmPhase = "emitting"
  /\ s \notin declared
  /\ out' = out \o (IF Flushes(s) THEN Declare(current, s) ELSE SymbolText(s))
  /\ current' = IF TakesContext(s) THEN s ELSE current
  /\ feSym' = s
  /\ declared' = declared \cup {s}
  /\ fn' = BodyAfter(s)
  /\ UNCHANGED <<asmPhase, emits>>

(***************************************************************************)
(* asm_text: one instruction line; it belongs to the body being emitted.  *)
(* Its text is InsnLine(i) of AsmOperand; the stream keeps only whose     *)
(* line it is.                                                             *)
(***************************************************************************)
AsmText(i) ==
  /\ asmPhase = "emitting"
  /\ feSym # NoSym /\ feSym.kind \in {"function", "label"}
  /\ fn # NoSym
  /\ emits < MaxEmits
  /\ out' = Append(out, Dir("insn", fn.name, 0))
  /\ emits' = emits + 1
  /\ UNCHANGED <<asmPhase, current, feSym, declared, fn>>

(***************************************************************************)
(* asm_data: .byte/.short/.int/.quad by width, .quad for an address, and  *)
(* .ascii for a string of exactly data.w bytes, else .string (w = len+1). *)
(***************************************************************************)
\* Mutant: the .ascii/.string test is inverted.
DataTextSwapped(d) ==
  CASE d.type = "int" -> d.w
    [] d.type = "addr" -> 8
    [] d.type = "string" -> IF d.w = d.len THEN d.len + 1 ELSE d.len

DataText(d) ==
  CASE d.type = "int" -> d.w
    [] d.type = "addr" -> 8
    [] d.type = "string" -> IF d.w = d.len THEN d.len ELSE d.len + 1

AsmData(d) ==
  /\ asmPhase = "emitting"
  /\ feSym # NoSym /\ feSym.kind = "data"
  /\ emits < MaxEmits
  /\ out' = Append(out, Dir("data", feSym.name, DataText(d)))
  /\ emits' = emits + 1
  /\ UNCHANGED <<asmPhase, current, feSym, declared, fn>>

(***************************************************************************)
(* Closing the unit: the front end's final asm_flush.                     *)
(***************************************************************************)
AsmFinalize ==
  /\ asmPhase = "emitting"
  /\ declared = Symbols
  /\ out' = out \o Flush(current)
  /\ current' = NoSym
  /\ asmPhase' = "closed"
  /\ UNCHANGED <<feSym, declared, emits, fn>>

TInit ==
  /\ asmPhase = "uninit"
  /\ current = NoSym
  /\ out = <<>>
  /\ feSym = NoSym
  /\ declared = {}
  /\ emits = 0
  /\ fn = NoSym

TNext ==
  \/ AsmInit
  \/ \E s \in Symbols : AsmSymbol(s)
  \/ \E i \in Instrs : AsmText(i)
  \/ \E d \in Datas : AsmData(d)
  \/ AsmFinalize

\* The front end runs the unit to its end: it keeps declaring symbols while
\* some are left and then closes the unit.
TFairness ==
  /\ WF_tvars(\E s \in Symbols : AsmSymbol(s))
  /\ WF_tvars(AsmInit)
  /\ WF_tvars(AsmFinalize)

TSpec == TInit /\ [][TNext]_tvars /\ TFairness

-----------------------------------------------------------------------------
(***************************************************************************)
(* Properties.                                                             *)
(***************************************************************************)
TTypeOK ==
  /\ asmPhase \in {"uninit", "emitting", "closed"}
  /\ current \in {s \in Symbols : s.kind # "label"} \cup {NoSym}
  /\ fn \in {s \in Symbols : s.kind = "function"} \cup {NoSym}
  /\ \A k \in 1..Len(out) :
       out[k].d \in {"file", "comm", "func", "object", "string", "const",
                     "label", "insn", "data", "size"}

Functions == {s \in Symbols : s.kind = "function"}

SizesOf(f) == {k \in 1..Len(out) : out[k].d = "size" /\ out[k].sym = f.name}

\* The flush-on-next-declare discipline: a function's ".size f, .-f" comes
\* after the last instruction of f's body (no instruction of f follows it,
\* or the size would be too small), and no function is closed twice.
SizeClosesBody ==
  \A f \in Functions :
    /\ Cardinality(SizesOf(f)) <= 1
    /\ \A k \in SizesOf(f) :
         \A j \in k + 1..Len(out) : ~(out[j].d = "insn" /\ out[j].sym = f.name)

(***************************************************************************)
(* How the GNU assembler reads an operand text back, and what an operand   *)
(* means.  A general register name's column gives its width (1, 2, 4, 8).  *)
(* After a symbol, a number is an offset only with an explicit "+" or "-"; *)
(* "g8" would be another symbol.  A call target reads as its address.     *)
(***************************************************************************)
ReadReg(x) ==
  CASE x.cls = "gpr" -> [cls |-> "gpr", n |-> x.row, w |-> 2^x.col]
    [] x.cls = "ip" -> [cls |-> "ip"]
    [] OTHER -> [cls |-> x.cls, n |-> x.row]

RegMeaning(r) ==
  CASE r.cls = "gpr" -> [cls |-> "gpr", n |-> r.n, w |-> r.w]
    [] r.cls = "ip" -> [cls |-> "ip"]
    [] OTHER -> [cls |-> r.cls, n |-> r.n]

Absent == [t |-> "absent"]

Piece(text, k) ==
  LET p == SelectSeq(text, LAMBDA x : x.t = k) IN IF p = <<>> THEN Absent ELSE Head(p)

ReadAddress(text) ==
  LET sym == Piece(text, "sym")
      num == Piece(text, "num")
      rel == Piece(text, "reloc")
      open == Piece(text, "(")
      idx == Piece(text, ",")
  IN IF num.t # "absent" /\ sym.t # "absent" /\ num.sign \notin {"+", "-"}
     THEN [unreadable |-> text]
     ELSE
     [sym |-> IF sym.t = "absent" THEN NoName ELSE sym.s,
      reloc |-> IF rel.t = "absent" THEN "none" ELSE rel.s,
      disp |-> CASE num.t = "absent" -> 0
                 [] num.sign = "-" -> -num.mag
                 [] OTHER -> num.mag,
      base |-> IF open.t = "absent" THEN NoReg ELSE ReadReg(open.r),
      index |-> IF idx.t = "absent" THEN NoReg ELSE ReadReg(idx.r),
      mult |-> IF idx.t = "absent" THEN 0 ELSE idx.m]

AddressMeaning(a) ==
  LET wide(r) == IF r.cls = "none" THEN NoReg ELSE RegMeaning([r EXCEPT !.w = 8])
  IN [sym |-> a.sym,
      reloc |-> CASE a.type = "got" -> "GOTPCREL" [] a.type = "plt" -> "PLT"
                  [] OTHER -> "none",
      disp |-> a.disp, base |-> wide(a.base),
      index |-> wide(a.index),
      mult |-> IF a.index.cls = "none" THEN 0 ELSE a.mult]

NoOperand == [operand |-> "none"]

ReadOperand(text) ==
  CASE text = <<>> -> NoOperand
    [] Head(text).t = "reg" -> ReadReg(Head(text))
    [] Head(text).t = "$" -> [imm |-> Head(text).v]
    [] OTHER -> ReadAddress(text)

OperandMeaning(o, shape, jmp) ==
  CASE shape = "none" -> NoOperand
    [] shape = "reg" -> RegMeaning(o)
    [] shape = "mem" -> AddressMeaning(o.addr)
    [] jmp -> AddressMeaning([sym |-> o.label, type |-> "plain", disp |-> 0,
                              base |-> NoReg, index |-> NoReg, mult |-> 0])
    [] o.type = "int" -> [imm |-> o.v]
    [] OTHER -> AddressMeaning(o.addr)

\* The width a size letter tells the assembler, per macro family.
SizeRead(fmt, c) ==
  CASE fmt \in {"U2", "U2S", "U1"} -> [b |-> 1, w |-> 2, l |-> 4, q |-> 8][c]
    [] fmt = "X1" -> [s |-> 4, l |-> 8, t |-> 16][c]
    [] fmt = "Y1" -> [s |-> 2, l |-> 4, q |-> 8][c]
    [] OTHER -> 0

\* The operand the size letter is about: the destination for two-operand
\* integer instructions, the source for one-operand, conversion and x87 ones.
SizedWidth(i) ==
  CASE i.fmt = "U2" -> i.dst.w
    [] i.fmt \in {"U2S", "U1", "X1", "Y1"} -> i.src.w
    [] OTHER -> 0

\* The line of i reads back as i (see OperandTextFaithful).
LineReadsAs(i) ==
  LET l == InsnLine(i)
  IN /\ SizeRead(i.fmt, l.size) = SizedWidth(i)
     /\ ReadOperand(l.src) = OperandMeaning(i.src, SrcShapes(i.op), i.jmp)
     /\ ReadOperand(l.dst) = OperandMeaning(i.dst, DstShapes(i.op), FALSE)

\* Every instruction line asm_text writes reads back, in GNU as syntax, as
\* that instruction: its size letter gives the width of the sized operand,
\* and its source and destination texts, read once the line is printed
\* (after both static buffers were written), are its operands: registers
\* of the right width, addresses with their symbol, relocation, signed
\* displacement, base, index and scale, immediates and call targets.
OperandTextFaithful ==
  [][\A i \in Instrs : AsmText(i) => LineReadsAs(i)]_tvars

\* Every declared function definition is eventually closed by exactly one
\* .size directive (by the next declaration's flush or by the final flush).
FunctionsEventuallySized ==
  \A f \in Functions : (f \in declared) ~> (Cardinality(SizesOf(f)) = 1)
=============================================================================
