--------------------------- MODULE MCJitBackend ---------------------------
(***************************************************************************)
(* Instantiation of JitBackend for TLC: a translation unit with main, a   *)
(* local label, an initialized object, a string literal and a double      *)
(* constant, and the instructions and data that reference them.           *)
(***************************************************************************)
EXTENDS JitBackend

Sym(name, kind, sz) == [name |-> name, kind |-> kind, size |-> sz]

MCSymbols ==
  {Sym("main", "function", 0), Sym(".L1", "label", 0), Sym("g", "data", 0),
   Sym("s", "string", 2), Sym("c", "double", 0)}

\* call main / jmp .L1 (rel32), a load of g+4 and a store of $1 into g
\* (rip-relative), calls to a builtin and to an undefined function, ret.
Ins(op, len, target, disp) ==
  [op |-> op, len |-> len, target |-> target, disp |-> disp]

MCInstrs ==
  {Ins("IMM", 5, ".L1", 0), Ins("MEM_REG", 6, "g", 4),
   Ins("IMM_MEM", 10, "g", 0), Ins("IMM", 5, "printf", 0),
   Ins("IMM", 5, "puts", 0), Ins("NONE", 1, NoLabel, 0)}

\* A 4-byte integer, the address of s + 1, and a raw 2-byte string piece.
MCDatas ==
  {[type |-> "int", w |-> 4],
   [type |-> "addr", target |-> "s", disp |-> 1],
   [type |-> "string", len |-> 2, w |-> 2]}

MCLibEntries == <<"printf", "__kcc_builtin_onstart">>

\* A second unit: a tentative definition, a jump table whose entry refers to
\* the label .L1, and a float constant; main jumps through the table slot.
MCTableSymbols ==
  {Sym("main", "function", 0), Sym(".L1", "label", 0), Sym("t", "tentative", 4),
   Sym("tab", "table", 0), Sym(".L1", "entry", 0), Sym("f", "float", 0)}

MCTableInstrs ==
  {Ins("MEM", 6, "tab", 0), Ins("REG_MEM", 6, "t", 0), Ins("NONE", 1, NoLabel, 0)}

\* A static initializer taking the address of a builtin function
\* (int (*p)(const char *, ...) = printf;).
MCBuiltinDatas == {[type |-> "addr", target |-> "printf", disp |-> 0]}

\* An x87 load of a global at a displacement: fldt g+8(%rip) (OPT_MEM).
MCMemInstrs == {Ins("MEM", 6, "g", 8)}
=============================================================================
