-------------------------- MODULE MCBackendParity --------------------------
(***************************************************************************)
(* Instantiation of BackendParity for TLC: main, an initialized object    *)
(* filled with an int and raw or terminated string pieces, a tentative    *)
(* definition, a string literal, a float constant and a label.            *)
(***************************************************************************)
EXTENDS BackendParity

Sym(name, kind, sz) == [name |-> name, kind |-> kind, size |-> sz]

MCParitySymbols ==
  {Sym("main", "function", 0), Sym("g", "data", 0), Sym("t", "tentative", 4),
   Sym("s", "string", 2), Sym("f", "float", 0), Sym("L", "label", 0)}

MCParityInstrs == {[op |-> "IMM", len |-> 5, target |-> "g", disp |-> 0]}

MCParityDatas ==
  {[type |-> "int", w |-> 2], [type |-> "string", len |-> 2, w |-> 2],
   [type |-> "string", len |-> 2, w |-> 3],
   [type |-> "addr", target |-> "s", disp |-> 0]}

MCParityLibEntries == <<"printf">>

=============================================================================
