------------------------------ MODULE MCLinker ------------------------------
(***************************************************************************)
(* Instantiation of Linker for TLC: two input objects and an output flag, *)
(* ld succeeding or failing, two builds with a retry each.                *)
(***************************************************************************)
EXTENDS Linker

MCUserArgs == {"a.o", "b.o", "-o"}
=============================================================================
