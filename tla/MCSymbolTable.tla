--------------------------- MODULE MCSymbolTable ---------------------------
(***************************************************************************)
(* SymbolTable for TLC: the identifiers are interchangeable.               *)
(***************************************************************************)
EXTENDS SymbolTable, TLC

Symmetry == Permutations(Name)
=============================================================================
