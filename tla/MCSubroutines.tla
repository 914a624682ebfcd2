---------------------------- MODULE MCSubroutines ----------------------------
(***************************************************************************)
(* Subroutines on texts of a few headers and a call.                       *)
(***************************************************************************)
EXTENDS Subroutines
=============================================================================
