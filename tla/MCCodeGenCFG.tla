---------------------------- MODULE MCCodeGenCFG ----------------------------
(***************************************************************************)
(* CodeGenCFG on every subroutine of a few statements.                     *)
(***************************************************************************)
EXTENDS CodeGenCFG
=============================================================================
