--------------------------- MODULE MCControlFlow ---------------------------
(***************************************************************************)
(* ControlFlow on every subroutine of a few statements.                    *)
(***************************************************************************)
EXTENDS PassAgreement
=============================================================================
