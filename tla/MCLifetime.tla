----------------------------- MODULE MCLifetime -----------------------------
(***************************************************************************)
(* Lifetime on every subroutine of a few statements.                       *)
(***************************************************************************)
EXTENDS Lifetime
=============================================================================
