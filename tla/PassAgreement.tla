---------------------------- MODULE PassAgreement ----------------------------
(***************************************************************************)
(* The walks of ControlFlow compute the functions of PassFunctions.        *)
(***************************************************************************)
EXTENDS ControlFlow, PassFunctions

(***************************************************************************)
(* The three walkers, which descend through the tree one call at a time    *)
(* and shorten the vectors they iterate over, reject exactly the trees     *)
(* with a break or continue outside a loop or a body that does not surely  *)
(* return, and leave of the others the doubly pruned tree.                 *)
(***************************************************************************)
WalksComputeFunctions ==
    /\ pass = "run" /\ run = <<Enter(Root)>> =>
         /\ ~HasLooseExit(source)
         /\ Root \in Returning(source)
         /\ stat_nodes = ExitPruned(ReturnPruned(source))
    /\ pass = "rejected" => HasLooseExit(source) \/ Root \notin Returning(source)
=============================================================================
