------------------------- MODULE StructuredProgram -------------------------
(***************************************************************************)
(* What a subroutine promises: its statements are executed along the paths *)
(* of its tree, whatever the conditions are.  The code generator's blocks  *)
(* (CodeGenCFG) are shown to implement it.                                 *)
(***************************************************************************)
EXTENDS Paths

CONSTANT Releases       \* are the releases of memory among the statements?

VARIABLES
    tree,               \* the program
    executed            \* the statement that was executed last

Visible == LeafKind \ (IF Releases THEN {} ELSE {"free"})

Init == executed = <<0, 0>>

\* Executing a statement twice in a row is seen as a stutter.
Next == /\ executed' # executed
        /\ executed' \in NextStatements(tree, executed, Visible)
        /\ UNCHANGED tree

\* The program is read before its first statement is executed.
Spec == Init /\ [][Next]_executed
=============================================================================
