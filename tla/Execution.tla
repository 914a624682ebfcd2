----------------------------- MODULE Execution -----------------------------
(***************************************************************************)
(* An execution of one subroutine: the control flow the generated code     *)
(* has.  The state is the stack of blocks that have been entered, each     *)
(* with the statement it is at; conditions are not evaluated, so every     *)
(* test may come out either way.                                           *)
(***************************************************************************)
EXTENDS GazpreaAST

VARIABLES
    source,         \* the tree that is executed
    run,            \* the blocks entered, innermost last
    outcome         \* how the execution ended

Outcome == {"running", "returned"}

RunFrame == Top(run)
RunAt    == StatAt(source, RunFrame)

\* The frames that are inside a loop's body, and the innermost of them.
LoopBodies   == {k \in 2..Len(run) : IsLoop(StatAt(source, run[k - 1]))}
Innermost(k) == k \in LoopBodies /\ \A j \in LoopBodies : j <= k

\* Leave every frame from k on and continue after, or with, the statement
\* the frame below is at.
ContinueAfter(k) == run' = SetTop(Below(run, k), Advance(run[k - 1]))
ContinueIn(k, b) == run' = Append(Below(run, k), Enter(b))

\* Back at the test of the loop whose body is frame k.
AnotherTurn(k) ==
    LET loop == StatAt(source, run[k - 1])
    IN ContinueIn(k, loop.body) \/ (MayExit(loop) /\ ContinueAfter(k))
=============================================================================
