----------------------------- MODULE Operations -----------------------------
(***************************************************************************)
(* What CodeGenASTWalker emits: the operations, the MLIR blocks as         *)
(* sequences of them, what builder->create does at the insertion point and *)
(* how the last continue block is cleaned up.                              *)
(***************************************************************************)
EXTENDS GazpreaAST, SequencesExt

Null      == 0          \* no MLIR block
NoStat    == <<0, 0>>   \* no statement

TerminatorKind == {"br", "return", "unreachable"}

\* An operation.  to: the successors an execution may choose from; stat: whose
\* operation it is; loop: the body of the loop whose stack pointer it is about.
Plain       == [kind |-> "op", to |-> {}, stat |-> NoStat, loop |-> NoBlock]
OpOf(p)     == [Plain EXCEPT !.stat = p]
Save(l)     == [Plain EXCEPT !.kind = "save", !.loop = l]
Restore(l)  == [Plain EXCEPT !.kind = "restore", !.loop = l]
Br(B)       == [Plain EXCEPT !.kind = "br", !.to = B]
Return(p)   == [OpOf(p) EXCEPT !.kind = "return"]
Unreachable == [Plain EXCEPT !.kind = "unreachable"]

IsTerminator(op)  == op.kind \in TerminatorKind
HasTerminator(s)  == s # <<>> /\ IsTerminator(Last(s))

\* builder->create at the insertion point: "behind" operations follow.
Insert(table, p, new) ==
    LET s == table[p.block]
        n == Len(s) - p.behind
    IN [table EXCEPT ![p.block] = SubSeq(s, 1, n) \o new \o SubSeq(s, n + 1, Len(s))]

\* Is there a terminator in front of the last n operations?
Doubled(s, n) == Len(s) > n /\ IsTerminator(s[Len(s) - n])
Erase(s, n)   == SubSeq(s, 1, Len(s) - n)

(***************************************************************************)
(* "Check the validity of the last inner continue block": a loop looks at  *)
(* the last two operations only when there are three.                      *)
(***************************************************************************)
CleanOnce(s, n) == IF Doubled(s, n) THEN Erase(s, n) ELSE s

\* Mutant: the restore that may be in front of the branch is forgotten.
CleanedOfBranch(s, by_loop) == CleanOnce(s, 1)

Cleaned(s, by_loop) ==
    IF by_loop /\ Len(s) <= 2 THEN s ELSE CleanOnce(CleanOnce(s, 2), 1)

-----------------------------------------------------------------------------
(* What a loop begins with, and what ends the continue block behind a      *)
(* statement that is inside the last entry of nested_blocks_stack.         *)

\* What is emitted where the loop stands.
LoopHead(s, control, loop, cont) ==
    CASE s.kind = "inf_loop"  -> <<Plain, Br({loop})>>  \* a condition that is true
      [] s.kind = "pre_loop"  -> <<Br({control})>>
      [] s.kind = "post_loop" -> <<Br({loop})>>
      [] s.kind = "iter_loop" -> <<Plain, Br({control})>>

\* The entry of nested_blocks_stack for a conditional: nowhere to go back to.
CondEntry(cont) == [back |-> Null, cont |-> cont, loop |-> NoBlock]

\* Mutant: the continue block behind a statement of a loop leaves the loop.
DefaultBranchOut(stack) ==
    IF stack = <<>> THEN <<>>
    ELSE LET around == Last(stack)
         IN IF around.back # Null THEN <<Restore(around.loop), Br({around.cont})>>
                                  ELSE <<Br({around.cont})>>

\* Mutant: no restore in front of it.
DefaultBranchOnly(stack) ==
    IF stack = <<>> THEN <<>>
    ELSE LET around == Last(stack)
         IN IF around.back # Null THEN <<Br({around.back})>> ELSE <<Br({around.cont})>>

\* The branch a continue block gets "in case it doesn't emit a terminal op".
DefaultBranch(stack) ==
    IF stack = <<>> THEN <<>>
    ELSE LET around == Last(stack)
         IN IF around.back # Null THEN <<Restore(around.loop), Br({around.back})>>
                                  ELSE <<Br({around.cont})>>

=============================================================================
