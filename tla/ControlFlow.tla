----------------------------- MODULE ControlFlow -----------------------------
(***************************************************************************)
(* The three passes that decide which control flow the code generator sees *)
(*   BreakContinueStatementErrorWalker  rejects break/continue outside loops*)
(*   ControlFlowReturnErrorWalker       rejects a subroutine that may end   *)
(*                                      without a return, and prunes what   *)
(*                                      follows a guaranteed return         *)
(*   BreakContinuePruneWalker           prunes what follows break/continue  *)
(* run in main.cpp's order over the tree ASTBuilder built, and then an      *)
(* execution of the program as it was written, which the passes' verdicts   *)
(* are judged against.                                                      *)
(*                                                                          *)
(* A walk is the C++ call stack of visitBlockNode: one frame per block, the *)
(* frame's pc is the loop index i+1.  A frame whose statement owns blocks   *)
(* descends into each of them in turn, then continues with their results.   *)
(***************************************************************************)
EXTENDS ASTBuilder, Execution

VARIABLES
    pass,           \* the pass that is running
    frames,         \* the walk's call stack
    visited,        \* per pass, the blocks whose visitBlockNode returned
    returns,        \* what ControlFlowReturnErrorWalker::visitBlockNode returned
    is_terminal     \* where the CondNodes with is_terminal set are: block, index

walkVars == <<pass, frames, visited, returns, is_terminal, source>>
runVars  == <<run, outcome>>    \* source is the tree before anything is pruned
vars     == <<builderVars, walkVars, runVars>>

Pass == {"break_check", "return_check", "break_prune"}
Phase == {"build", "rejected", "run"} \cup Pass

TypeOK ==
    /\ BuilderTypeOK
    /\ pass \in Phase
    /\ frames \in Seq(Frame)
    /\ visited \in [Pass -> SUBSET Block]
    /\ returns \in [Block -> BOOLEAN]
    /\ is_terminal \in SUBSET (Block \X (Nat \ {0}))
    /\ source \in Tree
    /\ run \in Seq(Frame)
    /\ outcome \in Outcome

Init ==
    /\ BuilderInit
    /\ pass = "build"
    /\ frames = <<>>
    /\ visited = [p \in Pass |-> {}]
    /\ returns = [b \in Block |-> FALSE]
    /\ is_terminal = {}
    /\ source = stat_nodes
    /\ run = <<>>
    /\ outcome = "running"

Building ==
    /\ pass = "build"
    /\ Build
    /\ UNCHANGED <<walkVars, runVars>>

\* The tree is complete: the first pass starts at the subroutine's body.
StartPasses ==
    /\ pass = "build" /\ ~Reading
    /\ source' = stat_nodes
    /\ pass' = "break_check"
    /\ frames' = <<Enter(Root)>>
    /\ UNCHANGED <<builderVars, visited, returns, is_terminal, runVars>>

-----------------------------------------------------------------------------
(* What the walks have in common.                                          *)

AtStat == frames # <<>> /\ InRange(stat_nodes, Top(frames))
Here   == StatAt(stat_nodes, Top(frames))

\* Mutant: visitCondNode accepts else_block without testing it for null.
PendingUntested(s) ==
    (IF s.kind = "cond" THEN {s.body, s.alt} ELSE SubBlocks(s)) \ visited[pass]

\* The blocks of s the current pass has still to accept.
Pending(s) == SubBlocks(s) \ visited[pass]

\* accept() the next block of the current statement: body (if_block), then alt.
Descend ==
    /\ frames' = Append(frames, Enter(IF Here.body \in Pending(Here)
                                      THEN Here.body ELSE Here.alt))
    /\ UNCHANGED <<pass, visited>>

\* Mutant: the loop index starts over instead of moving on.
NextStatFromTheStart ==
    /\ frames' = SetTop(frames, Enter(Top(frames).block))
    /\ UNCHANGED <<pass, visited>>

NextStat ==
    /\ frames' = SetTop(frames, Advance(Top(frames)))
    /\ UNCHANGED <<pass, visited>>

\* visitBlockNode returns; when it was the body's, the pass p is next.
LeaveBlock(p) ==
    /\ frames' = IF Len(frames) = 1
                 THEN IF p \in Pass THEN <<Enter(Root)>> ELSE <<>>
                 ELSE Pop(frames)
    /\ visited' = [visited EXCEPT ![pass] = @ \cup {Top(frames).block}]
    /\ pass' = IF Len(frames) = 1 THEN p ELSE pass

\* throw: the compilation ends.
Reject ==
    /\ pass' = "rejected"
    /\ frames' = <<>>
    /\ UNCHANGED visited

\* Mutant: resize(i) drops the statement itself.
PruneOneTooMany ==
    stat_nodes' = [stat_nodes EXCEPT
                      ![Top(frames).block] = SubSeq(@, 1, Top(frames).pc - 1)]

\* stat_nodes.resize(i + 1)
Prune ==
    stat_nodes' = [stat_nodes EXCEPT
                      ![Top(frames).block] = SubSeq(@, 1, Top(frames).pc)]

UntouchedTree == UNCHANGED <<builderVars, source>>

-----------------------------------------------------------------------------
(* BreakContinueStatementErrorWalker                                       *)

\* Mutant: visitCondNode is not overridden either.
EntersOnlyBlocks(s) == s.kind = "block"

\* The blocks this walker enters: the loops keep the base class's visit,
\* which does not descend.
EntersBlocksOf(s) == s.kind \in {"block", "cond"}

BreakOutsideLoop ==
    /\ pass = "break_check" /\ AtStat /\ Here.kind \in ExitKind
    /\ Reject
    /\ UntouchedTree /\ UNCHANGED <<returns, is_terminal, runVars>>

BreakCheckStat ==
    /\ pass = "break_check" /\ AtStat /\ Here.kind \notin ExitKind
    /\ IF EntersBlocksOf(Here) /\ Pending(Here) # {} THEN Descend ELSE NextStat
    /\ UntouchedTree /\ UNCHANGED <<returns, is_terminal, runVars>>

BreakCheckLeave ==
    /\ pass = "break_check" /\ frames # <<>> /\ ~AtStat
    /\ LeaveBlock("return_check")
    /\ UntouchedTree /\ UNCHANGED <<returns, is_terminal, runVars>>

-----------------------------------------------------------------------------
(* ControlFlowReturnErrorWalker                                            *)

\* Mutant: a loop returns what its body returns.
GuaranteedReturnOrLoop(s) ==
    \/ s.kind = "return"
    \/ s.kind \in LoopKind \cup {"block"} /\ returns[s.body]
    \/ s.kind = "cond" /\ s.alt # NoBlock /\ returns[s.body] /\ returns[s.alt]

\* Mutant: one returning branch of a conditional is enough.
GuaranteedReturnOfEither(s) ==
    \/ s.kind = "return"
    \/ s.kind = "block" /\ returns[s.body]
    \/ s.kind = "cond" /\ s.alt # NoBlock /\ (returns[s.body] \/ returns[s.alt])

(***************************************************************************)
(* The value accept() gives for a statement whose blocks were visited: a   *)
(* return, a block that returns, a conditional both of whose blocks do.    *)
(* The loops return nothing, whatever their body returned.                 *)
(***************************************************************************)
GuaranteedReturn(s) ==
    \/ s.kind = "return"
    \/ s.kind = "block" /\ returns[s.body]
    \/ s.kind = "cond" /\ s.alt # NoBlock /\ returns[s.body] /\ returns[s.alt]

ReturnCheckDescend ==
    /\ pass = "return_check" /\ AtStat /\ Pending(Here) # {}
    /\ Descend
    /\ UntouchedTree /\ UNCHANGED <<returns, is_terminal, runVars>>

\* No guaranteed return in this statement: visit the next one.
ReturnCheckNext ==
    /\ pass = "return_check" /\ AtStat /\ Pending(Here) = {}
    /\ ~GuaranteedReturn(Here)
    /\ NextStat
    /\ UntouchedTree /\ UNCHANGED <<returns, is_terminal, runVars>>

\* A guaranteed return: drop what follows it and return true.
ReturnCheckPrune ==
    /\ pass = "return_check" /\ AtStat /\ Pending(Here) = {}
    /\ GuaranteedReturn(Here)
    /\ Prune
    /\ is_terminal' = IF Here.kind = "cond"
                      THEN is_terminal \cup {<<Top(frames).block, Top(frames).pc>>}
                      ELSE is_terminal
    /\ returns' = [returns EXCEPT ![Top(frames).block] = TRUE]
    /\ LeaveBlock("break_prune")
    /\ UNCHANGED <<open, used, count, returns_value, source, runVars>>

\* The block ends without one; visitFuncDefNode and visitProcDefNode throw
\* a ReturnError when the block was the body.
ReturnCheckLeave ==
    /\ pass = "return_check" /\ frames # <<>> /\ ~AtStat
    /\ IF Len(frames) = 1 THEN Reject ELSE LeaveBlock("break_prune")
    /\ UntouchedTree /\ UNCHANGED <<returns, is_terminal, runVars>>

-----------------------------------------------------------------------------
(* BreakContinuePruneWalker                                                *)

BreakPruneDescend ==
    /\ pass = "break_prune" /\ AtStat /\ Pending(Here) # {}
    /\ Descend
    /\ UntouchedTree /\ UNCHANGED <<returns, is_terminal, runVars>>

\* Only a break or a continue of this very block prunes it: visitBlockNode
\* returns nothing to the block around it.
BreakPruneStat ==
    /\ pass = "break_prune" /\ AtStat /\ Pending(Here) = {}
    /\ IF Here.kind \in ExitKind THEN Prune ELSE UNCHANGED stat_nodes
    /\ NextStat
    /\ UNCHANGED <<open, used, count, returns_value, source, returns, is_terminal, runVars>>

BreakPruneLeave ==
    /\ pass = "break_prune" /\ frames # <<>> /\ ~AtStat
    /\ LeaveBlock("run")
    /\ run' = IF Len(frames) = 1 THEN <<Enter(Root)>> ELSE run
    /\ UntouchedTree /\ UNCHANGED <<returns, is_terminal, outcome>>

-----------------------------------------------------------------------------
(* The execution of the program as written.                                *)

CanRun == pass = "run" /\ outcome = "running"
AtRun  == CanRun /\ InRange(source, RunFrame)

RunUnchanged == UNCHANGED <<builderVars, walkVars, outcome>>

RunSimple ==
    /\ AtRun /\ RunAt.kind \in {"decl", "plain", "free"}
    /\ ContinueAfter(Len(run) + 1)
    /\ RunUnchanged

RunReturn ==
    /\ AtRun /\ RunAt.kind = "return"
    /\ outcome' = "returned"
    /\ UNCHANGED <<builderVars, walkVars, run>>

RunEnter ==
    /\ AtRun
    /\ \E b \in SubBlocks(RunAt) : ContinueIn(Len(run) + 1, b)
    /\ RunUnchanged

RunSkip ==
    /\ AtRun /\ MaySkip(RunAt)
    /\ ContinueAfter(Len(run) + 1)
    /\ RunUnchanged

RunBreak ==
    /\ AtRun /\ RunAt.kind = "break"
    /\ \E k \in LoopBodies : Innermost(k) /\ ContinueAfter(k)
    /\ RunUnchanged

RunContinue ==
    /\ AtRun /\ RunAt.kind = "continue"
    /\ \E k \in LoopBodies : Innermost(k) /\ AnotherTurn(k)
    /\ RunUnchanged

RunEndOfBlock ==
    /\ CanRun /\ ~InRange(source, RunFrame) /\ Len(run) > 1
    /\ IF Len(run) \in LoopBodies THEN AnotherTurn(Len(run)) ELSE ContinueAfter(Len(run))
    /\ RunUnchanged

Walk ==
    \/ BreakOutsideLoop \/ BreakCheckStat \/ BreakCheckLeave
    \/ ReturnCheckDescend \/ ReturnCheckNext \/ ReturnCheckPrune \/ ReturnCheckLeave
    \/ BreakPruneDescend \/ BreakPruneStat \/ BreakPruneLeave

Run ==
    \/ RunSimple \/ RunReturn \/ RunEnter \/ RunSkip \/ RunBreak \/ RunContinue
    \/ RunEndOfBlock

Done ==
    /\ pass = "rejected" \/ outcome = "returned"
    /\ UNCHANGED vars

Next == Building \/ StartPasses \/ Walk \/ Run \/ Done

Spec == Init /\ [][Next]_vars

(***************************************************************************)
(* The compiler is one thread that nothing suspends: as long as it is not  *)
(* done with the text it takes another step.  The execution of the         *)
(* compiled program gets no fairness, it may loop for ever.                *)
(***************************************************************************)
FairSpec == Spec /\ WF_vars(Building \/ StartPasses \/ Walk)

-----------------------------------------------------------------------------
(* Properties                                                              *)

(***************************************************************************)
(* A subroutine ControlFlowReturnErrorWalker accepted never runs off the   *)
(* end of its body: emitFuncDefStart and emitProcDefStart create a region  *)
(* that has no return of its own, and the "cond is terminal" verdict must  *)
(* not be fooled by breaks, continues and loops that go around a return.   *)
(***************************************************************************)
NoFallOff == CanRun /\ Len(run) = 1 => InRange(source, RunFrame)

(***************************************************************************)
(* Pruning is sound: no execution of the program as written reaches a      *)
(* statement that the two pruning walkers removed from stat_nodes.         *)
(***************************************************************************)
PrunedIsUnreachable == AtRun => InRange(stat_nodes, RunFrame)

(***************************************************************************)
(* CodeGen ends the continue block of a conditional that has is_terminal   *)
(* set with an llvm.unreachable (visitCondNode, 1663-1666): no execution   *)
(* gets past such a conditional.                                           *)
(***************************************************************************)
TerminalCondNeverPassed ==
    \A k \in 1..Len(run) : \A i \in 1..(run[k].pc - 1) :
        <<run[k].block, i>> \notin is_terminal

(***************************************************************************)
(* Every break and continue the execution reaches is inside a loop.        *)
(* CodeGen's visitBreakNode and visitContinueNode search                   *)
(* nested_blocks_stack for one and emit no branch at all when there is     *)
(* none, so BreakContinueStatementErrorWalker must have found every        *)
(* reachable one.                                                          *)
(***************************************************************************)
BreakHasTarget == AtRun /\ RunAt.kind \in ExitKind => LoopBodies # {}

(***************************************************************************)
(* Once the passes have started they only shorten blocks, never edit,      *)
(* reorder or add statements, and they touch nothing of the tree once the  *)
(* program runs.                                                           *)
(***************************************************************************)
PassesOnlyShorten ==
    [][pass # "build" =>
         \A b \in Block :
            /\ Len(stat_nodes'[b]) <= Len(stat_nodes[b])
            /\ stat_nodes'[b] = SubSeq(stat_nodes[b], 1, Len(stat_nodes'[b]))
            /\ pass = "run" => stat_nodes'[b] = stat_nodes[b]]_vars

(***************************************************************************)
(* Every pass comes to an end on every tree: the walk that shortens the    *)
(* vector it iterates over neither skips back nor revisits a block.        *)
(***************************************************************************)
PassesTerminate == <>(pass \in {"rejected", "run"})
=============================================================================
