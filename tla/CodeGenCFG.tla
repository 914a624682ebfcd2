----------------------------- MODULE CodeGenCFG -----------------------------
(***************************************************************************)
(* CodeGenASTWalker turns the control flow of a subroutine into MLIR       *)
(* blocks, and the blocks are executed.                                    *)
(*                                                                         *)
(* The walker keeps three things in the BackEnd: the insertion point,      *)
(* nested_blocks_stack with where the statements around branch to, and     *)
(* last_inner_continue_block, the block that got a branch "in case" and    *)
(* may have to lose it again.  What the walk emits is one operation per    *)
(* idea: an operation of a statement, a save or restore of the stack       *)
(* pointer, a terminator.                                                  *)
(***************************************************************************)
EXTENDS ASTBuilder, PassFunctions, Paths, Operations

CONSTANTS
    Releases,       \* does a FreeNode release anything, i.e. emit operations?
    Text            \* the text: any, no_nested_exits, separate (TextRule)

ASSUME CodeGenCFGAssumption ==
    /\ Releases \in BOOLEAN
    /\ Text \in {"any", "no_nested_exits", "separate"}

VARIABLES
    pass,           \* build, emit, run, rejected
    is_terminal,    \* where the CondNodes with is_terminal set are: block, index
    frames,         \* the walk's call stack
    ops,            \* the operations of every MLIR block there is
    created,        \* how many MLIR blocks there are
    point,          \* the builder's insertion point
    nested,         \* nested_blocks_stack
    last,           \* last_inner_continue_block
    at,             \* the next operation to be executed
    executed,       \* the statement that was executed last
    saved           \* the loops whose stack pointer has been saved

emitVars == <<frames, ops, created, point, nested, last>>
execVars == <<at, executed, saved>>
vars     == <<builderVars, pass, is_terminal, emitVars, execVars>>

-----------------------------------------------------------------------------
(* The clean-up of the last continue block.                                *)

Stopped == [block |-> 1, pc |-> 0]

Clean(table, by_loop) ==
    IF last = Null THEN table ELSE [table EXCEPT ![last] = Cleaned(@, by_loop)]

-----------------------------------------------------------------------------
(* The walk.  A frame is one visitBlockNode, with the MLIR blocks of the   *)
(* statement it is at: where the body goes, where a break goes and, of a   *)
(* conditional, the else block.                                            *)

Visit(b) == [block |-> b, pc |-> 1, inner |-> Null, els |-> Null, cont |-> Null,
             visiting |-> 0]

Init ==
    /\ BuilderInit
    /\ pass = "build"
    /\ is_terminal = {}
    /\ frames = <<>>
    /\ ops = [b \in 1..1 |-> <<>>]
    /\ created = 1
    /\ point = [block |-> 1, behind |-> 0]
    /\ nested = <<>>
    /\ last = Null
    /\ at = Stopped
    /\ executed = NoStat
    /\ saved = {}

NoNestedExits(tree) ==
    \A b \in Block : \A i \in DOMAIN tree[b] : tree[b][i].kind = "block" =>
        \A j \in DOMAIN tree[tree[b][i].body] : ~IsExit(tree[tree[b][i].body][j])

\* A predicated loop emits a branch where it stands, a return of nothing that
\* has nothing to release the return only.
OneOperation(s) ==
    s.kind \in {"pre_loop", "post_loop"} \/ (s.kind = "return" /\ ~returns_value)

\* Except in the body of the subroutine, such a statement comes first in the
\* body of a loop or of a conditional, or behind a statement without blocks.
OneOperationsApart(tree) ==
    \A b \in Block \ {Root} : \A i \in DOMAIN tree[b] : OneOperation(tree[b][i]) =>
        IF i > 1 THEN tree[b][i - 1].kind \in LeafKind
                 ELSE \A c \in Block : \A j \in DOMAIN tree[c] :
                          tree[c][j].body = b => tree[c][j].kind # "block"

TextRule(tree) ==
    /\ Text \in {"no_nested_exits", "separate"} => NoNestedExits(tree)
    /\ Text = "separate" => OneOperationsApart(tree)

Building ==
    /\ pass = "build" /\ Reading
    /\ Build
    /\ TextRule(stat_nodes')
    /\ UNCHANGED <<pass, is_terminal, emitVars, execVars>>

Accepted(tree) == ~HasLooseExit(tree) /\ Root \in Returning(tree)

\* ControlFlowReturnErrorWalker sets is_terminal where both branches return;
\* BreakContinuePruneWalker may still shorten them.
TerminalConds(tree) ==
    UNION {{<<b, i>> : i \in {j \in DOMAIN tree[b] :
                tree[b][j].kind = "cond" /\ ReturnsSurely(tree[b][j], Returning(tree))}}
           : b \in Block}

\* The passes before code generation.  (freed and pruned stand for one value
\* each, which TLC then evaluates once.)
Prepare ==
    /\ pass = "build" /\ ~Reading
    /\ IF Accepted(stat_nodes)
       THEN \E freed \in {AddFreeNodes(stat_nodes, FALSE)} :
            \E pruned \in {ReturnPruned(freed)} :
               /\ is_terminal' = TerminalConds(freed)
               /\ stat_nodes' = ExitPruned(pruned)
               /\ pass' = "emit"
               /\ frames' = <<Visit(Root)>>
       ELSE /\ pass' = "rejected"
            /\ UNCHANGED <<stat_nodes, is_terminal, frames>>
    /\ UNCHANGED <<open, used, count, returns_value, ops, created, point, nested, last, execVars>>

F      == Top(frames)
AtStat == pass = "emit" /\ frames # <<>> /\ InRange(stat_nodes, F)
Here   == StatAt(stat_nodes, F)
Pos    == <<F.block, F.pc>>

EmitUnchanged == UNCHANGED <<builderVars, pass, is_terminal, execVars>>

NextStat == frames' = SetTop(frames, [Visit(F.block) EXCEPT !.pc = F.pc + 1])

\* Where the innermost loop on nested_blocks_stack continues and ends.
LoopEntries   == {k \in DOMAIN nested : nested[k].back # Null}

\* Mutant: begin() and end() instead of rbegin() and rend().
OutermostLoop == nested[CHOOSE k \in LoopEntries : \A j \in LoopEntries : k <= j]

InnermostLoop == nested[CHOOSE k \in LoopEntries : \A j \in LoopEntries : j <= k]

\* The operations a statement without blocks emits.
LeafOps(s, p) ==
    CASE s.kind \in {"decl", "plain"} -> <<OpOf(p)>>
      [] s.kind = "free"     -> IF Releases THEN <<OpOf(p)>> ELSE <<>>
      [] s.kind = "return"   -> IF returns_value THEN <<Plain, Return(p)>> ELSE <<Return(p)>>
      [] s.kind = "break"    -> <<[Restore(InnermostLoop.loop) EXCEPT !.stat = p],
                                  Br({InnermostLoop.cont})>>
      [] s.kind = "continue" -> <<[Restore(InnermostLoop.loop) EXCEPT !.stat = p],
                                  Br({InnermostLoop.back})>>

EmitLeaf ==
    /\ AtStat /\ Here.kind \in LeafKind
    /\ ops' = Insert(ops, point, LeafOps(Here, Pos))
    /\ NextStat
    /\ UNCHANGED <<created, point, nested, last>> /\ EmitUnchanged

\* A nested block emits nothing of its own.
EmitBlock ==
    /\ AtStat /\ Here.kind = "block"
    /\ IF F.visiting = 0
       THEN frames' = Append(SetTop(frames, [F EXCEPT !.visiting = 1]), Visit(Here.body))
       ELSE NextStat
    /\ UNCHANGED <<ops, created, point, nested, last>> /\ EmitUnchanged

-----------------------------------------------------------------------------
(* Loops.  The generated blocks: control (none for an infinite loop),      *)
(* loop, continue, in the order they are created.                          *)

EmitLoopStart ==
    /\ AtStat /\ IsLoop(Here) /\ F.visiting = 0
    /\ LET tested  == Here.kind # "inf_loop"
           loop    == created + (IF tested THEN 2 ELSE 1)
           cont    == loop + 1
           control == IF tested THEN created + 1 ELSE loop
           head    == Insert(ops, point, LoopHead(Here, control, loop, cont))
       IN /\ ops' = [b \in 1..cont |->
                       CASE b = loop -> <<Save(Here.body)>>
                         [] b = control /\ tested -> <<Plain, Br({loop, cont})>>
                         [] b = cont -> <<>>
                         [] OTHER -> head[b]]
          /\ created' = cont
          /\ point' = [block |-> loop, behind |-> 0]
          /\ nested' = Append(nested, [back |-> control, cont |-> cont, loop |-> Here.body])
          /\ frames' = Append(SetTop(frames, [F EXCEPT !.visiting = 1, !.inner = loop,
                                                       !.cont = cont]),
                              Visit(Here.body))
    /\ UNCHANGED last /\ EmitUnchanged

EmitLoopEnd ==
    /\ AtStat /\ IsLoop(Here) /\ F.visiting = 1
    /\ LET entry  == Last(nested)
           stack  == Front(nested)
           looped == IF HasTerminator(ops[F.inner]) THEN ops
                     ELSE [ops EXCEPT ![F.inner] =
                             @ \o <<Restore(Here.body), Br({entry.back})>>]
           default == DefaultBranch(stack)
           release == IF Here.kind = "iter_loop" THEN <<Plain>> ELSE <<>>
       IN /\ nested' = stack
          /\ ops' = [Clean(looped, TRUE) EXCEPT ![F.cont] = release \o default]
          /\ last' = IF stack = <<>> THEN Null ELSE F.cont
          /\ point' = [block |-> F.cont, behind |-> Len(default)]
    /\ NextStat
    /\ UNCHANGED created /\ EmitUnchanged

-----------------------------------------------------------------------------
(* Conditionals.                                                           *)

IsTerminal == Pos \in is_terminal

EmitCondStart ==
    /\ AtStat /\ Here.kind = "cond" /\ F.visiting = 0
    /\ LET then == created + 1
           els  == IF Here.alt = NoBlock THEN Null ELSE created + 2
           cont == created + (IF Here.alt = NoBlock THEN 2 ELSE 3)
           other == IF els = Null THEN cont ELSE els
           head == Insert(ops, point, <<Plain, Br({then, other})>>)
       IN /\ ops' = [b \in 1..cont |-> IF b <= created THEN head[b] ELSE <<>>]
          /\ created' = cont
          /\ point' = [block |-> then, behind |-> 0]
          /\ nested' = Append(nested, CondEntry(cont))
          /\ frames' = Append(SetTop(frames, [F EXCEPT !.visiting = 1, !.inner = then,
                                                       !.els = els, !.cont = cont]),
                              Visit(Here.body))
    /\ UNCHANGED last /\ EmitUnchanged

\* The branch behind the statements of the then or else block, where the
\* insertion point is now: when that block itself has no terminator.
Closed(block) ==
    IF HasTerminator(ops[block]) THEN ops ELSE Insert(ops, point, <<Br({F.cont})>>)

EmitCondElse ==
    /\ AtStat /\ Here.kind = "cond" /\ F.visiting = 1 /\ Here.alt # NoBlock
    /\ ops' = Closed(F.inner)
    /\ point' = [block |-> F.els, behind |-> 0]
    /\ nested' = Append(Front(nested), CondEntry(F.cont))
    /\ frames' = Append(SetTop(frames, [F EXCEPT !.visiting = 2]), Visit(Here.alt))
    /\ UNCHANGED <<created, last>> /\ EmitUnchanged

EmitCondEnd ==
    /\ AtStat /\ Here.kind = "cond"
    /\ F.visiting = IF Here.alt = NoBlock THEN 1 ELSE 2
    /\ LET stack   == Front(nested)
           closed  == Closed(IF Here.alt = NoBlock THEN F.inner ELSE F.els)
           default == IF IsTerminal THEN <<Unreachable>> ELSE DefaultBranch(stack)
       IN /\ nested' = stack
          /\ ops' = [Clean(closed, FALSE) EXCEPT ![F.cont] = default]
          /\ last' = IF IsTerminal \/ stack = <<>> THEN Null ELSE F.cont
          /\ point' = [block |-> F.cont, behind |-> Len(default)]
    /\ NextStat
    /\ UNCHANGED created /\ EmitUnchanged

LeaveBlock ==
    /\ pass = "emit" /\ frames # <<>> /\ ~InRange(stat_nodes, F)
    /\ frames' = Pop(frames)
    /\ IF Len(frames) = 1 THEN pass' = "run" /\ at' = [block |-> 1, pc |-> 1]
                          ELSE UNCHANGED <<pass, at>>
    /\ UNCHANGED <<builderVars, is_terminal, ops, created, point, nested, last, executed, saved>>

-----------------------------------------------------------------------------
(* The execution of the blocks, once the MLIR verifier takes them.         *)

\* The verifier: every block ends in its only terminator.
WellFormed(b) ==
    /\ HasTerminator(ops[b])
    /\ \A i \in 1..(Len(ops[b]) - 1) : ~IsTerminator(ops[b][i])

Verified == \A b \in 1..created : WellFormed(b)

OpAt(p)  == ops[p.block][p.pc]
CanStep  == pass = "run" /\ Verified /\ at # Stopped

ExecUnchanged == UNCHANGED <<builderVars, pass, is_terminal, emitVars>>

Labelled(op) == executed' = IF op.stat = NoStat THEN executed ELSE op.stat

\* The loops around the body of a loop.
Around(l) == LoopsAround(stat_nodes, l)

ExecuteOp ==
    /\ CanStep
    /\ LET op == OpAt(at)
       IN /\ op.kind \in {"op", "save", "restore"}
          /\ at' = Advance(at)
          /\ Labelled(op)
          /\ saved' = CASE op.kind = "save"    -> (saved \cap Around(op.loop)) \cup {op.loop}
                        [] op.kind = "restore" -> saved \cap Around(op.loop)
                        [] OTHER               -> saved
    /\ ExecUnchanged

ExecuteBranch ==
    /\ CanStep
    /\ \E b \in OpAt(at).to : at' = [block |-> b, pc |-> 1]
    /\ UNCHANGED <<executed, saved>> /\ ExecUnchanged

ExecuteReturn ==
    /\ CanStep /\ OpAt(at).kind = "return"
    /\ at' = Stopped
    /\ Labelled(OpAt(at))
    /\ UNCHANGED saved /\ ExecUnchanged

Emit ==
    \/ EmitLeaf \/ EmitBlock \/ EmitLoopStart \/ EmitLoopEnd
    \/ EmitCondStart \/ EmitCondElse \/ EmitCondEnd \/ LeaveBlock

Execute == ExecuteOp \/ ExecuteBranch \/ ExecuteReturn

Done ==
    /\ pass = "rejected" \/ (pass = "run" /\ (at = Stopped \/ ~Verified))
    /\ UNCHANGED vars

Next == Building \/ Prepare \/ Emit \/ Execute \/ Done

Spec == Init /\ [][Next]_vars

-----------------------------------------------------------------------------
(* Properties                                                              *)

(***************************************************************************)
(* What is emitted passes the verifier: no block without a terminator, and *)
(* none with an operation behind one, although branches are emitted into   *)
(* continue blocks before it is known what else will be ("check the        *)
(* validity of the last inner continue block (eliminate terminal ops that  *)
(* aren't reached)", CodeGenASTWalker.cpp:1464).                           *)
(***************************************************************************)
BlocksEndInOneTerminator == pass = "run" => Verified

(***************************************************************************)
(* A stack pointer is saved again, in the next turn of its loop, only when *)
(* it was restored since, and is restored only when it was saved since;    *)
(* and an operation of a statement is executed only while the stack        *)
(* pointers of exactly the loops around it are saved.  So what the         *)
(* statements of a turn allocate is gone when the next turn begins,        *)
(* however the turn ended, and no value is used that this path has not     *)
(* computed.  It says nothing of what is allocated outside of the          *)
(* statements: the condition of a predicated loop is evaluated in the      *)
(* control block, in front of the save (CodeGenASTWalker.cpp:1444, 1451),  *)
(* and the stack space it takes stays until the loop around ends its turn. *)
(***************************************************************************)
StackBalanced ==
    CanStep =>
        LET op == OpAt(at)
        IN /\ op.kind = "save"    => op.loop \notin saved
           /\ op.kind = "restore" => op.loop \in saved
           /\ op.stat # NoStat    => saved = LoopsHolding(stat_nodes, op.stat[1])

Visible == {"decl", "plain", "return"} \cup ExitKind
           \cup (IF Releases THEN {"free"} ELSE {})

\* The statements whose operation may be the next one to be executed.
NextStats ==
    LET Step(p) == IF OpAt(p).stat # NoStat THEN {}
                   ELSE IF OpAt(p).kind = "br"
                        THEN {[block |-> b, pc |-> 1] : b \in OpAt(p).to}
                        ELSE {Advance(p)}
        points == UNION {{[block |-> b, pc |-> i] : i \in DOMAIN ops[b]} : b \in 1..created}
        reached[n \in 0..Cardinality(points)] ==
            IF n = 0 THEN {at}
            ELSE LET known == reached[n - 1] IN known \cup UNION {Step(p) : p \in known}
    IN {OpAt(p).stat : p \in reached[Cardinality(points)]} \ {NoStat}

(***************************************************************************)
(* The blocks offer every path the program has, and no other: from each    *)
(* statement the same statements can come next.                            *)
(***************************************************************************)
SamePaths ==
    /\ CanStep
    /\ IF at.pc = 1 THEN executed = NoStat /\ at.block = 1
                    ELSE OpAt([at EXCEPT !.pc = @ - 1]).stat # NoStat
    => NextStats = NextStatements(stat_nodes, executed, Visible)

\* The abstract specification: an execution of the statements.
Program == INSTANCE StructuredProgram WITH tree <- stat_nodes

(***************************************************************************)
(* Executing the blocks is an execution of the program.                    *)
(***************************************************************************)
ImplementsProgram == Program!Spec
=============================================================================
