------------------------------ MODULE Lifetime ------------------------------
(***************************************************************************)
(* Who frees the vectors, matrices and tuples of a subroutine.             *)
(*                                                                         *)
(* Three agents have to agree: AddFreeNodesWalker decides where memory is  *)
(* released, ScopeToFreeWalker which variables are, and the generated code *)
(* allocates at each declaration, copies the domain of each iterator loop  *)
(* and executes the releases.  In between, the pruning walkers remove      *)
(* statements, releases among them.  The passes run in main.cpp's order as *)
(* the functions of PassFunctions; then the subroutine executes.           *)
(***************************************************************************)
EXTENDS ASTBuilder, Execution, PassFunctions

CONSTANTS
    Routines,       \* what is compiled: function, procedure, main
    DeclText        \* where the text has declarations: anywhere, first, sound

ASSUME LifetimeAssumption ==
    /\ Routines \subseteq {"function", "procedure", "main"}
    /\ DeclText \in {"anywhere", "first", "sound"}

VARIABLES
    pass,           \* build, the pass that is running, run, or how it ended
    routine,        \* the kind of subroutine
    to_free,        \* symbols_to_free of every scope
    live,           \* the variables whose memory is allocated
    wild            \* what was freed without being allocated

heapVars == <<live, wild>>
vars == <<builderVars, source, run, outcome, pass, routine, to_free, heapVars>>

\* A variable is the position of its declaration, an iterator loop's copy of
\* its domain the position of the loop, the parameter stands before the body.
Parameter == <<Root, 0>>

Init ==
    /\ BuilderInit
    /\ routine \in Routines /\ returns_value = (routine # "procedure")
    /\ pass = "build"
    /\ source = stat_nodes
    /\ run = <<>>
    /\ outcome = "running"
    /\ to_free = [s \in {Global} \cup Block |-> {}]
    /\ live = {}
    /\ wild = {}

\* The restriction DeclText puts on the text.
DeclsFirst(tree) ==
    \A b \in Block : \A j \in DOMAIN tree[b] :
        tree[b][j].kind = "decl" => \A i \in 1..(j - 1) : tree[b][i].kind = "decl"

DeclsNotInIfOrBlock(tree) ==
    \A b \in Block : \A i \in DOMAIN tree[b] : tree[b][i].kind \in {"block", "cond"} =>
        \A j \in DOMAIN tree[tree[b][i].body] : tree[tree[b][i].body][j].kind # "decl"

TextRule(tree) ==
    /\ DeclText # "anywhere" => DeclsFirst(tree)
    /\ DeclText = "sound" /\ routine = "main" => DeclsNotInIfOrBlock(tree)

Building ==
    /\ pass = "build"
    /\ IF Reading THEN Build /\ TextRule(stat_nodes') /\ UNCHANGED pass
                  ELSE pass' = "break_check" /\ UNCHANGED builderVars
    /\ UNCHANGED <<source, run, outcome, routine, to_free, heapVars>>

-----------------------------------------------------------------------------
(* The passes.                                                             *)

PassUnchanged == UNCHANGED <<open, used, count, returns_value, source, run, outcome,
                             routine, heapVars>>

\* A pass that only accepts or rejects.
Checks(this, ok, next) ==
    /\ pass = this
    /\ pass' = IF ok THEN next ELSE "rejected"
    /\ UNCHANGED <<stat_nodes, to_free>> /\ PassUnchanged

\* A pass that rewrites the tree.
Rewrites(this, tree, next) ==
    /\ pass = this
    /\ stat_nodes' = tree
    /\ pass' = next
    /\ UNCHANGED to_free /\ PassUnchanged

InMain == routine = "main"

BreakCheck == Checks("break_check", ~HasLooseExit(stat_nodes), "decl_check")
DeclCheck  == Checks("decl_check", DeclsAccepted(stat_nodes), "add_free")
AddFree    == Rewrites("add_free", AddFreeNodes(stat_nodes, InMain), "define")

(***************************************************************************)
(* DefineSymbols visits every statement; visitReturnNode visits the        *)
(* return's free_node through a pointer it does not test.                  *)
(***************************************************************************)
ReturnsHaveFreeNodes ==
    \A b \in Block : \A i \in DOMAIN stat_nodes[b] :
        stat_nodes[b][i].kind = "return" => stat_nodes[b][i].scope_id # NoScope

Define ==
    /\ pass = "define"
    /\ pass' = IF ReturnsHaveFreeNodes THEN "return_check" ELSE "define_crashed"
    /\ UNCHANGED <<stat_nodes, to_free>> /\ PassUnchanged

ReturnCheck ==
    /\ pass = "return_check"
    /\ stat_nodes' = ReturnPruned(stat_nodes)
    /\ pass' = IF Root \in Returning(stat_nodes) THEN "break_prune" ELSE "rejected"
    /\ UNCHANGED to_free /\ PassUnchanged

BreakPrune == Rewrites("break_prune", ExitPruned(stat_nodes), "scope_to_free")

ScopesToFree ==
    /\ pass = "scope_to_free"
    /\ to_free' = [SymbolsToFree(stat_nodes, InMain) EXCEPT
                     ![Root] = @ \cup (IF routine = "procedure" THEN {Parameter} ELSE {})]
    /\ pass' = "codegen"
    /\ UNCHANGED stat_nodes /\ PassUnchanged

\* What a FreeNode, or a return, frees.
Freed(b, s) == to_free[ScopeToFree(stat_nodes, b, s.scope_id)]

(***************************************************************************)
(* CodeGenASTWalker sets symbol->value when it visits a declaration, and   *)
(* visitFreeNode casts it to an mlir::Value: a release that stands before  *)
(* the declaration throws std::bad_any_cast.                               *)
(***************************************************************************)
FreesFollowDeclarations ==
    \A b \in ReachableBlocks(stat_nodes) : \A i \in DOMAIN stat_nodes[b] :
        stat_nodes[b][i].kind \in {"free", "return"} =>
            Freed(b, stat_nodes[b][i]) \ {Parameter} \subseteq VisitedBefore(stat_nodes, b, i)

CodeGen ==
    /\ pass = "codegen"
    /\ IF FreesFollowDeclarations
       THEN /\ pass' = "run"
            /\ run' = <<Enter(Root)>>
            /\ source' = stat_nodes
            /\ live' = IF InMain THEN {} ELSE {Parameter}
       ELSE /\ pass' = "codegen_crashed"
            /\ UNCHANGED <<run, source, live>>
    /\ UNCHANGED <<builderVars, outcome, routine, to_free, wild>>

-----------------------------------------------------------------------------
(* The execution of the generated code.                                    *)

CanRun == pass = "run" /\ outcome = "running"
AtRun  == CanRun /\ InRange(source, RunFrame)
Here   == <<RunFrame.block, RunFrame.pc>>

Release(S) ==
    /\ live' = live \ S
    /\ wild' = wild \cup (S \ live)

\* The copy of its domain the iterator loop around frame k holds.
LoopOf(k)  == StatAt(source, run[k - 1])
Domain(k)  == IF LoopOf(k).kind = "iter_loop" THEN {<<run[k - 1].block, run[k - 1].pc>>}
                                              ELSE {}

RunUnchanged == UNCHANGED <<builderVars, source, pass, routine, to_free>>

RunSimple ==
    /\ AtRun /\ RunAt.kind = "plain"
    /\ ContinueAfter(Len(run) + 1)
    /\ UNCHANGED <<outcome, heapVars>> /\ RunUnchanged

RunDecl ==
    /\ AtRun /\ RunAt.kind = "decl"
    /\ ContinueAfter(Len(run) + 1)
    /\ live' = live \cup {Here}
    /\ UNCHANGED <<outcome, wild>> /\ RunUnchanged

RunFree ==
    /\ AtRun /\ RunAt.kind = "free"
    /\ ContinueAfter(Len(run) + 1)
    /\ Release(Freed(RunFrame.block, RunAt))
    /\ UNCHANGED outcome /\ RunUnchanged

\* The free node's variables, then the domains on nested_blocks_stack.
RunReturn ==
    /\ AtRun /\ RunAt.kind = "return"
    /\ Release(Freed(RunFrame.block, RunAt) \cup UNION {Domain(k) : k \in LoopBodies})
    /\ outcome' = "returned"
    /\ UNCHANGED run /\ RunUnchanged

\* An iterator loop copies its domain before its first test.
RunEnter ==
    /\ AtRun
    /\ \E b \in SubBlocks(RunAt) : ContinueIn(Len(run) + 1, b)
    /\ live' = IF RunAt.kind = "iter_loop" THEN live \cup {Here} ELSE live
    /\ UNCHANGED <<outcome, wild>> /\ RunUnchanged

RunSkip ==
    /\ AtRun /\ MaySkip(RunAt)
    /\ ContinueAfter(Len(run) + 1)
    /\ UNCHANGED <<outcome, heapVars>> /\ RunUnchanged

\* Mutant: a break jumps past the release of the domain.
LeaveLoopKeepingDomain(k) == ContinueAfter(k) /\ UNCHANGED heapVars

\* The continue block behind a loop frees the domain.
LeaveLoop(k) == ContinueAfter(k) /\ Release(Domain(k))

NextTurn(k) ==
    \/ ContinueIn(k, LoopOf(k).body) /\ UNCHANGED heapVars
    \/ MayExit(LoopOf(k)) /\ LeaveLoop(k)

RunBreak ==
    /\ AtRun /\ RunAt.kind = "break"
    /\ \E k \in LoopBodies : Innermost(k) /\ LeaveLoop(k)
    /\ UNCHANGED outcome /\ RunUnchanged

RunContinue ==
    /\ AtRun /\ RunAt.kind = "continue"
    /\ \E k \in LoopBodies : Innermost(k) /\ NextTurn(k)
    /\ UNCHANGED outcome /\ RunUnchanged

RunEndOfBlock ==
    /\ CanRun /\ ~InRange(source, RunFrame) /\ Len(run) > 1
    /\ IF Len(run) \in LoopBodies THEN NextTurn(Len(run))
       ELSE ContinueAfter(Len(run)) /\ UNCHANGED heapVars
    /\ UNCHANGED outcome /\ RunUnchanged

Passes ==
    \/ BreakCheck \/ DeclCheck \/ AddFree \/ Define \/ ReturnCheck \/ BreakPrune
    \/ ScopesToFree \/ CodeGen

Run ==
    \/ RunSimple \/ RunDecl \/ RunFree \/ RunReturn \/ RunEnter \/ RunSkip
    \/ RunBreak \/ RunContinue \/ RunEndOfBlock

Done ==
    /\ pass \in {"rejected", "define_crashed", "codegen_crashed"} \/ outcome = "returned"
    /\ UNCHANGED vars

Next == Building \/ Passes \/ Run \/ Done

Spec == Init /\ [][Next]_vars

-----------------------------------------------------------------------------
(* Properties                                                              *)

(***************************************************************************)
(* Nothing is freed twice and nothing is freed that this path did not      *)
(* allocate: neither a variable nor an iterator loop's domain, whatever    *)
(* breaks, continues and returns are between.                              *)
(***************************************************************************)
NoWildFree == wild = {}

(***************************************************************************)
(* The code generator never meets a release whose variable has no value    *)
(* yet (CodeGenASTWalker::visitFreeNode, any_cast<mlir::Value>).           *)
(***************************************************************************)
CodeGenNeverThrows == pass # "codegen_crashed"

\* The variables of S that are declared directly in block b; the domains in S.
DeclaredIn(b, S) == {v \in S : v[1] = b /\ v[2] > 0 /\ source[b][v[2]].kind = "decl"}
Domains(S)       == {v \in S : v[2] > 0 /\ IsLoop(source[v[1]][v[2]])}

(***************************************************************************)
(* A loop body that is left or started again, by its end, by a break or by *)
(* a continue, has released the variables declared directly in it, and so  *)
(* has any block that is left by its end: no turn of a loop leaks, and the *)
(* release AddFreeNodesWalker put last is still there after all pruning.   *)
(***************************************************************************)
BlocksRelease ==
    [][/\ \A k \in LoopBodies :
             Len(run') < k \/ (run # run' /\ run'[k].pc = 1 /\ Len(run') = k)
                 => DeclaredIn(run[k].block, live') = {}
       /\ (CanRun /\ ~InRange(source, RunFrame)
             => DeclaredIn(RunFrame.block, live') = {})]_vars

\* What the body itself declared, what was passed to a procedure by value and
\* the domains of the loops.
BodyIsReleased ==
    /\ DeclaredIn(Root, live) = {}
    /\ Domains(live) = {}
    /\ routine = "procedure" => Parameter \notin live

\* What the execution has declared in the block of frame k so far.
DeclaredSoFar(k) ==
    {<<run[k].block, i>> : i \in {j \in 1..(run[k].pc - 1) : source[run[k].block][j].kind = "decl"}}

(***************************************************************************)
(* What a return releases is the body's own variables, the parameter that  *)
(* was passed to a procedure by value and the domain of every loop it      *)
(* returns from, and nothing else: every variable declared so far in a     *)
(* block nested in the body, around the return, stays allocated for good.  *)
(* Two comments say otherwise, "free everything that was malloc'd"         *)
(* (CodeGenASTWalker.cpp:1882) and "as well as all the scopes up to and    *)
(* including the one stored in this attribute" (AST.h:591): a return's     *)
(* free_node names one scope, and visitFreeNode releases only that one.    *)
(***************************************************************************)
ReturnReleases ==
    outcome = "returned" =>
        BodyIsReleased /\ \A k \in 2..Len(run) : DeclaredSoFar(k) \subseteq live

(***************************************************************************)
(* Outside the iterator loops that are running no domain is allocated.     *)
(***************************************************************************)
OnlyRunningDomains ==
    CanRun => Domains(live) \subseteq UNION {Domain(k) : k \in LoopBodies}

(***************************************************************************)
(* DeclStatementErrorWalker.cpp:11 "if decl comes after any other kind of  *)
(* statement then throw error".                                            *)
(***************************************************************************)
DeclarationsAreFirst ==
    pass \notin {"build", "break_check", "decl_check", "rejected"} => DeclsFirst(stat_nodes)

(***************************************************************************)
(* AST.h:591 "free this scope, as well as all the scopes up to and         *)
(* including the one stored in this attribute": after the release before   *)
(* a break or a continue nothing in the blocks it leaves is allocated.     *)
(***************************************************************************)
FreeReachesOuterScopes ==
    AtRun /\ RunAt.kind \in ExitKind =>
        \A k \in LoopBodies : Innermost(k) =>
            \A j \in k..Len(run) : DeclaredIn(run[j].block, live) = {}

(***************************************************************************)
(* ScopeToFreeWalker.cpp:19 "if this decl is in an inner scope inside      *)
(* main, we don't add it the symbol to the global free list".              *)
(***************************************************************************)
InnerDeclsStayLocal == \A v \in to_free[Global] : v[1] = Root

(***************************************************************************)
(* AddFreeNodesWalker.cpp:84 makes a free_node for every return, and       *)
(* DefineSymbols.cpp:575 visits it without a test for null: when the       *)
(* symbols are defined, every return of the tree has one.                  *)
(***************************************************************************)
ReturnsCanFree == pass = "define" => ReturnsHaveFreeNodes
=============================================================================
