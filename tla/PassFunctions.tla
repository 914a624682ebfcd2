--------------------------- MODULE PassFunctions ---------------------------
(***************************************************************************)
(* What each pass over the statement tree computes, as a function of the   *)
(* tree: the specification the step-by-step walks of ControlFlow are       *)
(* checked against, and the form in which Lifetime runs the passes.        *)
(***************************************************************************)
EXTENDS GazpreaAST, SequencesExt

\* The blocks a walker that is at block "from" reaches, when it visits the
\* first cut[b] statements of each block b.
WalkedFrom(tree, cut, from) ==
    LET below[b \in Block] ==
            {b} \cup UNION {below[c] : c \in UNION {SubBlocks(tree[b][i]) : i \in 1..cut[b]}}
    IN below[from]

Walked(tree, cut) == WalkedFrom(tree, cut, Root)

\* Per block, the first statement that passes the test, or the last one.
FirstOrLast(tree, Test(_)) ==
    [b \in Block |-> LET i == SelectInSeq(tree[b], Test)
                     IN IF i = 0 THEN Len(tree[b]) ELSE i]

\* The blocks from b on, and those of the subroutine.
BlocksFrom(tree, b)   == WalkedFrom(tree, [c \in Block |-> Len(tree[c])], b)
ReachableBlocks(tree) == BlocksFrom(tree, Root)

\* The statement that owns block b, as a position of the tree: the set is
\* empty for the body of the subroutine.
Owners(tree, b) ==
    {at \in UNION {{c} \X DOMAIN tree[c] : c \in Block} :
        b \in SubBlocks(tree[at[1]][at[2]])}

Owner(tree, b) == CHOOSE at \in Owners(tree, b) : TRUE

IsExit(s) == s.kind \in ExitKind

-----------------------------------------------------------------------------
\* BreakContinueStatementErrorWalker: is there a break or continue outside a loop?
HasLooseExit(tree) ==
    LET loose[b \in Block] ==
            \E i \in DOMAIN tree[b] :
                LET s == tree[b][i]
                IN \/ IsExit(s)
                   \/ s.kind \in {"block", "cond"} /\ \E c \in SubBlocks(s) : loose[c]
    IN loose[Root]

(***************************************************************************)
(* DeclStatementErrorWalker: a declaration is rejected when a statement    *)
(* that is neither a declaration nor one with blocks stands before it.     *)
(***************************************************************************)
ClosesDeclarations(s) == s.kind \notin LoopKind \cup {"decl", "block", "cond"}

DeclsAccepted(tree) ==
    \A b \in Block : \A j \in DOMAIN tree[b] : \A i \in 1..(j - 1) :
        ClosesDeclarations(tree[b][i]) => tree[b][j].kind # "decl"

\* The scope_id AddFreeNodesWalker gives the free_node of a return.
ReturnScope(in_main) == IF in_main THEN MainScope ELSE FuncProcScope

\* Mutant: the release is inserted behind the break or continue.
FreeBehindExit(stats, i) == InsertAt(stats, i + 1, FreeNode(LoopScope))

FreeBeforeExit(stats, i) == InsertAt(stats, i, FreeNode(LoopScope))

(***************************************************************************)
(* AddFreeNodesWalker: a FreeNode before the first break or continue of a  *)
(* block, where the visit of the block ends, or one at its end; and one    *)
(* for every return that was visited.                                      *)
(***************************************************************************)
AddFreeNodes(tree, in_main) ==
    LET exit(b) == SelectInSeq(tree[b], IsExit)
        cut     == FirstOrLast(tree, IsExit)
        seen    == Walked(tree, cut)
        returns(b) == [i \in DOMAIN tree[b] |->
                         IF i <= cut[b] /\ tree[b][i].kind = "return"
                         THEN [tree[b][i] EXCEPT !.scope_id = ReturnScope(in_main)] ELSE tree[b][i]]
    IN [b \in Block |->
          CASE b \notin seen -> tree[b]
            [] b \in seen /\ exit(b) = 0 -> Append(returns(b), FreeNode(CurrentScope))
            [] b \in seen /\ exit(b) # 0 -> FreeBeforeExit(returns(b), exit(b))]

\* The blocks whose visitBlockNode of ControlFlowReturnErrorWalker is true.
Returning(tree) ==
    LET returns[b \in Block] ==
            \E i \in DOMAIN tree[b] :
                LET s == tree[b][i]
                IN \/ s.kind = "return"
                   \/ s.kind = "block" /\ returns[s.body]
                   \/ s.kind = "cond" /\ s.alt # NoBlock /\ returns[s.body] /\ returns[s.alt]
    IN {b \in Block : returns[b]}

ReturnsSurely(s, returning) ==
    \/ s.kind = "return"
    \/ s.kind = "block" /\ s.body \in returning
    \/ s.kind = "cond" /\ SubBlocks(s) \subseteq returning /\ s.alt # NoBlock

\* Both pruning walkers: each block they reach ends where Test first holds.
CutAfter(tree, Test(_)) ==
    LET cut == FirstOrLast(tree, Test)
    IN [b \in Block |-> IF b \in Walked(tree, cut) THEN SubSeq(tree[b], 1, cut[b])
                                                   ELSE tree[b]]

ReturnPruned(tree) ==
    LET returning == Returning(tree)
    IN CutAfter(tree, LAMBDA s : ReturnsSurely(s, returning))

ExitPruned(tree) == CutAfter(tree, IsExit)

-----------------------------------------------------------------------------
(***************************************************************************)
(* ScopeToFreeWalker::in_nested_scope while statement i of block b is      *)
(* visited.  Loop bodies and else blocks set it; leaving one clears it,    *)
(* wherever the walk is then.  If-blocks and nested blocks leave it alone. *)
(***************************************************************************)
InNestedScope(tree, b, i) ==
    LET Clears(s, clears) == \/ IsLoop(s) \/ s.alt # NoBlock
                             \/ s.kind \in {"block", "cond"} /\ s.body \in clears
        leaves[c \in Block] ==      \* the blocks from c on whose visit clears the flag
            LET below == UNION {leaves[d] : d \in UNION {SubBlocks(tree[c][j]) :
                                                          j \in DOMAIN tree[c]}}
            IN IF \E j \in DOMAIN tree[c] : Clears(tree[c][j], below)
               THEN below \cup {c} ELSE below
        StillSet(c, n) == \A j \in 1..(n - 1) : ~Clears(tree[c][j], leaves[Root])
        at[c \in Block] ==          \* the flag when the visit of block c starts
            \E o \in Owners(tree, c) :
                \/ IsLoop(tree[o[1]][o[2]])
                \/ c = tree[o[1]][o[2]].alt
                \/ at[o[1]] /\ StillSet(o[1], o[2])
    IN at[b] /\ StillSet(b, i)

Global == 0             \* the global scope; the scope of a block is the block

\* The positions of the declarations of vectors, matrices and tuples.
Declarations(tree) ==
    {at \in UNION {{b} \X DOMAIN tree[b] : b \in ReachableBlocks(tree)} :
        tree[at[1]][at[2]].kind = "decl"}

\* Mutant: symbols_to_free of the subroutine's scope for every declaration.
SymbolsOfTheBody(tree, in_main) ==
    [scope \in {Global} \cup Block |-> IF scope = Root THEN Declarations(tree) ELSE {}]

\* symbols_to_free of every scope, without the parameters.
SymbolsToFree(tree, in_main) ==
    [scope \in {Global} \cup Block |->
        {at \in Declarations(tree) :
            scope = IF in_main /\ ~InNestedScope(tree, at[1], at[2]) THEN Global ELSE at[1]}]

\* loop_scope_stack.top() in block b: the body of the innermost loop around it.
LoopAround(tree, b) ==
    LET loop[c \in Block] ==        \* empty outside every loop
            UNION {IF IsLoop(tree[o[1]][o[2]]) THEN {c} ELSE loop[o[1]] : o \in Owners(tree, c)}
    IN CHOOSE c \in Block : c \in loop[b]

\* Mutant: a break releases the subroutine's scope.
BreakFreesTheBody(tree, b, scope_id) ==
    CASE scope_id = CurrentScope -> b
      [] scope_id \in {FuncProcScope, LoopScope} -> Root
      [] scope_id = MainScope    -> Global

\* Mutant: a return releases the block it is in.
ReturnFreesItsBlock(tree, b, scope_id) ==
    CASE scope_id \in {CurrentScope, FuncProcScope} -> b
      [] scope_id = LoopScope -> LoopAround(tree, b)
      [] scope_id = MainScope -> Global

\* scope_to_free_up_to of a FreeNode (or of a return's) in block b.
ScopeToFree(tree, b, scope_id) ==
    CASE scope_id = CurrentScope  -> b
      [] scope_id = FuncProcScope -> Root
      [] scope_id = LoopScope     -> LoopAround(tree, b)
      [] scope_id = MainScope     -> Global

\* The positions the code generator has visited when it comes to statement i
\* of block b: a statement is visited before its body, a body before its else.
VisitedBefore(tree, b, i) ==
    LET inside(d) == UNION {{c} \X DOMAIN tree[c] : c \in BlocksFrom(tree, d)}
        upto(c, n) ==
            ({c} \X (1..(n - 1))) \cup
            UNION {inside(d) : d \in UNION {SubBlocks(tree[c][j]) : j \in 1..(n - 1)}}
        before[c \in Block] ==
            UNION {before[o[1]] \cup upto(o[1], o[2]) \cup {o} \cup
                   (IF c = tree[o[1]][o[2]].alt THEN inside(tree[o[1]][o[2]].body) ELSE {}) :
                   o \in Owners(tree, c)}
    IN before[b] \cup upto(b, i)
=============================================================================
