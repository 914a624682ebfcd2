------------------------------- MODULE Paths -------------------------------
(***************************************************************************)
(* The paths through a statement tree: which statements may come after     *)
(* which, when every condition may come out either way.  A position is a   *)
(* block and the index of a statement, or the index behind the last one.   *)
(***************************************************************************)
EXTENDS GazpreaAST, PassFunctions

\* Where control is when the visit of block b has come to its end.
AfterBlock(tree, b) ==
    IF b = Root THEN {}
    ELSE LET o    == Owner(tree, b)
             s    == tree[o[1]][o[2]]
             next == <<o[1], o[2] + 1>>
         IN IF IsLoop(s) THEN {<<s.body, 1>>} \cup (IF MayExit(s) THEN {next} ELSE {})
                         ELSE {next}

\* Where control is after leaf p was executed.
AfterLeaf(tree, p) ==
    LET kind == tree[p[1]][p[2]].kind
    IN CASE kind = "return"   -> {}
         [] kind = "break"    -> LET o == Owner(tree, LoopAround(tree, p[1]))
                                 IN {<<o[1], o[2] + 1>>}
         [] kind = "continue" -> AfterBlock(tree, LoopAround(tree, p[1]))
         [] OTHER             -> {<<p[1], p[2] + 1>>}

\* The steps control takes without executing one of the visible leaves.
Silently(tree, p, visible) ==
    IF p[2] > Len(tree[p[1]]) THEN AfterBlock(tree, p[1])
    ELSE LET s    == tree[p[1]][p[2]]
             next == {<<p[1], p[2] + 1>>}
         IN CASE s.kind \in visible  -> {}
              [] s.kind \in LeafKind \ visible -> next
              [] OTHER -> {<<c, 1>> : c \in SubBlocks(s)}
                          \cup (IF MaySkip(s) THEN next ELSE {})

(***************************************************************************)
(* The visible statements that may be executed next after statement p; p   *)
(* is <<0, 0>> before the first one.                                       *)
(***************************************************************************)
NextStatements(tree, p, visible) ==
    LET first == IF p[1] = 0 THEN {<<Root, 1>>} ELSE AfterLeaf(tree, p)
        positions == UNION {{b} \X (1..(Len(tree[b]) + 1)) : b \in Block}
        reached[n \in 0..Cardinality(positions)] ==
            IF n = 0 THEN first
            ELSE LET known == reached[n - 1]
                 IN known \cup UNION {Silently(tree, q, visible) : q \in known}
    IN {q \in reached[Cardinality(positions)] :
            q[2] \in DOMAIN tree[q[1]] /\ tree[q[1]][q[2]].kind \in visible}

\* The bodies of the loops around block b, and b itself when it is one.
LoopsHolding(tree, b) ==
    LET around[c \in Block] ==
            UNION {around[o[1]] \cup (IF IsLoop(tree[o[1]][o[2]]) THEN {c} ELSE {}) :
                   o \in Owners(tree, c)}
    IN around[b]

\* The bodies of the loops around block b.
LoopsAround(tree, b) == LoopsHolding(tree, b) \ {b}
=============================================================================
