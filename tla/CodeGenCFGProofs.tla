-------------------------- MODULE CodeGenCFGProofs --------------------------
(***************************************************************************)
(* Proofs about CodeGenCFG, for every bound: what the walk emits for a     *)
(* text whose exits and loops are apart passes the verifier, executed it   *)
(* keeps the stack pointers balanced, and it executes only what the text   *)
(* may do: CodeGenCFG implements StructuredProgram.                        *)
(*                                                                         *)
(* The first part says what the passes before leave of the tree, the       *)
(* second what the statements emit, the third is about the frames of the   *)
(* walk, and the fourth about the actions.  The next is about the stack    *)
(* pointers: which of them each block of the graph finds saved.  The last  *)
(* is about the statements: which may come after each operation.           *)
(***************************************************************************)
EXTENDS CodeGenCFG, PassLemmas

-----------------------------------------------------------------------------
(* The tree the code generator walks.                                      *)

\* The kinds of the statements that may emit one operation only.
One == {"pre_loop", "post_loop"} \cup (IF returns_value THEN {} ELSE {"return"})

\* What AddFreeNodes keeps.
LEMMA ReleasesKeepRules ==
    ASSUME NEW raw \in Tree, ParentsFirst(raw), NoFrees(raw), NoNestedExits(raw),
           NEW one, one \cap (ExitKind \cup {"free"}) = {}, Apart(raw, one),
           NEW tree, tree = AddFreeNodes(raw, FALSE)
    PROVE  /\ tree \in Tree /\ ParentsFirst(tree) /\ NoNestedExits(tree)
           /\ \A b \in Block : NoExits(raw, b) => NoExits(tree, b)
           /\ \A b \in Block : \A i \in DOMAIN tree[b] : ApartWhenReleased(tree, one, b, i)
           /\ Returning(raw) \subseteq Returning(tree)
  <1>1. tree \in Tree /\ \E W \in SUBSET Block : ReleasesAt(raw, tree, W, FALSE)
    BY AddFreeNodesProps
  <1>2. PICK W \in SUBSET Block : ReleasesAt(raw, tree, W, FALSE)
    BY <1>1
  <1>3. \A b \in Block : /\ Len(tree[b]) \in Nat /\ DOMAIN tree[b] = 1..Len(tree[b])
                         /\ Len(raw[b]) \in Nat /\ DOMAIN raw[b] = 1..Len(raw[b])
    BY <1>1, StatsOfTree
  <1>4. ASSUME NEW b \in Block
        PROVE  \E e \in Nat :
                 /\ OneMore(raw, tree, b, e, FALSE)
                 /\ \A i \in DOMAIN tree[b] : i > e =>
                       e + 1 \in DOMAIN tree[b] /\ IsExit(tree[b][e + 1])
                 /\ \A i \in DOMAIN tree[b] :
                       tree[b][i].kind # "free" \/ SubBlocks(tree[b][i]) # {} =>
                          \E j : Source(raw, tree, b, e, i, j)
    <2>1. PICK e \in Nat : /\ OneMore(raw, tree, b, e, FALSE)
                           /\ \A i \in DOMAIN tree[b] : i > e =>
                                 e + 1 \in DOMAIN tree[b] /\ IsExit(tree[b][e + 1])
      BY <1>1, <1>2, ReleasesPlaced
    <2>2. ASSUME NEW i \in DOMAIN tree[b], tree[b][i].kind # "free" \/ SubBlocks(tree[b][i]) # {}
          PROVE  \E j : Source(raw, tree, b, e, i, j)
      <3>1. i \in Nat
        BY <1>1, StatsOfTree
      <3>. QED BY <1>1, <2>1, <2>2, <3>1, Sources
    <2>. QED BY <2>1, <2>2
  <1>5. ASSUME NEW b \in Block, NEW i \in DOMAIN tree[b],
               tree[b][i].kind # "free" \/ SubBlocks(tree[b][i]) # {}
        PROVE  \E j \in DOMAIN raw[b] : /\ tree[b][i].kind = raw[b][j].kind
                                        /\ tree[b][i].body = raw[b][j].body
                                        /\ SubBlocks(tree[b][i]) = SubBlocks(raw[b][j])
    BY <1>4, <1>5 DEF Source
  <1>6. ParentsFirst(tree)
    <2>1. \A b \in Block : \A i \in DOMAIN tree[b] : SubBlocks(tree[b][i]) # {} =>
             \E j \in DOMAIN raw[b] : SubBlocks(tree[b][i]) = SubBlocks(raw[b][j])
      BY <1>5
    <2>. QED BY <1>1, <2>1, ParentsStayFirst
  <1>7. \A b \in Block : NoExits(raw, b) => NoExits(tree, b)
    <2>1. "free" \notin ExitKind
      BY DEF ExitKind
    <2>. QED BY <1>5, <2>1 DEF NoExits, IsExit
  <1>8. NoNestedExits(tree)
    <2>1. SUFFICES ASSUME NEW b \in Block, NEW i \in DOMAIN tree[b], tree[b][i].kind = "block"
                   PROVE  NoExits(tree, tree[b][i].body)
      BY DEF NoNestedExits, NoExits
    <2>2. PICK j \in DOMAIN raw[b] : raw[b][j].kind = "block" /\ raw[b][j].body = tree[b][i].body
      BY <1>5, <2>1
    <2>3. tree[b][i].body \in Block
      BY <1>1, <2>1, StatsOfTree, BodiesAreBlocks
    <2>4. NoExits(raw, raw[b][j].body)
      BY <2>2 DEF NoNestedExits, NoExits
    <2>. QED BY <1>7, <2>2, <2>3, <2>4
  <1>9. ASSUME NEW b \in Block, NEW i \in DOMAIN tree[b], tree[b][i].kind \in one, b # Root,
               Early(tree, b, i)
        PROVE  /\ i > 1 => tree[b][i - 1].kind \in LeafKind \ {"free"}
               /\ i = 1 => \A c \in Block : \A j \in DOMAIN tree[c] :
                               tree[c][j].body = b => tree[c][j].kind # "block"
    <2>1. PICK e \in Nat :
             /\ OneMore(raw, tree, b, e, FALSE)
             /\ \A k \in DOMAIN tree[b] : k > e =>
                   e + 1 \in DOMAIN tree[b] /\ IsExit(tree[b][e + 1])
             /\ \A k \in DOMAIN tree[b] : tree[b][k].kind # "free" \/ SubBlocks(tree[b][k]) # {} =>
                   \E j : Source(raw, tree, b, e, k, j)
      BY <1>4
    <2>2. tree[b][i].kind # "free" /\ ~IsExit(tree[b][i])
      BY <1>9 DEF IsExit
    <2>3. PICK j : Source(raw, tree, b, e, i, j)
      BY <2>1, <2>2
    <2>4. i \in Nat /\ i >= 1 /\ e \in Nat
      <3>1. i \in Nat \ {0}
        BY <1>1, StatsOfTree
      <3>. QED BY <3>1
    <2>5. ~(i > e)
      <3>1. SUFFICES ASSUME i > e PROVE FALSE
        OBVIOUS
      <3>2. e + 1 \in DOMAIN tree[b] /\ IsExit(tree[b][e + 1])
        BY <2>1, <3>1
      <3>3. e + 1 = i \/ e + 1 \in 1..(i - 1)
        BY <2>4, <3>1
      <3>. QED BY <1>9, <2>2, <3>2, <3>3 DEF Early
    <2>6. i < e /\ i \in DOMAIN raw[b] /\ raw[b][i].kind \in one
      <3>1. i # e /\ ~(i > e)
        BY <2>3, <2>5 DEF Source
      <3>2. i < e
        BY <2>4, <3>1
      <3>. QED BY <1>9, <2>3, <3>2 DEF Source
    <2>7. ASSUME i > 1 PROVE tree[b][i - 1].kind \in LeafKind \ {"free"}
      <3>1. PICK k : k = i - 1
        OBVIOUS
      <3>2. k \in DOMAIN tree[b] /\ k < e /\ k # e /\ ~(k > e)
        <4>1. PICK n : n = Len(tree[b])
          OBVIOUS
        <4>2. i \in 1..n /\ n \in Nat /\ DOMAIN tree[b] = 1..n
          BY <1>3, <4>1
        <4>3. k \in 1..n /\ k < e /\ k # e /\ ~(k > e)
          BY ONLY <2>4, <2>6, <2>7, <3>1, <4>2
        <4>. QED BY <4>2, <4>3
      <3>3. CameFrom(raw, tree, b, k, k, FALSE)
        BY <2>1, <3>2 DEF OneMore
      <3>4. k \in DOMAIN raw[b] /\ tree[b][k].kind = raw[b][k].kind
        BY <3>3 DEF CameFrom, Marked
      <3>5. raw[b][k].kind \in LeafKind /\ raw[b][k].kind # "free"
        BY <1>9, <2>6, <2>7, <3>1, <3>4 DEF Apart, NoFrees
      <3>. QED BY <3>1, <3>4, <3>5
    <2>8. ASSUME i = 1, NEW c \in Block, NEW k \in DOMAIN tree[c], tree[c][k].body = b,
                 tree[c][k].kind = "block"
          PROVE  FALSE
      <3>1. PICK l \in DOMAIN raw[c] : raw[c][l].kind = "block" /\ raw[c][l].body = b
        <4>1. tree[c][k].kind # "free"
          BY <2>8
        <4>2. \E l \in DOMAIN raw[c] : /\ tree[c][k].kind = raw[c][l].kind
                                      /\ tree[c][k].body = raw[c][l].body
          BY <1>5, <4>1
        <4>. QED BY <2>8, <4>2
      <3>2. ~(i > 1)
        BY <2>8
      <3>. QED BY <1>9, <2>6, <3>1, <3>2 DEF Apart
    <2>. QED BY <2>7, <2>8
  <1>10. Returning(raw) \subseteq Returning(tree)
    <2>1. SUFFICES ASSUME Returning(raw) \ Returning(tree) # {} PROVE FALSE
      OBVIOUS
    <2>2. /\ Returning(raw) \subseteq Block
          /\ \A b \in Block : b \in Returning(raw) <=>
                \E i \in DOMAIN raw[b] : ReturnsSurely(raw[b][i], Returning(raw))
          /\ \A b \in Block : b \in Returning(tree) <=>
                \E i \in DOMAIN tree[b] : ReturnsSurely(tree[b][i], Returning(tree))
      BY <1>1, ReturningDef
    <2>3. PICK D \in SUBSET Block : D = Returning(raw) \ Returning(tree)
      BY <2>2
    <2>4. PICK b \in D : \A x \in D : x <= b
      BY <2>1, <2>3, GreatestBlock
    <2>5. PICK j \in DOMAIN raw[b] : ReturnsSurely(raw[b][j], Returning(raw))
      BY <2>2, <2>3, <2>4
    <2>6. PICK i \in DOMAIN tree[b] : Marked(raw[b][j], tree[b][i], FALSE)
      BY <1>1, <1>2, <2>3, <2>4, ReleasesPlaced
    <2>7. /\ tree[b][i].kind = raw[b][j].kind /\ tree[b][i].body = raw[b][j].body
          /\ tree[b][i].alt = raw[b][j].alt /\ SubBlocks(tree[b][i]) = SubBlocks(raw[b][j])
      BY <2>6 DEF Marked, SubBlocks
    <2>8. \A c \in SubBlocks(raw[b][j]) : c \in Block /\ b < c
      BY StatsOfTree, StatProps, <2>3, <2>4 DEF ParentsFirst
    <2>9. \A c \in SubBlocks(raw[b][j]) : c \in Returning(raw) => c \in Returning(tree)
      <3>1. \A c \in SubBlocks(raw[b][j]) : ~(c <= b)
        BY <2>8, <2>3, <2>4 DEF Block
      <3>. QED BY <2>3, <2>4, <3>1
    <2>10. raw[b][j].kind \in {"block", "cond"} => raw[b][j].body \in SubBlocks(raw[b][j])
      BY StatsOfTree, StatProps, <2>3, <2>4 DEF LeafKind, ExitKind
    <2>11. ReturnsSurely(tree[b][i], Returning(tree))
      BY <2>5, <2>7, <2>9, <2>10 DEF ReturnsSurely
    <2>. QED BY <2>2, <2>3, <2>4, <2>11
  <1>. QED BY <1>1, <1>6, <1>7, <1>8, <1>9, <1>10 DEF ApartWhenReleased

\* What the passes leave: the tree, its blocks that are walked, those that return.
LEMMA PassesLeaveTheFacts ==
    ASSUME NEW raw \in Tree, ParentsFirst(raw), NoFrees(raw), NoNestedExits(raw), Accepted(raw),
           NEW one, one \cap (ExitKind \cup {"free"}) = {}, Apart(raw, one),
           NEW released, released = AddFreeNodes(raw, FALSE),
           NEW tree, tree = ExitPruned(ReturnPruned(released))
    PROVE  /\ tree \in Tree
           /\ \E R, Y \in SUBSET Block : TreeFacts(tree, TerminalConds(released), one, R, Y)
  <1>1. /\ released \in Tree /\ ParentsFirst(released) /\ NoNestedExits(released)
        /\ \A b \in Block : NoExits(raw, b) => NoExits(released, b)
        /\ \A b \in Block : \A i \in DOMAIN released[b] : ApartWhenReleased(released, one, b, i)
        /\ Returning(raw) \subseteq Returning(released)
    BY ReleasesKeepRules
  <1>2. PICK middle : middle = ReturnPruned(released)
    OBVIOUS
  <1>3. Shortened(released, middle) /\ middle \in Tree
    BY <1>1, <1>2, ReturnPrunedProps DEF Shortened
  <1>4. PICK V \in SUBSET Block : PrunedAt(released, middle, Returns(released), V)
    BY <1>1, <1>2, ReturnPrunedProps
  <1>5. ParentsFirst(middle)
    BY <1>1, <1>3, ShortenedParents
  <1>6. Shortened(middle, tree) /\ tree \in Tree
    BY <1>2, <1>3, <1>5, ExitPrunedProps DEF Shortened
  <1>7. PICK W \in SUBSET Block : PrunedAt(middle, tree, Exits(middle), W)
    BY <1>2, <1>3, <1>5, ExitPrunedProps
  <1>8. PICK Y \in SUBSET Block : Y = V \cap W
    OBVIOUS
  <1>9. PICK R \in SUBSET Block : /\ R = Returning(released)
                                 /\ \A b \in Block : b \in R <=>
                                      \E i \in DOMAIN released[b] : ReturnsSurely(released[b][i], R)
    BY <1>1, ReturningDef
  <1>10. \A b \in Block : /\ Len(tree[b]) \in Nat /\ DOMAIN tree[b] = 1..Len(tree[b])
                          /\ Len(middle[b]) \in Nat /\ DOMAIN middle[b] = 1..Len(middle[b])
                          /\ Len(released[b]) \in Nat /\ DOMAIN released[b] = 1..Len(released[b])
    BY <1>1, <1>3, <1>6, StatsOfTree
  <1>11. ASSUME NEW b \in Block, NEW i \in DOMAIN tree[b]
         PROVE  /\ i \in Nat \ {0} /\ tree[b][i] \in Stat
                /\ i \in DOMAIN middle[b] /\ i \in DOMAIN released[b]
                /\ tree[b][i] = middle[b][i] /\ tree[b][i] = released[b][i]
                /\ Len(tree[b]) <= Len(middle[b])
    <2>1. i \in Nat \ {0} /\ tree[b][i] \in Stat
      BY <1>6, StatsOfTree
    <2>2. i \in DOMAIN middle[b] /\ tree[b][i] = middle[b][i] /\ Len(tree[b]) <= Len(middle[b])
      BY <1>6 DEF Shortened
    <2>3. i \in DOMAIN released[b] /\ middle[b][i] = released[b][i]
      BY <1>3, <2>2 DEF Shortened
    <2>. QED BY <2>1, <2>2, <2>3
  <1>12. \A b \in Block : /\ Returns(released)[b] = {i \in DOMAIN released[b] : ReturnsSurely(released[b][i], R)}
                          /\ Exits(middle)[b] = {i \in DOMAIN middle[b] : IsExit(middle[b][i])}
    BY <1>9, <1>10 DEF Returns, Exits
  <1>13. Root \in Y /\ Root \in R
    BY <1>1, <1>4, <1>7, <1>8, <1>9 DEF PrunedAt, Accepted
  <1>14. \A b \in Block : NoExits(released, b) => NoExits(tree, b)
    BY <1>11 DEF NoExits
  <1>15. NoExits(tree, Root)
    <2>1. PICK X \in SUBSET Block : ExitFree(raw, X)
      BY NoLooseExitIsAccepted DEF Accepted, NoLooseExit
    <2>2. NoExits(raw, Root)
      BY <2>1 DEF ExitFree, NoExits
    <2>. QED BY <1>1, <1>14, <2>2, RootIsBlock
  <1>16. ASSUME NEW b \in Y, NEW i \in DOMAIN tree[b]
         PROVE  SubBlocks(tree[b][i]) \subseteq Y \ {Root}
    <2>1. SubBlocks(tree[b][i]) \subseteq W
      BY <1>7, <1>8 DEF PrunedAt
    <2>2. i \in DOMAIN middle[b] /\ tree[b][i] = middle[b][i]
      BY <1>8, <1>11
    <2>3. SubBlocks(tree[b][i]) \subseteq V
      BY <1>4, <1>8, <2>2 DEF PrunedAt
    <2>4. \A c \in SubBlocks(tree[b][i]) : c \in Block /\ b < c
      BY <1>5, <1>8, <2>1, <2>2 DEF ParentsFirst
    <2>5. Root \notin SubBlocks(tree[b][i])
      <3>1. b \in Nat /\ b >= 1
        BY <1>8, MaxBlocksAssumption DEF Block
      <3>2. ~(b < Root)
        BY <3>1 DEF Root
      <3>. QED BY <2>4, <3>2
    <2>. QED BY <1>8, <2>1, <2>3, <2>5
  <1>17. ASSUME NEW b \in Y, NEW i \in DOMAIN tree[b]
         PROVE  Placed(tree, R, b, i)
    <2>1. b \in Block /\ b \in V /\ b \in W
      BY <1>8
    <2>2. ASSUME IsExit(tree[b][i]) PROVE i = Len(tree[b])
      <3>1. i \in Exits(middle)[b]
        BY <1>11, <1>12, <2>1, <2>2
      <3>. QED BY <1>7, <2>1, <3>1 DEF PrunedAt
    <2>3. ASSUME ReturnsSurely(tree[b][i], R) PROVE i = Len(tree[b]) /\ b \in R
      <3>1. i \in Returns(released)[b] /\ i \in DOMAIN middle[b] /\ Len(tree[b]) <= Len(middle[b])
        BY <1>11, <1>12, <2>1, <2>3
      <3>2. i = Len(middle[b])
        BY <1>4, <2>1, <3>1 DEF PrunedAt
      <3>3. PICK n : n = Len(tree[b])
        OBVIOUS
      <3>4. i \in 1..n /\ n \in Nat /\ n <= i
        BY <1>10, <2>1, <3>1, <3>2, <3>3
      <3>5. i = Len(tree[b])
        BY ONLY <3>3, <3>4
      <3>6. i \in DOMAIN released[b] /\ ReturnsSurely(released[b][i], R)
        BY <1>11, <2>1, <2>3
      <3>7. b \in R
        BY <1>9, <2>1, <3>6
      <3>. QED BY <3>5, <3>7
    <2>. QED BY <2>2, <2>3 DEF Placed
  <1>18. ASSUME NEW b \in Y, NEW i \in DOMAIN tree[b]
         PROVE  <<b, i>> \in TerminalConds(released)
                   <=> tree[b][i].kind = "cond" /\ ReturnsSurely(tree[b][i], R)
    <2>1. b \in Block /\ i \in DOMAIN released[b] /\ tree[b][i] = released[b][i]
      BY <1>8, <1>11
    <2>2. TerminalConds(released) =
             UNION {{<<c, j>> : j \in {k \in DOMAIN released[c] :
                        released[c][k].kind = "cond" /\ ReturnsSurely(released[c][k], R)}} : c \in Block}
      BY <1>9 DEF TerminalConds
    <2>3. ASSUME <<b, i>> \in TerminalConds(released)
          PROVE  released[b][i].kind = "cond" /\ ReturnsSurely(released[b][i], R)
      <3>1. PICK c \in Block : <<b, i>> \in
               {<<c, j>> : j \in {k \in DOMAIN released[c] :
                        released[c][k].kind = "cond" /\ ReturnsSurely(released[c][k], R)}}
        BY <2>2, <2>3
      <3>2. PICK j \in DOMAIN released[c] : /\ <<b, i>> = <<c, j>>
                                           /\ released[c][j].kind = "cond"
                                           /\ ReturnsSurely(released[c][j], R)
        BY <3>1
      <3>. QED BY <3>2
    <2>4. ASSUME released[b][i].kind = "cond" /\ ReturnsSurely(released[b][i], R)
          PROVE  <<b, i>> \in TerminalConds(released)
      <3>1. PICK c \in Block : c = b
        BY <2>1
      <3>2. i \in {k \in DOMAIN released[c] :
                    released[c][k].kind = "cond" /\ ReturnsSurely(released[c][k], R)}
        BY <2>1, <2>4, <3>1
      <3>3. <<b, i>> \in
               {<<c, j>> : j \in {k \in DOMAIN released[c] :
                        released[c][k].kind = "cond" /\ ReturnsSurely(released[c][k], R)}}
        BY <3>1, <3>2
      <3>. DEFINE At(d) == {<<d, j>> : j \in {k \in DOMAIN released[d] :
                        released[d][k].kind = "cond" /\ ReturnsSurely(released[d][k], R)}}
      <3>4. TerminalConds(released) = UNION {At(d) : d \in Block}
        BY <2>2
      <3>5. <<b, i>> \in At(c)
        BY <3>3
      <3>. HIDE DEF At
      <3>. QED BY <3>4, <3>5
    <2>. QED BY <2>1, <2>3, <2>4
  <1>19. ASSUME NEW b \in Y, NEW i \in DOMAIN tree[b], tree[b][i].kind = "block"
         PROVE  NoExits(tree, tree[b][i].body)
    <2>1. b \in Block /\ i \in DOMAIN released[b] /\ tree[b][i] = released[b][i]
      BY <1>8, <1>11
    <2>2. tree[b][i].body \in Block
      BY <1>11, <1>19, <2>1, BodiesAreBlocks
    <2>3. NoExits(released, tree[b][i].body)
      BY <1>1, <1>19, <2>1 DEF NoNestedExits, NoExits
    <2>. QED BY <1>14, <2>2, <2>3
  <1>20. ASSUME NEW b \in Y, NEW i \in DOMAIN tree[b], tree[b][i].kind \in one, b # Root
         PROVE  /\ i > 1 => tree[b][i - 1].kind \in {"decl", "plain"}
                /\ i = 1 => \A c \in Y : \A j \in DOMAIN tree[c] :
                                tree[c][j].body = b => tree[c][j].kind # "block"
    <2>1. /\ b \in Block /\ i \in DOMAIN released[b] /\ tree[b][i] = released[b][i]
          /\ i \in Nat \ {0}
      BY <1>8, <1>11
    <2>2. PICK n \in Nat : n = Len(tree[b]) /\ DOMAIN tree[b] = 1..n
      BY <1>10, <2>1
    <2>3. \A j \in 1..(i - 1) : j \in DOMAIN tree[b] /\ j # n
      <3>1. i \in 1..n
        BY <2>2
      <3>2. \A j \in 1..(i - 1) : j \in 1..n /\ j # n
        BY ONLY <3>1, n \in Nat
      <3>. QED BY <2>2, <3>2
    <2>4. \A j \in 1..(i - 1) : ~IsExit(tree[b][j]) /\ ~ReturnsSurely(tree[b][j], R)
      BY <1>17, <2>2, <2>3 DEF Placed
    <2>5. Early(released, b, i)
      BY <1>11, <2>1, <2>3, <2>4 DEF Early
    <2>6. ApartWhenReleased(released, one, b, i)
      BY <1>1, <2>1
    <2>7. ASSUME i > 1 PROVE tree[b][i - 1].kind \in {"decl", "plain"}
      <3>1. PICK k : k = i - 1
        OBVIOUS
      <3>2. k \in 1..(i - 1)
        BY <2>1, <2>7, <3>1
      <3>3. k \in DOMAIN tree[b] /\ ~IsExit(tree[b][k]) /\ ~ReturnsSurely(tree[b][k], R)
        BY <2>3, <2>4, <3>2
      <3>4. tree[b][k] = released[b][k]
        BY <1>11, <2>1, <3>3
      <3>5. tree[b][k].kind \in LeafKind \ {"free"}
        BY <1>20, <2>1, <2>5, <2>6, <2>7, <3>1, <3>4 DEF ApartWhenReleased
      <3>. QED BY <3>1, <3>3, <3>5 DEF LeafKind, IsExit, ReturnsSurely
    <2>8. ASSUME i = 1, NEW c \in Y, NEW j \in DOMAIN tree[c], tree[c][j].body = b
          PROVE  tree[c][j].kind # "block"
      <3>1. c \in Block /\ j \in DOMAIN released[c] /\ tree[c][j] = released[c][j]
        BY <1>8, <1>11
      <3>. QED BY <1>20, <2>1, <2>5, <2>6, <2>8, <3>1 DEF ApartWhenReleased
    <2>. QED BY <2>7, <2>8
  <1>21. ASSUME NEW b \in Y \cap R, NoExits(tree, b)
         PROVE  Len(tree[b]) > 0 /\ ReturnsSurely(tree[b][Len(tree[b])], R)
    <2>1. b \in Block /\ b \in V /\ b \in W /\ b \in R
      BY <1>8
    <2>2. Returns(released)[b] # {}
      BY <1>9, <1>12, <2>1
    <2>3. Len(middle[b]) \in Returns(released)[b]
      BY <1>4, <2>1, <2>2 DEF PrunedAt
    <2>4. PICK m : m = Len(middle[b])
      OBVIOUS
    <2>5. m \in DOMAIN released[b] /\ ReturnsSurely(released[b][m], R)
      BY <1>12, <2>1, <2>3, <2>4
    <2>6. m \in DOMAIN middle[b] /\ m > 0
      <3>1. Len(released[b]) \in Nat /\ DOMAIN released[b] = 1..Len(released[b])
            /\ m \in Nat /\ DOMAIN middle[b] = 1..m
        BY <1>10, <2>1, <2>4
      <3>2. m \in 1..Len(released[b])
        BY <2>5, <3>1
      <3>. QED BY <3>1, <3>2
    <2>7. middle[b][m] = released[b][m]
      BY <1>3, <2>1, <2>6 DEF Shortened
    <2>8. tree[b] = middle[b]
      <3>1. SUFFICES ASSUME Exits(middle)[b] # {} PROVE FALSE
        BY <1>7, <2>1 DEF PrunedAt
      <3>2. Len(tree[b]) \in Exits(middle)[b]
        BY <1>7, <2>1, <3>1 DEF PrunedAt
      <3>3. PICK k : k = Len(tree[b])
        OBVIOUS
      <3>4. k \in DOMAIN middle[b] /\ IsExit(middle[b][k])
        BY <1>12, <2>1, <3>2, <3>3
      <3>5. k \in DOMAIN tree[b]
        <4>1. k \in Nat /\ DOMAIN tree[b] = 1..k /\ k \in 1..Len(middle[b])
          BY <1>10, <2>1, <3>3, <3>4
        <4>2. k \in 1..k
          BY ONLY <4>1
        <4>. QED BY <4>1, <4>2
      <3>. QED BY <1>11, <1>21, <2>1, <3>4, <3>5 DEF NoExits
    <2>. QED BY <2>4, <2>5, <2>6, <2>7, <2>8
  <1>22. TreeFacts(tree, TerminalConds(released), one, R, Y)
    <2>1. \A b \in Y : \A i \in DOMAIN tree[b] : StandsApart(tree, one, Y, b, i)
      BY <1>20 DEF StandsApart
    <2>2. \A b \in Y : \A i \in DOMAIN tree[b] :
             /\ SubBlocks(tree[b][i]) \subseteq Y \ {Root}
             /\ Placed(tree, R, b, i)
             /\ <<b, i>> \in TerminalConds(released)
                  <=> tree[b][i].kind = "cond" /\ ReturnsSurely(tree[b][i], R)
             /\ tree[b][i].kind = "block" => NoExits(tree, tree[b][i].body)
             /\ StandsApart(tree, one, Y, b, i)
      BY <1>16, <1>17, <1>18, <1>19, <2>1
    <2>3. \A b \in Y \cap R : NoExits(tree, b) =>
             Len(tree[b]) > 0 /\ ReturnsSurely(tree[b][Len(tree[b])], R)
      BY <1>21
    <2>. QED BY ONLY <1>13, <1>15, <2>2, <2>3 DEF TreeFacts
  <1>. QED BY <1>6, <1>22

-----------------------------------------------------------------------------
(* What the statements emit.  IsSeq: a sequence of whatever.               *)

\* The statements without blocks: operations, or operations and a terminator.
LEMMA LeafOpsProps ==
    ASSUME NEW s, s.kind \in LeafKind, NEW p, NEW new, new = LeafOps(s, p)
    PROVE  /\ IsSeq(new)
           /\ \/ s.kind \in {"decl", "plain", "free"} /\ NoTerminators(new, Len(new))
              \/ /\ s.kind \in ExitKind \cup {"return"} /\ Ended(new)
                 /\ Len(new) = 2 \/ (Len(new) = 1 /\ s.kind = "return" /\ ~returns_value)
  <1>1. CASE s.kind \in {"decl", "plain", "free"}
    <2>1. new = <<>> \/ new = <<OpOf(p)>>
      BY <1>1 DEF LeafOps
    <2>2. IsSeq(<<>>) /\ IsSeq(<<OpOf(p)>>)
      BY Tuples
    <2>3. NoTerminators(<<>>, Len(<<>>)) /\ NoTerminators(<<OpOf(p)>>, Len(<<OpOf(p)>>))
      BY OpProps, AliveTuples
    <2>4. IsSeq(new) /\ NoTerminators(new, Len(new))
      BY ONLY <2>1, <2>2, <2>3
    <2>. QED BY ONLY <1>1, <2>4
  <1>2. CASE s.kind = "return"
    <2>1. new = IF returns_value THEN <<Plain, Return(p)>> ELSE <<Return(p)>>
      BY <1>2 DEF LeafOps
    <2>2. Ended(<<Return(p)>>) /\ Ended(<<Plain, Return(p)>>)
      BY OpProps, EndedTuples
    <2>3. /\ IsSeq(<<Return(p)>>) /\ IsSeq(<<Plain, Return(p)>>)
          /\ Len(<<Return(p)>>) = 1 /\ Len(<<Plain, Return(p)>>) = 2
      BY Tuples
    <2>4. /\ IsSeq(new) /\ Ended(new)
          /\ Len(new) = 2 \/ (Len(new) = 1 /\ ~returns_value)
      BY ONLY <2>1, <2>2, <2>3
    <2>. QED BY ONLY <1>2, <2>4
  <1>3. CASE s.kind \in ExitKind
    <2>1. PICK x, y : x = [Restore(InnermostLoop.loop) EXCEPT !.stat = p] /\ new = <<x, Br({y})>>
      BY <1>3 DEF LeafOps, ExitKind
    <2>2. ~IsTerminator(x) /\ IsTerminator(Br({y}))
      BY <2>1, OpProps
    <2>3. Ended(<<x, Br({y})>>)
      BY <2>2, EndedTuples
    <2>4. IsSeq(<<x, Br({y})>>) /\ Len(<<x, Br({y})>>) = 2
      BY Tuples
    <2>5. IsSeq(new) /\ Ended(new) /\ Len(new) = 2
      BY ONLY <2>1, <2>3, <2>4
    <2>. QED BY ONLY <1>3, <2>5
  <1>4. s.kind \in {"decl", "plain", "free"} \/ s.kind = "return" \/ s.kind \in ExitKind
    BY DEF LeafKind
  <1>. QED BY <1>1, <1>2, <1>3, <1>4

-----------------------------------------------------------------------------
(* The frames of the walk.                                                 *)

\* A new frame is at the first statement of its block.
LEMMA VisitProps ==
    ASSUME NEW b \in Block
    PROVE  /\ Visit(b) \in CFrame /\ Visit(b).block = b /\ Visit(b).pc = 1
           /\ Visit(b).visiting = 0
  BY DEF Visit, CFrame, Null

\* The next statement.
LEMMA NextFrames ==
    ASSUME NEW tree \in Tree, NEW Y, NEW fs, ChainOK(tree, Y, fs), NEW n, n = Len(fs),
           NEW f, f = Top(fs), NEW new, new = SetTop(fs, [Visit(f.block) EXCEPT !.pc = f.pc + 1])
    PROVE  /\ ChainOK(tree, Y, new) /\ Len(new) = n
           /\ OwnersOf(tree, new) = OwnersOf(tree, fs) \ {n}
           /\ \A k \in OwnersOf(tree, new) : new[k] = fs[k]
           /\ Top(new).block = f.block /\ Top(new).pc = f.pc + 1 /\ Top(new).visiting = 0
  <1>1. /\ n \in Nat /\ n \in 1..n /\ fs # <<>> /\ f = fs[n] /\ f \in CFrame /\ f.block \in Y
        /\ fs \in Seq(CFrame)
    <2>1. /\ Len(fs) \in Nat /\ Len(fs) \in 1..Len(fs) /\ fs # <<>>
          /\ Top(fs) = fs[Len(fs)] /\ Top(fs) \in CFrame /\ Top(fs).block \in Y
      BY ONLY StackTop, ChainOK(tree, Y, fs)
    <2>2. fs \in Seq(CFrame)
      BY DEF ChainOK
    <2>. QED BY ONLY <2>1, <2>2, n = Len(fs), f = Top(fs)
  <1>2. PICK g : g = [Visit(f.block) EXCEPT !.pc = f.pc + 1]
    OBVIOUS
  <1>3. g \in CFrame /\ g.block = f.block /\ g.pc = f.pc + 1 /\ g.visiting = 0
    BY <1>1, <1>2 DEF Visit, CFrame, Null
  <1>4. /\ new \in Seq(CFrame) /\ Len(new) = n
        /\ \A i \in 1..(n - 1) : new[i] = fs[i]
        /\ new[n] = g
    <2>1. new = SetTop(fs, g)
      BY <1>2
    <2>2. /\ SetTop(fs, g) \in Seq(CFrame) /\ Len(SetTop(fs, g)) = Len(fs)
          /\ \A i \in 1..(Len(fs) - 1) : SetTop(fs, g)[i] = fs[i]
          /\ SetTop(fs, g)[Len(fs)] = g
      BY ONLY <1>1, <1>3, SetTopProps
    <2>. QED BY ONLY <2>1, <2>2, n = Len(fs)
  <1>5. \A k \in 1..n : k = n \/ (k \in 1..(n - 1) /\ k # n)
    BY <1>1
  <1>6. ~Owns(tree, g)
    BY <1>3 DEF Owns
  <1>7. OwnersOf(tree, new) = OwnersOf(tree, fs) \ {n}
    BY ONLY <1>4, <1>5, <1>6, n = Len(fs) DEF OwnersOf
  <1>8. \A k \in OwnersOf(tree, new) : new[k] = fs[k]
    BY ONLY <1>4, <1>5, <1>6 DEF OwnersOf
  <1>9. Top(new) = g
    BY <1>4 DEF Top
  <1>10. ChainOK(tree, Y, new)
    <2>1. \A k \in 1..n : new[k].block = fs[k].block
      BY ONLY <1>1, <1>3, <1>4, <1>5
    <2>2. new[1].block = Root /\ n > 0
      BY <1>1, <2>1 DEF ChainOK
    <2>3. ASSUME NEW k \in 1..n
          PROVE  /\ new[k].block \in Y
                 /\ k > 1 => new[k].block # Root
                 /\ new[k].visiting # 0 => Inside(tree, new[k])
                 /\ k < n => new[k].visiting # 0 /\ new[k + 1].block = Child(tree, new[k])
      <3>1. /\ fs[k].block \in Y
            /\ k > 1 => fs[k].block # Root
            /\ fs[k].visiting # 0 => Inside(tree, fs[k])
            /\ k < n => fs[k].visiting # 0 /\ fs[k + 1].block = Child(tree, fs[k])
        BY ONLY ChainOK(tree, Y, fs), n = Len(fs), k \in 1..n DEF ChainOK
      <3>2. CASE k = n
        BY ONLY <1>1, <1>3, <1>4, <2>1, <3>1, <3>2
      <3>3. CASE k \in 1..(n - 1)
        <4>1. k + 1 \in 1..n /\ new[k] = fs[k]
          <5>1. \A i \in 1..(n - 1) : i + 1 \in 1..n
            BY <1>1
          <5>. QED BY ONLY <5>1, <1>4, <3>3
        <4>. QED BY ONLY <2>1, <3>1, <4>1
      <3>. QED BY <1>5, <3>2, <3>3
    <2>. QED BY ONLY <1>4, <2>2, <2>3 DEF ChainOK
  <1>. QED BY <1>3, <1>4, <1>7, <1>8, <1>9, <1>10

\* A block of the statement: g is the frame afterwards.
Descended(tree, Y, fs, g, y, new) ==
    /\ ChainOK(tree, Y, new) /\ Top(new) = Visit(y) /\ new[Len(fs)] = g
    /\ \A k \in OwnersOf(tree, fs) \ {Len(fs)} : new[k] = fs[k]
    /\ OwnersOf(tree, new) =
         (OwnersOf(tree, fs) \ {Len(fs)}) \cup (IF Owns(tree, g) THEN {Len(fs)} ELSE {})

\* The frames stay nested when a block is entered.
LEMMA DescendFrames ==
    ASSUME NEW tree \in Tree, NEW Y \in SUBSET Block, NEW fs, ChainOK(tree, Y, fs),
           NEW f, f = Top(fs),
           NEW g \in CFrame, g.block = f.block, g.pc = f.pc, g.visiting # 0, Inside(tree, g),
           NEW y \in Y \ {Root}, y = Child(tree, g),
           NEW new, new = Append(SetTop(fs, g), Visit(y))
    PROVE  Descended(tree, Y, fs, g, y, new)
  <1>0. PICK n : n = Len(fs)
    OBVIOUS
  <1>1. /\ n \in Nat /\ n \in 1..n /\ fs # <<>> /\ f = fs[n] /\ f \in CFrame /\ f.block \in Y
        /\ fs \in Seq(CFrame)
    <2>1. /\ Len(fs) \in Nat /\ Len(fs) \in 1..Len(fs) /\ fs # <<>>
          /\ Top(fs) = fs[Len(fs)] /\ Top(fs) \in CFrame /\ Top(fs).block \in Y
      BY ONLY StackTop, ChainOK(tree, Y, fs)
    <2>2. fs \in Seq(CFrame)
      BY DEF ChainOK
    <2>. QED BY ONLY <2>1, <2>2, <1>0, f = Top(fs)
  <1>2. PICK v : v = Visit(y)
    OBVIOUS
  <1>3. v \in CFrame /\ v.block = y /\ v.visiting = 0
    BY <1>2, VisitProps
  <1>4. PICK mid : mid = SetTop(fs, g)
    OBVIOUS
  <1>5. /\ mid \in Seq(CFrame) /\ Len(mid) = n
        /\ \A i \in 1..(n - 1) : mid[i] = fs[i]
        /\ mid[n] = g
    <2>1. /\ SetTop(fs, g) \in Seq(CFrame) /\ Len(SetTop(fs, g)) = Len(fs)
          /\ \A i \in 1..(Len(fs) - 1) : SetTop(fs, g)[i] = fs[i]
          /\ SetTop(fs, g)[Len(fs)] = g
      BY ONLY <1>1, SetTopProps, g \in CFrame
    <2>. QED BY ONLY <2>1, <1>4, <1>0
  <1>6. /\ new \in Seq(CFrame) /\ Len(new) = n + 1
        /\ \A i \in 1..n : new[i] = mid[i]
        /\ new[n + 1] = v
    <2>1. new = Append(mid, v)
      BY <1>2, <1>4
    <2>. QED BY ONLY <2>1, <1>3, <1>5, AppendProps
  <1>7. \A k \in 1..(n + 1) : \/ k = n + 1 /\ k \notin 1..n /\ k # n
                              \/ k = n /\ k \in 1..n
                              \/ k \in 1..(n - 1) /\ k \in 1..n /\ k # n /\ k # n + 1
    BY <1>1
  <1>8. new[n] = g /\ \A k \in 1..(n - 1) : new[k] = fs[k]
    <2>1. \A k \in 1..(n - 1) : k \in 1..n
      BY <1>1
    <2>. QED BY ONLY <2>1, <1>1, <1>5, <1>6
  <1>9. ~Owns(tree, v)
    BY <1>3 DEF Owns
  <1>10. \A k \in 1..n : k \in 1..(n + 1)
    BY <1>1
  <1>11. OwnersOf(tree, new) =
            (OwnersOf(tree, fs) \ {n}) \cup (IF Owns(tree, g) THEN {n} ELSE {})
    BY ONLY <1>1, <1>6, <1>7, <1>8, <1>9, <1>10, <1>0 DEF OwnersOf
  <1>12. \A k \in OwnersOf(tree, fs) \ {n} : new[k] = fs[k]
    BY ONLY <1>7, <1>8, <1>10, <1>0 DEF OwnersOf
  <1>13. Top(new) = v
    BY <1>6 DEF Top
  <1>14. ChainOK(tree, Y, new)
    <2>1. \A k \in 1..n : new[k].block = fs[k].block
      BY ONLY <1>1, <1>7, <1>8, <1>10, g.block = f.block
    <2>2. new[1].block = Root /\ n > 0
      BY <1>1, <2>1 DEF ChainOK
    <2>3. ASSUME NEW k \in 1..(n + 1)
          PROVE  /\ new[k].block \in Y
                 /\ k > 1 => new[k].block # Root
                 /\ new[k].visiting # 0 => Inside(tree, new[k])
                 /\ k < n + 1 => new[k].visiting # 0 /\ new[k + 1].block = Child(tree, new[k])
      <3>1. k \in 1..n => /\ fs[k].block \in Y
                          /\ k > 1 => fs[k].block # Root
                          /\ fs[k].visiting # 0 => Inside(tree, fs[k])
                          /\ k < n => fs[k].visiting # 0 /\ fs[k + 1].block = Child(tree, fs[k])
        BY ONLY ChainOK(tree, Y, fs), <1>0 DEF ChainOK
      <3>2. CASE k = n + 1
        <4>1. ~(k < n + 1)
          BY <1>1, <3>2
        <4>. QED BY ONLY <1>3, <1>6, <3>2, <4>1, y \in Y \ {Root}
      <3>3. CASE k = n
        <4>1. k \in 1..n
          BY <1>1, <3>3
        <4>2. new[k].block \in Y /\ (k > 1 => new[k].block # Root)
          BY ONLY <2>1, <3>1, <4>1
        <4>. QED BY ONLY <1>3, <1>6, <1>8, <3>3, <4>2, g.visiting # 0, Inside(tree, g),
                         y = Child(tree, g)
      <3>4. CASE k \in 1..(n - 1)
        <4>1. k + 1 \in 1..n /\ k \in 1..n /\ k < n /\ new[k] = fs[k]
          <5>1. \A i \in 1..(n - 1) : i + 1 \in 1..n /\ i \in 1..n /\ i < n
            BY <1>1
          <5>. QED BY ONLY <5>1, <1>8, <3>4
        <4>. QED BY ONLY <2>1, <3>1, <4>1
      <3>. QED BY <1>7, <3>2, <3>3, <3>4
    <2>4. n + 1 > 0
      BY <1>1
    <2>. QED BY ONLY <1>6, <2>2, <2>3, <2>4 DEF ChainOK
  <1>. QED BY ONLY <1>0, <1>2, <1>8, <1>11, <1>12, <1>13, <1>14 DEF Descended

-----------------------------------------------------------------------------
(* The blocks while the walk is going on.                                  *)

Walking(R, Y) ==
    WalkOK(stat_nodes, is_terminal, One, R, Y, frames, ops, created, point, nested, last)

-----------------------------------------------------------------------------
(* Where the walk is in the tree.                                          *)

\* At the first statement of a block.
LEMMA EnterLive ==
    ASSUME NEW tree \in Tree, NEW terminal, NEW one, NEW R, NEW Y \in SUBSET Block,
           TreeFacts(tree, terminal, one, R, Y), NEW y \in Y \ {Root}, NEW s, NEW d,
           \/ ~(d > 0)
           \/ \E b \in Y : \E i \in 1..Len(tree[b]) :
                 tree[b][i].kind = "block" /\ tree[b][i].body = y
    PROVE  LiveRule(tree, one, R, Visit(y), s, d)
  <1>1. PICK f : f = Visit(y)
    OBVIOUS
  <1>2. f.block = y /\ f.pc = 1 /\ f.visiting = 0
    BY <1>1, VisitProps
  <1>3. PICK n \in Nat : n = Len(tree[y])
    BY DEF Tree
  <1>4. InRange(tree, f) <=> 1 <= n
    BY <1>2, <1>3 DEF InRange
  <1>5. ASSUME InRange(tree, f), StatAt(tree, f).kind \in one, d > 0
        PROVE  FALSE
    <2>1. 1 \in 1..n /\ ~(1 > 1)
      BY <1>3, <1>4, <1>5
    <2>2. StatAt(tree, f) = tree[y][1]
      BY <1>2 DEF StatAt
    <2>3. StandsApart(tree, one, Y, y, 1)
      <3>1. 1 \in 1..Len(tree[y])
        BY ONLY <1>3, <2>1
      <3>2. FactsAt(tree, terminal, one, R, Y, y, 1)
        BY <3>1, StatFacts
      <3>. QED BY ONLY <3>2 DEF FactsAt
    <2>4. PICK b \in Y : \E i \in 1..Len(tree[b]) :
             tree[b][i].kind = "block" /\ tree[b][i].body = y
      BY <1>5
    <2>5. PICK i \in 1..Len(tree[b]) : tree[b][i].kind = "block" /\ tree[b][i].body = y
      BY <2>4
    <2>6. i \in DOMAIN tree[b]
      BY <2>5, StatFacts DEF FactsAt
    <2>. QED BY ONLY <1>5, <2>2, <2>3, <2>5, <2>6, b \in Y, y \in Y \ {Root} DEF StandsApart
  <1>6. ASSUME ~InRange(tree, f), f.block \in R, NoExits(tree, f.block)
        PROVE  FALSE
    <2>1. Len(tree[y]) > 0
      BY <1>2, <1>6, EndFacts
    <2>. QED BY <1>3, <1>4, <1>6, <2>1
  <1>7. LiveRule(tree, one, R, f, s, d)
    BY <1>2, <1>5, <1>6 DEF LiveRule
  <1>. QED BY <1>1, <1>7

-----------------------------------------------------------------------------
(* The steps of the walk.                                                  *)

\* Where the walk is.
Place(R, Y, f, n) ==
    /\ n = Len(frames) /\ n \in Nat /\ n \in 1..n /\ f = Top(frames) /\ f = frames[n]
    /\ f \in CFrame /\ f.block \in Y /\ f.pc \in Nat
    /\ f.visiting # 0 => Inside(stat_nodes, f)
    /\ f.block = Root => OwnersOf(stat_nodes, frames) \ {n} = {}
    /\ n \in OwnersOf(stat_nodes, frames) <=> Owns(stat_nodes, f)
    /\ InRange(stat_nodes, f) =>
          /\ f.pc \in 1..Len(stat_nodes[f.block])
          /\ FactsAt(stat_nodes, is_terminal, One, R, Y, f.block, f.pc)
    /\ created \in Nat /\ point.block \in 1..created /\ IsSeq(ops[point.block])

\* What the invariant says of the statement the walk is at.
LEMMA Position ==
    ASSUME NEW R, NEW Y \in SUBSET Block, Walking(R, Y)
    PROVE  Place(R, Y, F, Len(frames))
  <1>1. PICK f : f = F
    OBVIOUS
  <1>2. PICK n : n = Len(frames)
    OBVIOUS
  <1>3. /\ stat_nodes \in Tree /\ ChainOK(stat_nodes, Y, frames)
        /\ TreeFacts(stat_nodes, is_terminal, One, R, Y)
        /\ BlocksOK(stat_nodes, frames, ops, created, point.block, last)
    BY DEF Walking, WalkOK
  <1>4. /\ n \in Nat /\ n \in 1..n /\ f = frames[n] /\ f \in CFrame /\ f.block \in Y
        /\ f.visiting # 0 => Inside(stat_nodes, f)
        /\ f.block = Root => n = 1
    <2>1. /\ Len(frames) \in Nat /\ Len(frames) \in 1..Len(frames)
          /\ Top(frames) = frames[Len(frames)] /\ Top(frames) \in CFrame
          /\ Top(frames).block \in Y
          /\ Top(frames).visiting # 0 => Inside(stat_nodes, Top(frames))
          /\ Top(frames).block = Root => Len(frames) = 1
      BY ONLY <1>3, StackTop
    <2>. QED BY ONLY <2>1, <1>1, <1>2 DEF F
  <1>5. f.pc \in Nat /\ f.pc # 0 /\ f.block \in Block
    BY <1>4 DEF CFrame
  <1>6. f.block = Root => OwnersOf(stat_nodes, frames) \ {n} = {}
    <2>1. \A k \in 1..1 : k = 1
      OBVIOUS
    <2>. QED BY ONLY <2>1, <1>2, <1>4 DEF OwnersOf
  <1>7. n \in OwnersOf(stat_nodes, frames) <=> Owns(stat_nodes, f)
    BY ONLY <1>2, <1>4 DEF OwnersOf
  <1>8. ASSUME InRange(stat_nodes, f)
        PROVE  /\ f.pc \in 1..Len(stat_nodes[f.block])
               /\ FactsAt(stat_nodes, is_terminal, One, R, Y, f.block, f.pc)
    <2>1. PICK k \in Nat : k = Len(stat_nodes[f.block])
      BY <1>3, <1>5 DEF Tree
    <2>2. f.pc <= k
      BY ONLY <2>1, <1>8 DEF InRange
    <2>3. f.pc \in 1..Len(stat_nodes[f.block])
      BY ONLY <2>1, <2>2, <1>5
    <2>4. FactsAt(stat_nodes, is_terminal, One, R, Y, f.block, f.pc)
      BY ONLY <1>3, <1>4, <2>3, StatFacts, Y \in SUBSET Block
    <2>. QED BY <2>3, <2>4
  <1>9. created \in Nat /\ point.block \in 1..created /\ IsSeq(ops[point.block])
    BY <1>3 DEF BlocksOK, BlockOK
  <1>. QED BY ONLY <1>1, <1>2, <1>4, <1>5, <1>6, <1>7, <1>8, <1>9 DEF Place, F

\* The next statement, for the steps after which the walk is at one.
LEMMA StepOn ==
    ASSUME NEW R, NEW Y \in SUBSET Block, Walking(R, Y), NextStat,
           NEW f, f = F, NEW n, n = Len(frames), NEW fs, fs = frames'
    PROVE  /\ ChainOK(stat_nodes, Y, fs)
           /\ OwnersOf(stat_nodes, fs) = OwnersOf(stat_nodes, frames) \ {n}
           /\ \A k \in OwnersOf(stat_nodes, fs) : fs[k] = frames[k]
           /\ Top(fs).block = f.block /\ Top(fs).pc = f.pc + 1 /\ Top(fs).visiting = 0
           /\ FramesOK(stat_nodes, fs, created)
  <1>1. /\ stat_nodes \in Tree /\ ChainOK(stat_nodes, Y, frames) /\ created \in Nat
        /\ FramesOK(stat_nodes, frames, created)
    BY DEF Walking, WalkOK, BlocksOK
  <1>2. fs = SetTop(frames, [Visit(f.block) EXCEPT !.pc = f.pc + 1])
    BY DEF NextStat
  <1>3. /\ ChainOK(stat_nodes, Y, fs)
        /\ OwnersOf(stat_nodes, fs) = OwnersOf(stat_nodes, frames) \ {n}
        /\ \A k \in OwnersOf(stat_nodes, fs) : fs[k] = frames[k]
        /\ Top(fs).block = f.block /\ Top(fs).pc = f.pc + 1 /\ Top(fs).visiting = 0
    BY ONLY <1>1, <1>2, NextFrames, f = F, n = Len(frames) DEF F
  <1>4. OwnersOf(stat_nodes, fs) \subseteq OwnersOf(stat_nodes, frames)
    BY ONLY <1>3
  <1>5. FramesOK(stat_nodes, fs, created)
    BY ONLY <1>1, <1>3, <1>4, FramesKept
  <1>. QED BY ONLY <1>3, <1>5

\* Before a statement is visited, what it emits can be reached.
LEMMA ReachedIsLive ==
    ASSUME NEW R, NEW Y \in SUBSET Block, Walking(R, Y), InRange(stat_nodes, F), F.visiting = 0
    PROVE  /\ Live(stat_nodes, One, R, frames, ops[point.block], point, last)
           /\ F.block = Root => ~(point.behind > 0)
           /\ StatAt(stat_nodes, F).kind \in One /\ point.behind > 0
                => Len(ops[point.block]) > point.behind
  <1>1. Live(stat_nodes, One, R, frames, ops[point.block], point, last)
    BY DEF Walking, WalkOK, Dead, DeadRule, F
  <1>2. ASSUME F.block = Root, point.behind > 0 PROVE FALSE
    <2>1. OwnersOf(stat_nodes, frames) = {}
      BY <1>2, Position DEF Place, Owns
    <2>2. NestedOK(nested, {}, last)
      BY <2>1 DEF Walking, WalkOK
    <2>3. nested = <<>>
      <3>1. IsSeq(nested) /\ Len(nested) = 0
        BY ONLY <2>2, FS_EmptySet DEF NestedOK
      <3>. QED BY ONLY <3>1, SeqProps
    <2>4. last = Null
      BY <2>2, <2>3 DEF NestedOK
    <2>5. last = point.block
      BY <1>1, <1>2 DEF Live
    <2>6. point.block \in 1..created
      BY Position DEF Place
    <2>. QED BY ONLY <2>4, <2>5, <2>6 DEF Null
  <1>3. ASSUME StatAt(stat_nodes, F).kind \in One, point.behind > 0
        PROVE  Len(ops[point.block]) > point.behind
    BY <1>1, <1>3 DEF Live, LiveRule, F
  <1>. QED BY <1>1, <1>2, <1>3

\* A statement that has no block keeps the invariant.
LEMMA LeafWalks ==
    ASSUME NEW R, NEW Y \in SUBSET Block, Walking(R, Y), EmitLeaf
    PROVE  Walking(R, Y)'
  <1>1. PICK f : f = F
    OBVIOUS
  <1>2. PICK n : n = Len(frames)
    OBVIOUS
  <1>3. PICK tree : tree = stat_nodes
    OBVIOUS
  <1>4. PICK s : s = Here
    OBVIOUS
  <1>5. PICK p : p = point
    OBVIOUS
  <1>6. PICK old : old = ops[p.block]
    OBVIOUS
  <1>7. PICK fs : fs = frames'
    OBVIOUS
  <1>8. PICK new : new = LeafOps(s, Pos)
    OBVIOUS
  <1>9. PICK joined : joined = Put(old, p.behind, new)
    OBVIOUS
  <1>10. Place(R, Y, f, n)
    BY <1>1, <1>2, Position
  <1>11. InRange(tree, f) /\ s = StatAt(tree, f) /\ s = tree[f.block][f.pc] /\ s.kind \in LeafKind
    BY <1>1, <1>3, <1>4 DEF EmitLeaf, AtStat, Here, StatAt
  <1>12. f.visiting = 0
    BY ONLY <1>3, <1>10, <1>11 DEF Place, Inside
  <1>13. /\ Live(tree, One, R, frames, old, p, last)
         /\ f.block = Root => ~(p.behind > 0)
         /\ s.kind \in One /\ p.behind > 0 => Len(old) > p.behind
    BY <1>1, <1>3, <1>5, <1>6, <1>11, <1>12, ReachedIsLive
  <1>14. /\ tree \in Tree /\ TreeFacts(tree, is_terminal, One, R, Y)
         /\ BlocksOK(tree, frames, ops, created, p.block, last)
         /\ NestedOK(nested, OwnersOf(tree, frames), last)
    BY <1>3, <1>5 DEF Walking, WalkOK
  <1>15. /\ ChainOK(tree, Y, fs)
         /\ OwnersOf(tree, fs) = OwnersOf(tree, frames)
         /\ \A k \in OwnersOf(tree, fs) : fs[k] = frames[k]
         /\ Top(fs).block = f.block /\ Top(fs).pc = f.pc + 1 /\ Top(fs).visiting = 0
         /\ FramesOK(tree, fs, created)
    <2>1. n \notin OwnersOf(tree, frames)
      BY ONLY <1>3, <1>10, <1>12 DEF Place, Owns
    <2>2. /\ ChainOK(tree, Y, fs)
          /\ OwnersOf(tree, fs) = OwnersOf(tree, frames) \ {n}
          /\ \A k \in OwnersOf(tree, fs) : fs[k] = frames[k]
          /\ Top(fs).block = f.block /\ Top(fs).pc = f.pc + 1 /\ Top(fs).visiting = 0
          /\ FramesOK(tree, fs, created)
      BY <1>1, <1>2, <1>3, <1>7, StepOn DEF EmitLeaf
    <2>. QED BY ONLY <2>1, <2>2
  <1>16. SameAwaited(tree, frames, fs)
    BY ONLY <1>15 DEF Awaited, SameAwaited
  <1>17. InnerIs(tree, frames, p.block) => InnerIs(tree, fs, p.block)
    BY ONLY <1>15 DEF InnerIs
  <1>18. PICK table : table = ops' /\ table = [ops EXCEPT ![p.block] = joined]
    BY <1>4, <1>5, <1>6, <1>8, <1>9 DEF EmitLeaf, Insert, Put
  <1>19. /\ IsSeq(new)
         /\ \/ s.kind \in {"decl", "plain", "free"} /\ NoTerminators(new, Len(new))
            \/ /\ s.kind \in ExitKind \cup {"return"} /\ Ended(new)
               /\ Len(new) = 2 \/ (Len(new) = 1 /\ s.kind = "return" /\ ~returns_value)
    BY ONLY <1>8, <1>11, LeafOpsProps
  <1>20. /\ IsSeq(old) /\ Alive(old, p.behind)
         /\ p.behind > 0 => last = p.block
         /\ p.behind = 0 => InnerIs(tree, frames, p.block)
    BY ONLY <1>5, <1>6, <1>10, <1>13 DEF Place, Live
  <1>21. Len(old) \in Nat /\ Len(new) \in Nat /\ p.behind \in 0..2
    BY ONLY <1>19, <1>20, SeqProps DEF Alive
  <1>22. IsSeq(joined) /\ (\/ Live(tree, One, R, fs, joined, p, last)
                           \/ Dead(tree, R, fs, joined, p, last))
    <2>1. CASE s.kind \in {"decl", "plain", "free"} /\ NoTerminators(new, Len(new))
      <3>1. IsSeq(joined) /\ Alive(joined, p.behind) /\ Len(joined) = Len(old) + Len(new)
        BY ONLY <1>9, <1>19, <1>20, <2>1, PutKeeps
      <3>2. s.kind \in {"decl", "plain"} /\ p.behind > 0 => Len(joined) > p.behind
        <4>1. SUFFICES ASSUME s.kind \in {"decl", "plain"} PROVE Len(joined) > p.behind
          OBVIOUS
        <4>2. new = <<OpOf(Pos)>>
          BY ONLY <1>8, <4>1 DEF LeafOps
        <4>3. Len(new) = 1
          BY ONLY <4>2, Tuples
        <4>4. p.behind <= Len(old)
          BY ONLY <1>20 DEF Alive
        <4>. QED BY ONLY <1>21, <3>1, <4>3, <4>4
      <3>3. ~ReturnsSurely(s, R)
        BY ONLY <2>1 DEF ReturnsSurely
      <3>4. LiveRule(tree, One, R, Top(fs), joined, p.behind)
        <4>1. f.block \in Y /\ f.pc \in 1..Len(tree[f.block])
          BY ONLY <1>3, <1>10, <1>11 DEF Place
        <4>. QED BY ONLY <4>1, <1>11, <1>13, <1>14, <1>15, <3>2, <3>3, NextLive, Y \in SUBSET Block
      <3>5. Live(tree, One, R, fs, joined, p, last)
        BY ONLY <1>17, <1>20, <3>1, <3>4 DEF Live
      <3>. QED BY ONLY <3>1, <3>5
    <2>2. CASE /\ s.kind \in ExitKind \cup {"return"} /\ Ended(new)
               /\ Len(new) = 2 \/ (Len(new) = 1 /\ s.kind = "return" /\ ~returns_value)
      <3>1. p.behind > 0 => Len(old) + Len(new) > 2
        <4>1. SUFFICES ASSUME p.behind > 0 PROVE Len(old) + Len(new) > 2
          OBVIOUS
        <4>2. p.behind <= Len(old)
          BY ONLY <1>20 DEF Alive
        <4>3. CASE Len(new) = 2
          BY ONLY <1>21, <4>1, <4>2, <4>3
        <4>4. CASE Len(new) = 1 /\ s.kind = "return" /\ ~returns_value
          <5>1. s.kind \in One
            BY ONLY <4>4 DEF One
          <5>2. Len(old) > p.behind
            BY ONLY <1>13, <4>1, <5>1
          <5>. QED BY ONLY <1>21, <4>1, <4>4, <5>2
        <4>. QED BY ONLY <2>2, <4>3, <4>4
      <3>2. /\ IsSeq(joined)
            /\ p.behind = 0 => Ended(joined)
            /\ p.behind > 0 => Twice(joined)
        BY ONLY <1>9, <1>19, <1>20, <2>2, <3>1, PutEnds
      <3>3. ClosedIn(joined, p.block, last)
        BY ONLY <1>20, <1>21, <3>2 DEF ClosedIn
      <3>4. ReturnsSurely(s, R) \/ IsExit(s)
        BY ONLY <2>2 DEF ReturnsSurely, IsExit
      <3>5. DeadRule(tree, R, fs)
        <4>1. f.block \in Y /\ f.pc \in 1..Len(tree[f.block])
          BY ONLY <1>3, <1>10, <1>11 DEF Place
        <4>. QED BY ONLY <4>1, <1>11, <1>14, <1>15, <3>4, NextDead, Y \in SUBSET Block
      <3>. QED BY ONLY <3>2, <3>3, <3>5 DEF Dead
    <2>. QED BY ONLY <1>19, <2>1, <2>2
  <1>23. BlocksOK(tree, fs, table, created, p.block, last) /\ table[p.block] = joined
    <2>1. BlocksOK(tree, frames, ops, created, p.block, last)
      BY ONLY <1>14
    <2>2. IsSeq(joined)
      BY ONLY <1>22
    <2>3. table = With(ops, p.block, joined)
      BY ONLY <1>18 DEF With
    <2>. QED BY ONLY <1>16, <2>1, <2>2, <2>3, PointBlock
  <1>24. WalkOK(tree, is_terminal, One, R, Y, fs, table, created, p, nested, last)
    BY ONLY <1>14, <1>15, <1>22, <1>23 DEF WalkOK
  <1>25. /\ stat_nodes' = tree /\ is_terminal' = is_terminal /\ One' = One /\ created' = created
         /\ point' = p /\ nested' = nested /\ last' = last
    BY <1>3, <1>5 DEF EmitLeaf, EmitUnchanged, builderVars, One
  <1>. QED BY ONLY <1>7, <1>18, <1>24, <1>25 DEF Walking

\* A block of the statement the walk is at: y, with g for the frame.
LEMMA StepIn ==
    ASSUME NEW R, NEW Y \in SUBSET Block, Walking(R, Y), InRange(stat_nodes, F),
           NEW s, s = StatAt(stat_nodes, F), s.kind \notin LeafKind,
           NEW g \in CFrame, g.block = F.block, g.pc = F.pc,
           NEW y, \/ g.visiting = 1 /\ y = s.body
                  \/ g.visiting = 2 /\ s.alt # NoBlock /\ y = s.alt,
           NEW fs, fs = Append(SetTop(frames, g), Visit(y))
    PROVE  y \in Y \ {Root} /\ Descended(stat_nodes, Y, frames, g, y, fs)
  <1>1. Place(R, Y, F, Len(frames))
    BY Position
  <1>2. PICK f : f = F
    OBVIOUS
  <1>3. StatAt(stat_nodes, g) = s /\ InRange(stat_nodes, g)
    BY DEF StatAt, InRange
  <1>4. Child(stat_nodes, g) = y /\ g.visiting # 0 /\ Inside(stat_nodes, g)
    BY <1>3 DEF Child, Inside
  <1>5. y \in SubBlocks(s)
    <2>1. s \in Stat
      BY <1>1 DEF Place, FactsAt, StatAt
    <2>. QED BY <2>1, StatProps DEF SubBlocks
  <1>6. y \in Y \ {Root}
    BY <1>1, <1>5 DEF Place, FactsAt, StatAt
  <1>7. stat_nodes \in Tree /\ ChainOK(stat_nodes, Y, frames)
    BY DEF Walking, WalkOK
  <1>8. f = Top(frames) /\ g.block = f.block /\ g.pc = f.pc
    BY <1>2 DEF F
  <1>9. Descended(stat_nodes, Y, frames, g, y, fs)
    BY ONLY <1>4, <1>6, <1>7, <1>8, DescendFrames, Y \in SUBSET Block, g \in CFrame,
            fs = Append(SetTop(frames, g), Visit(y))
  <1>. QED BY ONLY <1>6, <1>9

\* Entering a nested block keeps it.
LEMMA BlockWalks ==
    ASSUME NEW R, NEW Y \in SUBSET Block, Walking(R, Y), EmitBlock
    PROVE  Walking(R, Y)'
  <1>1. PICK f : f = F
    OBVIOUS
  <1>2. PICK n : n = Len(frames)
    OBVIOUS
  <1>3. PICK tree : tree = stat_nodes
    OBVIOUS
  <1>4. PICK s : s = Here
    OBVIOUS
  <1>5. PICK p : p = point
    OBVIOUS
  <1>6. PICK old : old = ops[p.block]
    OBVIOUS
  <1>7. PICK fs : fs = frames'
    OBVIOUS
  <1>8. Place(R, Y, f, n)
    BY <1>1, <1>2, Position
  <1>9. InRange(tree, f) /\ s = StatAt(tree, f) /\ s = tree[f.block][f.pc] /\ s.kind = "block"
    BY <1>1, <1>3, <1>4 DEF EmitBlock, AtStat, Here, StatAt
  <1>10. s.kind \notin LeafKind /\ s \in Stat /\ f.block \in Y /\ f.pc \in 1..Len(tree[f.block])
    BY <1>3, <1>8, <1>9 DEF LeafKind, ExitKind, Place, FactsAt
  <1>11. /\ tree \in Tree /\ TreeFacts(tree, is_terminal, One, R, Y)
         /\ FramesOK(tree, frames, created)
         /\ BlocksOK(tree, frames, ops, created, p.block, last)
         /\ NestedOK(nested, OwnersOf(tree, frames), last)
         /\ \/ Live(tree, One, R, frames, old, p, last)
            \/ Dead(tree, R, frames, old, p, last)
    BY <1>3, <1>5, <1>6 DEF Walking, WalkOK
  <1>12. n \notin OwnersOf(tree, frames)
    BY ONLY <1>3, <1>8, <1>9 DEF Place, Owns
  <1>13. created \in Nat
    BY ONLY <1>8 DEF Place
  <1>14. SUFFICES
            /\ ChainOK(tree, Y, fs)
            /\ OwnersOf(tree, fs) = OwnersOf(tree, frames)
            /\ \A k \in OwnersOf(tree, fs) : fs[k] = frames[k]
            /\ \/ /\ Live(tree, One, R, frames, old, p, last)
                  /\ LiveRule(tree, One, R, Top(fs), old, p.behind)
               \/ Dead(tree, R, fs, old, p, last)
    <2>1. SameAwaited(tree, frames, fs) /\ (InnerIs(tree, frames, p.block) => InnerIs(tree, fs, p.block))
      BY ONLY <1>14 DEF Awaited, SameAwaited, InnerIs
    <2>2. FramesOK(tree, fs, created)
      BY ONLY <1>11, <1>13, <1>14, FramesKept
    <2>3. BlocksOK(tree, fs, ops, created, p.block, last)
      BY ONLY <1>11, <2>1 DEF BlocksOK, BlockOK, SameAwaited
    <2>4. Live(tree, One, R, fs, old, p, last) \/ Dead(tree, R, fs, old, p, last)
      BY ONLY <1>14, <2>1 DEF Live
    <2>5. WalkOK(tree, is_terminal, One, R, Y, fs, ops, created, p, nested, last)
      BY ONLY <1>6, <1>11, <1>14, <2>2, <2>3, <2>4 DEF WalkOK
    <2>6. /\ stat_nodes' = tree /\ is_terminal' = is_terminal /\ One' = One /\ created' = created
          /\ point' = p /\ nested' = nested /\ last' = last /\ ops' = ops
      BY <1>3, <1>5 DEF EmitBlock, EmitUnchanged, builderVars, One
    <2>. QED BY ONLY <1>7, <2>5, <2>6 DEF Walking
  <1>15. CASE f.visiting = 0
    <2>1. PICK g : g = [f EXCEPT !.visiting = 1]
      OBVIOUS
    <2>2. g \in CFrame /\ g.block = f.block /\ g.pc = f.pc /\ g.visiting = 1
      <3>1. f \in CFrame
        BY <1>8 DEF Place
      <3>. QED BY <2>1, <3>1 DEF CFrame
    <2>3. fs = Append(SetTop(frames, g), Visit(s.body))
      BY <1>1, <1>4, <1>7, <1>15, <2>1 DEF EmitBlock
    <2>4. ~Owns(tree, g)
      BY ONLY <1>9, <2>2 DEF Owns, StatAt
    <2>5. /\ s.body \in Y \ {Root} /\ ChainOK(tree, Y, fs)
          /\ Top(fs) = Visit(s.body)
          /\ \A k \in OwnersOf(tree, frames) \ {n} : fs[k] = frames[k]
          /\ OwnersOf(tree, fs) = (OwnersOf(tree, frames) \ {n})
                                  \cup (IF Owns(tree, g) THEN {n} ELSE {})
      <3>1. PICK y : y = s.body
        OBVIOUS
      <3>2. g.visiting = 1 /\ y = s.body
        BY <2>2, <3>1
      <3>3. y \in Y \ {Root} /\ Descended(tree, Y, frames, g, y, fs)
        BY <3>1, <3>2, <1>1, <1>3, <1>9, <1>10, <2>2, <2>3, StepIn
      <3>. QED BY ONLY <1>2, <3>1, <3>3 DEF Descended
    <2>6. OwnersOf(tree, fs) = OwnersOf(tree, frames) /\ \A k \in OwnersOf(tree, fs) : fs[k] = frames[k]
      BY ONLY <1>12, <2>4, <2>5
    <2>7. Live(tree, One, R, frames, old, p, last)
      BY <1>1, <1>3, <1>5, <1>6, <1>9, <1>15, ReachedIsLive
    <2>8. LiveRule(tree, One, R, Top(fs), old, p.behind)
      <3>1. \E b \in Y : \E i \in 1..Len(tree[b]) :
               tree[b][i].kind = "block" /\ tree[b][i].body = s.body
        BY ONLY <1>9, <1>10
      <3>2. LiveRule(tree, One, R, Visit(s.body), old, p.behind)
        BY ONLY <1>11, <2>5, <3>1, EnterLive, Y \in SUBSET Block
      <3>. QED BY ONLY <2>5, <3>2
    <2>. QED BY ONLY <2>5, <2>6, <2>7, <2>8
  <1>16. CASE f.visiting # 0
    <2>1. NextStat
      BY <1>1, <1>16 DEF EmitBlock
    <2>2. /\ ChainOK(tree, Y, fs)
          /\ OwnersOf(tree, fs) = OwnersOf(tree, frames) \ {n}
          /\ \A k \in OwnersOf(tree, fs) : fs[k] = frames[k]
          /\ Top(fs).block = f.block /\ Top(fs).pc = f.pc + 1 /\ Top(fs).visiting = 0
      BY <1>1, <1>2, <1>3, <1>7, <2>1, StepOn
    <2>3. OwnersOf(tree, fs) = OwnersOf(tree, frames)
      BY ONLY <1>12, <2>2
    <2>4. CASE Dead(tree, R, frames, old, p, last)
      <3>1. ReturnsSurely(s, R)
        BY <1>1, <1>9, <2>4 DEF Dead, DeadRule, F
      <3>2. DeadRule(tree, R, fs)
        BY ONLY <1>9, <1>10, <1>11, <2>2, <3>1, NextDead, Y \in SUBSET Block
      <3>. QED BY ONLY <2>2, <2>3, <2>4, <3>2 DEF Dead
    <2>5. CASE Live(tree, One, R, frames, old, p, last)
      <3>1. ~ReturnsSurely(s, R)
        BY <1>1, <1>9, <1>16, <2>5 DEF Live, LiveRule, F
      <3>2. ~(s.kind \in {"decl", "plain"})
        BY ONLY <1>9
      <3>3. f.block = Root => ~(p.behind > 0)
        <4>1. SUFFICES ASSUME f.block = Root, p.behind > 0 PROVE FALSE
          OBVIOUS
        <4>2. OwnersOf(tree, frames) = {}
          BY ONLY <1>3, <1>8, <1>12, <4>1 DEF Place
        <4>3. NestedOK(nested, {}, last)
          BY ONLY <1>11, <4>2
        <4>4. nested = <<>>
          <5>1. IsSeq(nested) /\ Len(nested) = 0
            BY ONLY <4>3, FS_EmptySet DEF NestedOK
          <5>. QED BY ONLY <5>1, SeqProps
        <4>5. last = Null /\ last = p.block /\ p.block \in 1..created
          BY ONLY <1>5, <1>8, <2>5, <4>1, <4>3, <4>4 DEF NestedOK, Live, Place
        <4>. QED BY ONLY <4>5 DEF Null
      <3>4. LiveRule(tree, One, R, Top(fs), old, p.behind)
        BY ONLY <1>9, <1>10, <1>11, <2>2, <3>1, <3>2, <3>3, NextLive, Y \in SUBSET Block
      <3>. QED BY ONLY <2>2, <2>3, <2>5, <3>4
    <2>. QED BY <1>11, <2>4, <2>5
  <1>. QED BY <1>15, <1>16

\* So does whatever begins a loop or a conditional, given the blocks it makes.
LEMMA StartWalks ==
    ASSUME NEW R, NEW Y \in SUBSET Block, Walking(R, Y), InRange(stat_nodes, F), F.visiting = 0,
           NEW s, s = StatAt(stat_nodes, F), s.kind \notin LeafKind, s.kind # "block",
           NEW begin, IsSeq(begin), Ended(begin),
           Len(begin) = 2 \/ (Len(begin) = 1 /\ s.kind \in One),
           NEW g \in CFrame, g.block = F.block, g.pc = F.pc, g.visiting = 1,
           NEW c2 \in Nat, created <= c2, NewFrame(stat_nodes, g, created, c2),
           NEW table2, Begun(ops, table2, created, c2, point, begin, stat_nodes, g),
           NEW fs, fs = Append(SetTop(frames, g), Visit(s.body)),
           NEW e, NEW ne, ne = Append(nested, e),
           NEW p2, p2.block = Cur(g), p2.behind = 0
    PROVE  WalkOK(stat_nodes, is_terminal, One, R, Y, fs, table2, c2, p2, ne, last)
  <1>1. PICK tree : tree = stat_nodes
    OBVIOUS
  <1>2. PICK n : n = Len(frames)
    OBVIOUS
  <1>3. PICK p : p = point
    OBVIOUS
  <1>4. PICK old : old = ops[p.block]
    OBVIOUS
  <1>5. PICK c : c = created
    OBVIOUS
  <1>6. Place(R, Y, F, n)
    BY <1>2, Position
  <1>7. /\ tree \in Tree /\ TreeFacts(tree, is_terminal, One, R, Y)
        /\ FramesOK(tree, frames, c)
        /\ BlocksOK(tree, frames, ops, c, p.block, last)
        /\ NestedOK(nested, OwnersOf(tree, frames), last)
    BY <1>1, <1>3, <1>5 DEF Walking, WalkOK
  <1>8. c \in Nat /\ c2 \in Nat /\ c <= c2 /\ n \in Nat
    BY <1>5, <1>6 DEF Place
  <1>9. /\ Live(tree, One, R, frames, old, p, last)
        /\ s.kind \in One /\ p.behind > 0 => Len(old) > p.behind
    BY <1>1, <1>3, <1>4, ReachedIsLive
  <1>10. s.body \in Y \ {Root} /\ Descended(tree, Y, frames, g, s.body, fs)
    <2>1. PICK y : y = s.body
      OBVIOUS
    <2>2. g.visiting = 1 /\ y = s.body
      BY <2>1
    <2>3. y \in Y \ {Root} /\ Descended(stat_nodes, Y, frames, g, y, fs)
      BY <2>1, <2>2, StepIn
    <2>. QED BY <1>1, <2>1, <2>3
  <1>11. Owns(tree, g) /\ n \notin OwnersOf(tree, frames)
    <2>1. StatAt(tree, g) = s /\ g.visiting # 0
      BY <1>1 DEF StatAt
    <2>. QED BY <1>1, <1>6, <2>1 DEF Owns, Place
  <1>12. /\ ChainOK(tree, Y, fs) /\ Top(fs) = Visit(s.body) /\ fs[n] = g
         /\ \A k \in OwnersOf(tree, frames) \ {n} : fs[k] = frames[k]
         /\ OwnersOf(tree, fs) = (OwnersOf(tree, frames) \ {n}) \cup {n}
    BY ONLY <1>2, <1>10, <1>11 DEF Descended
  <1>13. OwnersOf(tree, fs) = OwnersOf(tree, frames) \cup {n}
         /\ \A k \in OwnersOf(tree, frames) : fs[k] = frames[k]
    BY ONLY <1>11, <1>12
  <1>14. /\ Waits(tree, g) \subseteq (c + 1)..c2 /\ Cur(g) \in (c + 1)..c2
         /\ FrameOK(tree, g, c2)
    BY <1>1, <1>5 DEF NewFrame
  <1>15. \A b \in 1..c : b \notin (c + 1)..c2 /\ b \in 1..c2
    BY ONLY <1>8
  <1>16. \A b \in 1..c2 : b \in 1..c \/ b \in (c + 1)..c2
    BY ONLY <1>8
  <1>17. FramesOK(tree, fs, c2)
    <2>1. ASSUME NEW k \in OwnersOf(tree, frames) \ {n} PROVE FramesApart(tree, frames[k], g)
      <3>1. Waits(tree, frames[k]) \subseteq 1..c /\ Cur(frames[k]) \in 1..c
        BY ONLY <1>7, <2>1 DEF FramesOK, FrameOK
      <3>. QED BY ONLY <1>14, <1>15, <3>1 DEF FramesApart
    <2>. QED BY ONLY <1>7, <1>8, <1>12, <1>14, <2>1, FramesReplaced
  <1>18. \A b : Awaited(tree, fs, b) <=> Awaited(tree, frames, b) \/ b \in Waits(tree, g)
    BY ONLY <1>12, <1>13 DEF Awaited
  <1>19. \A b : Awaited(tree, frames, b) => b \in 1..c
    BY ONLY <1>7, <1>8, OwnerFacts
  <1>20. Begun(ops, table2, c, c2, p, begin, tree, g)
    BY <1>1, <1>3, <1>5
  <1>21. IsSeq(table2[p.block]) /\ ClosedIn(table2[p.block], p.block, last)
    <2>1. PICK joined : joined = Put(old, p.behind, begin)
      OBVIOUS
    <2>2. table2[p.block] = joined
      BY ONLY <1>4, <1>20, <2>1 DEF Begun
    <2>3. IsSeq(old) /\ Alive(old, p.behind) /\ (p.behind > 0 => last = p.block)
      BY ONLY <1>3, <1>4, <1>6, <1>9 DEF Place, Live
    <2>4. Len(old) \in Nat /\ p.behind \in 0..2 /\ p.behind <= Len(old)
      BY ONLY <2>3, SeqProps DEF Alive
    <2>5. p.behind > 0 => Len(old) + Len(begin) > 2
      <3>1. SUFFICES ASSUME p.behind > 0 PROVE Len(old) + Len(begin) > 2
        OBVIOUS
      <3>2. CASE Len(begin) = 2
        BY ONLY <2>4, <3>1, <3>2
      <3>3. CASE Len(begin) = 1 /\ s.kind \in One
        BY ONLY <1>9, <2>4, <3>1, <3>3
      <3>. QED BY <3>2, <3>3
    <2>6. /\ IsSeq(joined)
          /\ p.behind = 0 => Ended(joined)
          /\ p.behind > 0 => Twice(joined)
      BY ONLY <2>1, <2>3, <2>5, PutEnds, IsSeq(begin), Ended(begin)
    <2>7. ClosedIn(joined, p.block, last)
      BY ONLY <2>3, <2>4, <2>6 DEF ClosedIn
    <2>. QED BY ONLY <2>2, <2>6, <2>7
  <1>22. p.block \in 1..c /\ ~Awaited(tree, frames, p.block) /\ last \in 0..c
         /\ ~Awaited(tree, frames, last)
    BY ONLY <1>7 DEF BlocksOK
  <1>23. BlocksOK(tree, fs, table2, c2, Cur(g), last)
    <2>1. ~Awaited(tree, fs, Cur(g))
      BY ONLY <1>14, <1>15, <1>18, <1>19 DEF FrameOK
    <2>2. last \in 0..c2 /\ last \notin (c + 1)..c2
      BY ONLY <1>8, <1>22
    <2>3. ~Awaited(tree, fs, last)
      BY ONLY <1>14, <1>18, <1>22, <2>2
    <2>4. ASSUME NEW b \in 1..c2 PROVE BlockOK(tree, fs, table2[b], b, Cur(g), last)
      <3>1. CASE b = p.block
        <4>1. ~Awaited(tree, fs, b)
          BY ONLY <1>14, <1>15, <1>18, <1>22, <3>1
        <4>. QED BY ONLY <1>21, <3>1, <4>1 DEF BlockOK
      <3>2. CASE b \in 1..c /\ b # p.block
        <4>1. table2[b] = ops[b]
          BY ONLY <1>20, <3>2 DEF Begun
        <4>2. BlockOK(tree, frames, ops[b], b, p.block, last)
          BY ONLY <1>7, <3>2 DEF BlocksOK
        <4>3. Awaited(tree, fs, b) <=> Awaited(tree, frames, b)
          BY ONLY <1>14, <1>15, <1>18, <3>2
        <4>. QED BY ONLY <3>2, <4>1, <4>2, <4>3 DEF BlockOK
      <3>3. CASE b \in (c + 1)..c2
        <4>1. /\ IsSeq(table2[b])
              /\ b \in Waits(tree, g) => table2[b] = <<>>
              /\ b = Cur(g) \/ b \in Waits(tree, g) \/ Ended(table2[b])
          BY ONLY <1>20, <3>3 DEF Begun
        <4>2. Awaited(tree, fs, b) <=> b \in Waits(tree, g)
          BY ONLY <1>15, <1>18, <1>19, <3>3
        <4>. QED BY ONLY <4>1, <4>2 DEF BlockOK, ClosedIn
      <3>. QED BY <1>16, <3>1, <3>2, <3>3
    <2>5. Cur(g) \in 1..c2 /\ DOMAIN table2 = 1..c2
      BY ONLY <1>14, <1>20 DEF FrameOK, Begun
    <2>. QED BY ONLY <1>8, <2>1, <2>2, <2>3, <2>4, <2>5 DEF BlocksOK
  <1>24. NestedOK(ne, OwnersOf(tree, fs), last)
    BY ONLY <1>7, <1>11, <1>13, NestedPush, ne = Append(nested, e)
  <1>25. Live(tree, One, R, fs, table2[p2.block], p2, last)
    <2>1. Alive(table2[p2.block], p2.behind)
      BY <1>20 DEF Begun
    <2>2. InnerIs(tree, fs, p2.block)
      <3>1. \A k \in OwnersOf(tree, fs) : k \in 1..n
        <4>1. \A k \in OwnersOf(tree, frames) : k \in 1..n
          BY ONLY <1>2 DEF OwnersOf
        <4>2. n \in 1..n
          BY ONLY <1>6 DEF Place
        <4>. QED BY ONLY <1>13, <4>1, <4>2
      <3>2. \A k \in 1..n : n <= k => k = n
        BY ONLY <1>8
      <3>3. n \in OwnersOf(tree, fs)
        BY ONLY <1>13
      <3>. QED BY ONLY <1>12, <3>1, <3>2, <3>3, p2.block = Cur(g) DEF InnerIs
    <2>3. ~(p2.behind > 0)
      OBVIOUS
    <2>4. LiveRule(tree, One, R, Top(fs), table2[p2.block], p2.behind)
      <3>1. LiveRule(tree, One, R, Visit(s.body), table2[p2.block], p2.behind)
        BY ONLY <1>7, <1>10, <2>3, EnterLive, Y \in SUBSET Block
      <3>. QED BY ONLY <1>12, <3>1
    <2>. QED BY ONLY <2>1, <2>2, <2>3, <2>4 DEF Live
  <1>26. BlocksOK(tree, fs, table2, c2, p2.block, last)
    BY ONLY <1>23, p2.block = Cur(g)
  <1>27. WalkOK(tree, is_terminal, One, R, Y, fs, table2, c2, p2, ne, last)
    BY ONLY <1>7, <1>12, <1>17, <1>24, <1>25, <1>26 DEF WalkOK
  <1>. QED BY ONLY <1>1, <1>27

\* The beginning of a loop keeps it.
LEMMA LoopStartWalks ==
    ASSUME NEW R, NEW Y \in SUBSET Block, Walking(R, Y), EmitLoopStart
    PROVE  Walking(R, Y)'
  <1>1. PICK s : s = Here
    OBVIOUS
  <1>2. PICK c : c = created
    OBVIOUS
  <1>3. PICK p : p = point
    OBVIOUS
  <1>4. PICK f : f = F
    OBVIOUS
  <1>5. Place(R, Y, f, Len(frames)) /\ c \in Nat /\ p.block \in 1..c
    <2>1. Place(R, Y, f, Len(frames))
      BY <1>4, Position
    <2>. QED BY ONLY <1>2, <1>3, <2>1 DEF Place
  <1>6. /\ InRange(stat_nodes, F) /\ F.visiting = 0
        /\ s = StatAt(stat_nodes, F) /\ s.kind \in LoopKind
    BY <1>1 DEF EmitLoopStart, AtStat, Here, IsLoop
  <1>7. s.kind \notin LeafKind /\ s.kind # "block" /\ s.kind # "cond"
    BY ONLY <1>6 DEF LoopKind, LeafKind, ExitKind
  <1>8. s.alt = NoBlock
    <2>1. s \in Stat
      BY ONLY <1>4, <1>5, <1>6 DEF Place, FactsAt, StatAt
    <2>. QED BY ONLY <1>7, <2>1 DEF Stat
  <1>9. PICK tested \in BOOLEAN : tested <=> s.kind # "inf_loop"
    OBVIOUS
  <1>10. PICK loop \in Nat : /\ tested => loop = c + 2
                             /\ ~tested => loop = c + 1
    <2>1. c + 1 \in Nat /\ c + 2 \in Nat
      BY <1>5
    <2>. QED BY <2>1
  <1>11. PICK cont \in Nat : cont = loop + 1
    OBVIOUS
  <1>12. PICK control \in Nat : /\ tested => control = c + 1
                                /\ ~tested => control = loop
    <2>1. c + 1 \in Nat
      BY <1>5
    <2>. QED BY <2>1
  <1>13. PICK begin : begin = LoopHead(s, control, loop, cont)
    OBVIOUS
  <1>14. PICK g : g = [f EXCEPT !.visiting = 1, !.inner = loop, !.cont = cont]
    OBVIOUS
  <1>15. PICK head : head = [ops EXCEPT ![p.block] = Put(ops[p.block], p.behind, begin)]
    OBVIOUS
  <1>16. PICK table2 : table2 = [b \in 1..cont |->
                          CASE b = loop -> <<Save(s.body)>>
                            [] b = control /\ tested -> <<Plain, Br({loop, cont})>>
                            [] b = cont -> <<>>
                            [] OTHER -> head[b]]
    OBVIOUS
  <1>17. PICK e : e = [back |-> control, cont |-> cont, loop |-> s.body]
    OBVIOUS
  <1>18. /\ ops' = table2 /\ created' = cont /\ point' = [block |-> loop, behind |-> 0]
         /\ nested' = Append(nested, e)
         /\ frames' = Append(SetTop(frames, g), Visit(s.body))
    <2>1. loop = created + (IF Here.kind # "inf_loop" THEN 2 ELSE 1)
      BY <1>1, <1>2, <1>9, <1>10
    <2>2. control = IF Here.kind # "inf_loop" THEN created + 1 ELSE loop
      BY <1>1, <1>2, <1>9, <1>12
    <2>3. cont = loop + 1
      BY <1>11
    <2>4. Insert(ops, point, LoopHead(Here, control, loop, cont)) = head
      BY <1>1, <1>3, <1>13, <1>15 DEF Insert, Put
    <2>5. /\ ops' = [b \in 1..cont |->
                       CASE b = loop -> <<Save(Here.body)>>
                         [] b = control /\ Here.kind # "inf_loop" -> <<Plain, Br({loop, cont})>>
                         [] b = cont -> <<>>
                         [] OTHER -> Insert(ops, point, LoopHead(Here, control, loop, cont))[b]]
          /\ created' = cont
          /\ point' = [block |-> loop, behind |-> 0]
          /\ nested' = Append(nested, [back |-> control, cont |-> cont, loop |-> Here.body])
          /\ frames' = Append(SetTop(frames, [F EXCEPT !.visiting = 1, !.inner = loop,
                                                       !.cont = cont]),
                              Visit(Here.body))
      BY ONLY EmitLoopStart, <2>1, <2>2, <2>3 DEF EmitLoopStart
    <2>6. ops' = table2
      BY ONLY <1>1, <1>9, <1>16, <2>4, <2>5
    <2>. QED BY ONLY <1>1, <1>4, <1>14, <1>17, <2>5, <2>6
  <1>19. IsSeq(begin) /\ Ended(begin) /\ (Len(begin) = 2 \/ (Len(begin) = 1 /\ s.kind \in One))
    <2>1. /\ IsSeq(begin) /\ Ended(begin)
          /\ Len(begin) = 2 \/ (Len(begin) = 1 /\ s.kind \in {"pre_loop", "post_loop"})
      BY ONLY <1>6, <1>13, LoopHeadProps
    <2>. QED BY ONLY <2>1 DEF One
  <1>20. /\ g \in CFrame /\ g.block = F.block /\ g.pc = F.pc /\ g.visiting = 1
         /\ g.inner = loop /\ g.cont = cont
    <2>1. f \in CFrame
      BY ONLY <1>5 DEF Place
    <2>2. /\ g.block = F.block /\ g.pc = F.pc /\ g.visiting = 1
          /\ g.inner = loop /\ g.cont = cont
      BY ONLY <1>4, <1>14, <2>1 DEF CFrame
    <2>3. 1 \in 0..2
      OBVIOUS
    <2>4. g \in CFrame
      BY ONLY <1>14, <2>1, <2>3, loop \in Nat, cont \in Nat DEF CFrame
    <2>. QED BY ONLY <2>2, <2>4
  <1>21. StatAt(stat_nodes, g) = s
    BY ONLY <1>6, <1>20 DEF StatAt
  <1>22. Waits(stat_nodes, g) = {cont} /\ Cur(g) = loop
    BY ONLY <1>8, <1>20, <1>21 DEF Waits, Cur
  <1>23. /\ cont \in (c + 1)..cont /\ loop \in (c + 1)..cont /\ loop # cont /\ c <= cont
         /\ 1..c \subseteq 1..cont /\ loop \in 1..cont /\ cont \in 1..cont
         /\ control \in (c + 1)..cont /\ control # cont
         /\ control = loop <=> ~tested
         /\ \A b \in (c + 1)..cont : b = loop \/ b = control \/ b = cont
         /\ \A b \in (c + 1)..cont : b \in 1..cont
         /\ \A b \in 1..c : b # loop /\ b # control /\ b # cont
    BY ONLY <1>5, <1>10, <1>11, <1>12, tested \in BOOLEAN
  <1>24. NewFrame(stat_nodes, g, c, cont)
    BY ONLY <1>8, <1>20, <1>21, <1>22, <1>23 DEF NewFrame, FrameOK
  <1>25. Begun(ops, table2, c, cont, p, begin, stat_nodes, g)
    <2>1. DOMAIN ops = 1..c
      BY <1>2 DEF Walking, WalkOK, BlocksOK
    <2>2. DOMAIN table2 = 1..cont
      BY ONLY <1>16
    <2>3. \A b \in 1..c : table2[b] = head[b]
      <3>1. SUFFICES ASSUME NEW b \in 1..c PROVE table2[b] = head[b]
        OBVIOUS
      <3>2. b \in 1..cont /\ b # loop /\ b # control /\ b # cont
        BY ONLY <1>23, b \in 1..c
      <3>. QED BY ONLY <1>16, <3>2
    <2>4. head[p.block] = Put(ops[p.block], p.behind, begin)
          /\ \A b \in 1..c : b # p.block => head[b] = ops[b]
      BY ONLY <1>5, <1>15, <2>1
    <2>5. table2[loop] = <<Save(s.body)>>
      <3>1. loop \in 1..cont /\ ~(loop = control /\ tested) /\ loop # cont
        BY ONLY <1>23
      <3>. QED BY ONLY <1>16, <3>1
    <2>6. table2[cont] = <<>>
      BY ONLY <1>16, <1>23
    <2>7. control # loop => table2[control] = <<Plain, Br({loop, cont})>>
      BY ONLY <1>16, <1>23
    <2>8. IsSeq(<<>>) /\ IsSeq(<<Save(s.body)>>) /\ IsSeq(<<Plain, Br({loop, cont})>>)
      BY Tuples
    <2>9. Ended(<<Plain, Br({loop, cont})>>) /\ Alive(<<Save(s.body)>>, 0)
      BY OpProps, EndedTuples, AliveTuples
    <2>10. Alive(table2[Cur(g)], 0)
      BY ONLY <1>22, <2>5, <2>9
    <2>11. \A b \in (c + 1)..cont : /\ IsSeq(table2[b])
                                    /\ b \in Waits(stat_nodes, g) => table2[b] = <<>>
                                    /\ b = Cur(g) \/ b \in Waits(stat_nodes, g) \/ Ended(table2[b])
      <3>1. SUFFICES ASSUME NEW b \in (c + 1)..cont
                     PROVE  /\ IsSeq(table2[b])
                            /\ b \in Waits(stat_nodes, g) => table2[b] = <<>>
                            /\ b = Cur(g) \/ b \in Waits(stat_nodes, g) \/ Ended(table2[b])
        OBVIOUS
      <3>2. CASE b = loop
        BY ONLY <1>22, <1>23, <2>5, <2>8, <3>2
      <3>3. CASE b = cont
        BY ONLY <1>22, <1>23, <2>6, <2>8, <3>3
      <3>4. CASE b = control /\ control # loop
        BY ONLY <1>22, <1>23, <2>7, <2>8, <2>9, <3>4
      <3>. QED BY <1>23, <3>2, <3>3, <3>4
    <2>12. table2[p.block] = Put(ops[p.block], p.behind, begin)
           /\ \A b \in 1..c : b # p.block => table2[b] = ops[b]
      BY ONLY <1>5, <2>3, <2>4
    <2>. QED BY ONLY <2>2, <2>10, <2>11, <2>12 DEF Begun
  <1>26. PICK p2 : p2 = [block |-> loop, behind |-> 0]
    OBVIOUS
  <1>27. p2.block = Cur(g) /\ p2.behind = 0
    BY ONLY <1>22, <1>26
  <1>28. PICK ne : ne = Append(nested, e)
    OBVIOUS
  <1>29. PICK fs : fs = Append(SetTop(frames, g), Visit(s.body))
    OBVIOUS
  <1>30. WalkOK(stat_nodes, is_terminal, One, R, Y, fs, table2, cont, p2, ne, last)
    <2>1. /\ created <= cont /\ NewFrame(stat_nodes, g, created, cont)
          /\ Begun(ops, table2, created, cont, point, begin, stat_nodes, g)
      BY ONLY <1>2, <1>3, <1>23, <1>24, <1>25
    <2>. QED BY ONLY <1>6, <1>7, <1>19, <1>20, <1>27, <1>28, <1>29, <2>1, StartWalks,
                     Walking(R, Y), Y \in SUBSET Block, cont \in Nat
  <1>31. /\ stat_nodes' = stat_nodes /\ is_terminal' = is_terminal /\ One' = One /\ last' = last
    BY DEF EmitLoopStart, EmitUnchanged, builderVars, One
  <1>. QED BY ONLY <1>18, <1>26, <1>28, <1>29, <1>30, <1>31 DEF Walking

\* The beginning of a conditional keeps it.
LEMMA CondStartWalks ==
    ASSUME NEW R, NEW Y \in SUBSET Block, Walking(R, Y), EmitCondStart
    PROVE  Walking(R, Y)'
  <1>1. PICK s : s = Here
    OBVIOUS
  <1>2. PICK c : c = created
    OBVIOUS
  <1>3. PICK p : p = point
    OBVIOUS
  <1>4. PICK f : f = F
    OBVIOUS
  <1>5. Place(R, Y, f, Len(frames)) /\ c \in Nat /\ p.block \in 1..c
    <2>1. Place(R, Y, f, Len(frames))
      BY <1>4, Position
    <2>. QED BY ONLY <1>2, <1>3, <2>1 DEF Place
  <1>6. /\ InRange(stat_nodes, F) /\ F.visiting = 0
        /\ s = StatAt(stat_nodes, F) /\ s.kind = "cond"
    BY <1>1 DEF EmitCondStart, AtStat, Here
  <1>7. s.kind \notin LeafKind /\ s.kind # "block"
    BY ONLY <1>6 DEF LeafKind, ExitKind
  <1>8. PICK els \in Nat : /\ s.alt = NoBlock => els = Null
                           /\ s.alt # NoBlock => els = c + 2
    <2>1. c + 2 \in Nat /\ Null \in Nat
      BY <1>5 DEF Null
    <2>. QED BY <2>1
  <1>9. PICK cont \in Nat : /\ s.alt = NoBlock => cont = c + 2
                            /\ s.alt # NoBlock => cont = c + 3
    <2>1. c + 2 \in Nat /\ c + 3 \in Nat
      BY <1>5
    <2>. QED BY <2>1
  <1>10. PICK then \in Nat : then = c + 1
    BY <1>5
  <1>11. PICK other : other = IF els = Null THEN cont ELSE els
    OBVIOUS
  <1>12. PICK begin : begin = <<Plain, Br({then, other})>>
    OBVIOUS
  <1>13. PICK g : g = [f EXCEPT !.visiting = 1, !.inner = then, !.els = els, !.cont = cont]
    OBVIOUS
  <1>14. PICK head : head = [ops EXCEPT ![p.block] = Put(ops[p.block], p.behind, begin)]
    OBVIOUS
  <1>15. PICK table2 : table2 = [b \in 1..cont |-> IF b <= c THEN head[b] ELSE <<>>]
    OBVIOUS
  <1>16. PICK e : e = CondEntry(cont)
    OBVIOUS
  <1>17. /\ ops' = table2 /\ created' = cont /\ point' = [block |-> then, behind |-> 0]
         /\ nested' = Append(nested, e)
         /\ frames' = Append(SetTop(frames, g), Visit(s.body))
    <2>1. els = (IF Here.alt = NoBlock THEN Null ELSE created + 2) /\ then = created + 1
      BY <1>1, <1>2, <1>8, <1>10
    <2>2. cont = created + (IF Here.alt = NoBlock THEN 2 ELSE 3)
      BY <1>1, <1>2, <1>9
    <2>3. Insert(ops, point, <<Plain, Br({then, IF els = Null THEN cont ELSE els})>>) = head
      BY <1>3, <1>11, <1>12, <1>14 DEF Insert, Put
    <2>4. /\ ops' = [b \in 1..cont |-> IF b <= created
                        THEN Insert(ops, point,
                                    <<Plain, Br({then, IF els = Null THEN cont ELSE els})>>)[b]
                        ELSE <<>>]
          /\ created' = cont
          /\ point' = [block |-> then, behind |-> 0]
          /\ nested' = Append(nested, CondEntry(cont))
          /\ frames' = Append(SetTop(frames, [F EXCEPT !.visiting = 1, !.inner = then,
                                                       !.els = els, !.cont = cont]),
                              Visit(Here.body))
      BY ONLY EmitCondStart, <2>1, <2>2 DEF EmitCondStart
    <2>5. ops' = table2
      BY ONLY <1>2, <1>15, <2>3, <2>4
    <2>. QED BY ONLY <1>1, <1>4, <1>13, <1>16, <2>4, <2>5
  <1>18. IsSeq(begin) /\ Ended(begin) /\ Len(begin) = 2
    BY <1>12, OpProps, EndedTuples, Tuples
  <1>19. /\ g \in CFrame /\ g.block = F.block /\ g.pc = F.pc /\ g.visiting = 1
         /\ g.inner = then /\ g.cont = cont /\ g.els = els
    <2>1. f \in CFrame
      BY ONLY <1>5 DEF Place
    <2>2. /\ g.block = F.block /\ g.pc = F.pc /\ g.visiting = 1
          /\ g.inner = then /\ g.cont = cont /\ g.els = els
      BY ONLY <1>4, <1>13, <2>1 DEF CFrame
    <2>3. 1 \in 0..2
      OBVIOUS
    <2>4. g \in CFrame
      BY ONLY <1>13, <2>1, <2>3, then \in Nat, cont \in Nat, els \in Nat DEF CFrame
    <2>. QED BY ONLY <2>2, <2>4
  <1>20. StatAt(stat_nodes, g) = s
    BY ONLY <1>6, <1>19 DEF StatAt
  <1>21. /\ Waits(stat_nodes, g) = {cont} \cup (IF s.alt # NoBlock THEN {els} ELSE {})
         /\ Cur(g) = then
    BY ONLY <1>19, <1>20 DEF Waits, Cur
  <1>22. /\ cont \in (c + 1)..cont /\ then \in (c + 1)..cont /\ then # cont /\ c <= cont
         /\ (s.alt # NoBlock => els \in (c + 1)..cont /\ els # cont /\ els # then)
         /\ then \in 1..cont /\ cont \in 1..cont /\ (s.alt # NoBlock => els \in 1..cont)
         /\ \A b \in (c + 1)..cont : b = then \/ b = cont \/ (s.alt # NoBlock /\ b = els)
         /\ \A b \in (c + 1)..cont : b \in 1..cont /\ ~(b <= c)
         /\ \A b \in 1..c : b <= c /\ b \in 1..cont
    BY ONLY <1>5, <1>8, <1>9, <1>10
  <1>23. NewFrame(stat_nodes, g, c, cont)
    BY ONLY <1>19, <1>20, <1>21, <1>22 DEF NewFrame, FrameOK
  <1>24. Begun(ops, table2, c, cont, p, begin, stat_nodes, g)
    <2>1. DOMAIN ops = 1..c
      BY <1>2 DEF Walking, WalkOK, BlocksOK
    <2>2. DOMAIN table2 = 1..cont
      BY ONLY <1>15
    <2>3. \A b \in 1..c : table2[b] = head[b]
      BY ONLY <1>15, <1>22
    <2>4. head[p.block] = Put(ops[p.block], p.behind, begin)
          /\ \A b \in 1..c : b # p.block => head[b] = ops[b]
      BY ONLY <1>5, <1>14, <2>1
    <2>5. \A b \in (c + 1)..cont : table2[b] = <<>>
      BY ONLY <1>15, <1>22
    <2>6. IsSeq(<<>>) /\ Alive(<<>>, 0)
      BY OpProps, Tuples, AliveTuples
    <2>7. Alive(table2[Cur(g)], 0)
      BY ONLY <1>21, <1>22, <2>5, <2>6
    <2>8. \A b \in (c + 1)..cont : b = Cur(g) \/ b \in Waits(stat_nodes, g)
      BY ONLY <1>21, <1>22
    <2>9. table2[p.block] = Put(ops[p.block], p.behind, begin)
          /\ \A b \in 1..c : b # p.block => table2[b] = ops[b]
      BY ONLY <1>5, <2>3, <2>4
    <2>. QED BY ONLY <2>2, <2>5, <2>6, <2>7, <2>8, <2>9 DEF Begun
  <1>25. PICK p2 : p2 = [block |-> then, behind |-> 0]
    OBVIOUS
  <1>26. p2.block = Cur(g) /\ p2.behind = 0
    BY ONLY <1>21, <1>25
  <1>27. PICK ne : ne = Append(nested, e)
    OBVIOUS
  <1>28. PICK fs : fs = Append(SetTop(frames, g), Visit(s.body))
    OBVIOUS
  <1>29. WalkOK(stat_nodes, is_terminal, One, R, Y, fs, table2, cont, p2, ne, last)
    <2>1. /\ created <= cont /\ NewFrame(stat_nodes, g, created, cont)
          /\ Begun(ops, table2, created, cont, point, begin, stat_nodes, g)
      BY ONLY <1>2, <1>3, <1>22, <1>23, <1>24
    <2>2. Len(begin) = 2 \/ (Len(begin) = 1 /\ s.kind \in One)
      BY ONLY <1>18
    <2>. QED BY ONLY <1>6, <1>7, <1>18, <1>19, <1>26, <1>27, <1>28, <2>1, <2>2, StartWalks,
                     Walking(R, Y), Y \in SUBSET Block, cont \in Nat
  <1>30. /\ stat_nodes' = stat_nodes /\ is_terminal' = is_terminal /\ One' = One /\ last' = last
    BY DEF EmitCondStart, EmitUnchanged, builderVars, One
  <1>. QED BY ONLY <1>17, <1>25, <1>27, <1>28, <1>29, <1>30 DEF Walking

\* When the statements of a loop or conditional have been visited: the block
\* it emits into has a terminator, or it is the insertion point's.
LEMMA BodyEnd ==
    ASSUME NEW R, NEW Y \in SUBSET Block, Walking(R, Y), Owns(stat_nodes, F),
           NEW cur, cur = Cur(F)
    PROVE  /\ cur \in 1..created /\ ~Awaited(stat_nodes, frames, cur)
           /\ \/ HasTerminator(ops[cur]) /\ ClosedIn(ops[point.block], point.block, last)
              \/ /\ ~HasTerminator(ops[cur]) /\ point.block = cur /\ point.behind = 0
                 /\ IsSeq(ops[cur]) /\ NoTerminators(ops[cur], Len(ops[cur]))
  <1>1. PICK n : n = Len(frames)
    OBVIOUS
  <1>2. PICK c : c = created
    OBVIOUS
  <1>3. PICK p : p = point
    OBVIOUS
  <1>4. PICK table : table = ops
    OBVIOUS
  <1>5. PICK tree : tree = stat_nodes
    OBVIOUS
  <1>6. /\ n \in OwnersOf(tree, frames) /\ cur = Cur(frames[n]) /\ n \in Nat /\ c \in Nat
    BY <1>1, <1>2, <1>5, Position DEF Place
  <1>7. /\ BlocksOK(tree, frames, table, c, p.block, last) /\ FramesOK(tree, frames, c)
        /\ \/ Live(tree, One, R, frames, table[p.block], p, last)
           \/ Dead(tree, R, frames, table[p.block], p, last)
    BY <1>2, <1>3, <1>4, <1>5 DEF Walking, WalkOK
  <1>8. cur \in 1..c /\ ~Awaited(tree, frames, cur)
    BY ONLY <1>6, <1>7, OwnerFacts
  <1>9. \A b \in 1..c : /\ IsSeq(table[b])
                        /\ b # p.block /\ ~Awaited(tree, frames, b) => ClosedIn(table[b], b, last)
    BY ONLY <1>7 DEF BlocksOK, BlockOK
  <1>10. p.block \in 1..c
    BY ONLY <1>7 DEF BlocksOK
  <1>11. ASSUME NEW b \in 1..c, ClosedIn(table[b], b, last) PROVE HasTerminator(table[b])
    BY ONLY <1>9, <1>11, Terminated DEF ClosedIn
  <1>12. \/ ClosedIn(table[p.block], p.block, last)
         \/ /\ p.block = cur /\ p.behind = 0
            /\ NoTerminators(table[cur], Len(table[cur]))
    <2>1. CASE Dead(tree, R, frames, table[p.block], p, last)
      BY ONLY <2>1 DEF Dead
    <2>2. CASE Live(tree, One, R, frames, table[p.block], p, last)
      <3>1. Alive(table[p.block], p.behind) /\ (p.behind = 0 => InnerIs(tree, frames, p.block))
        BY ONLY <2>2 DEF Live
      <3>2. p.behind \in 0..2
        BY ONLY <3>1 DEF Alive
      <3>3. CASE p.behind > 0
        BY ONLY <3>1, <3>3 DEF Alive, ClosedIn
      <3>4. CASE p.behind = 0
        <4>1. \A j \in OwnersOf(tree, frames) : j <= n
          BY ONLY <1>1 DEF OwnersOf
        <4>2. p.block = cur
          BY ONLY <1>6, <3>1, <3>4, <4>1 DEF InnerIs
        <4>3. Len(table[cur]) \in Nat
          BY ONLY <1>8, <1>9, SeqProps
        <4>4. Len(table[cur]) - 0 = Len(table[cur])
          BY ONLY <4>3
        <4>5. NoTerminators(table[p.block], Len(table[p.block]) - p.behind)
          BY ONLY <3>1 DEF Alive
        <4>. QED BY ONLY <3>4, <4>2, <4>4, <4>5
      <3>. QED BY <3>2, <3>3, <3>4
    <2>. QED BY <1>7, <2>1, <2>2
  <1>13. NoTerminators(table[cur], Len(table[cur])) => ~HasTerminator(table[cur])
    BY ONLY <1>8, <1>9, Terminated
  <1>14. \/ HasTerminator(table[cur]) /\ ClosedIn(table[p.block], p.block, last)
         \/ /\ ~HasTerminator(table[cur]) /\ p.block = cur /\ p.behind = 0
            /\ IsSeq(table[cur]) /\ NoTerminators(table[cur], Len(table[cur]))
    <2>1. CASE HasTerminator(table[cur])
      BY ONLY <1>12, <1>13, <2>1
    <2>2. CASE ~HasTerminator(table[cur])
      <3>1. ~ClosedIn(table[cur], cur, last)
        BY ONLY <1>8, <1>11, <2>2
      <3>2. cur = p.block
        BY ONLY <1>8, <1>9, <3>1
      <3>. QED BY ONLY <1>8, <1>9, <1>12, <2>2, <3>1, <3>2
    <2>. QED BY <2>1, <2>2
  <1>. QED BY ONLY <1>2, <1>3, <1>4, <1>5, <1>8, <1>14

\* That block gets a terminator unless it has one.
LEMMA Settles ==
    ASSUME NEW R, NEW Y \in SUBSET Block, Walking(R, Y), Owns(stat_nodes, F),
           NEW cur, cur = Cur(F), NEW s, NEW table2,
           table2 = IF HasTerminator(ops[cur]) THEN ops ELSE With(ops, cur, s),
           ~HasTerminator(ops[cur]) => IsSeq(s) /\ Ended(s)
    PROVE  Settled(stat_nodes, frames, table2, created, last)
  <1>1. PICK c : c = created
    OBVIOUS
  <1>2. PICK p : p = point
    OBVIOUS
  <1>3. PICK tree : tree = stat_nodes
    OBVIOUS
  <1>4. /\ cur \in 1..c /\ ~Awaited(tree, frames, cur)
        /\ \/ HasTerminator(ops[cur]) /\ ClosedIn(ops[p.block], p.block, last)
           \/ ~HasTerminator(ops[cur]) /\ p.block = cur
    BY <1>1, <1>2, <1>3, BodyEnd
  <1>5. /\ DOMAIN ops = 1..c
        /\ \A b \in 1..c :
              /\ IsSeq(ops[b])
              /\ Awaited(tree, frames, b) => ops[b] = <<>>
              /\ b # p.block /\ ~Awaited(tree, frames, b) => ClosedIn(ops[b], b, last)
    BY <1>1, <1>2, <1>3 DEF Walking, WalkOK, BlocksOK, BlockOK
  <1>6. CASE HasTerminator(ops[cur])
    <2>1. table2 = ops /\ ClosedIn(ops[p.block], p.block, last)
      BY <1>4, <1>6
    <2>. QED BY ONLY <1>1, <1>3, <1>5, <2>1 DEF Settled
  <1>7. CASE ~HasTerminator(ops[cur])
    <2>1. IsSeq(s) /\ Ended(s) /\ cur = p.block /\ table2 = With(ops, cur, s)
      BY <1>4, <1>7
    <2>2. /\ DOMAIN table2 = 1..c /\ table2[cur] = s
          /\ \A b \in 1..c : b # cur => table2[b] = ops[b]
      BY ONLY <1>4, <1>5, <2>1 DEF With
    <2>3. ASSUME NEW b \in 1..c
          PROVE  /\ IsSeq(table2[b])
                 /\ Awaited(tree, frames, b) => table2[b] = <<>>
                 /\ ~Awaited(tree, frames, b) => ClosedIn(table2[b], b, last)
      <3>1. CASE b = cur
        BY ONLY <1>4, <2>1, <2>2, <3>1 DEF ClosedIn
      <3>2. CASE b # cur
        BY ONLY <1>5, <2>1, <2>2, <3>2, b \in 1..c
      <3>. QED BY <3>1, <3>2
    <2>. QED BY ONLY <1>1, <1>3, <2>2, <2>3 DEF Settled
  <1>. QED BY <1>6, <1>7

(***************************************************************************)
(* The end of a loop or conditional.  Either the walk goes on in its       *)
(* continue block, in front of a branch if there is a statement around, or *)
(* both its branches return.                                               *)
(***************************************************************************)
LEMMA EndWalks ==
    ASSUME NEW R, NEW Y \in SUBSET Block, Walking(R, Y), InRange(stat_nodes, F),
           Owns(stat_nodes, F), NextStat, NEW s, s = StatAt(stat_nodes, F),
           NEW cont, Waits(stat_nodes, F) = {cont},
           NEW table, Complete(stat_nodes, frames, table, created),
           NEW new, IsSeq(new), NEW table2, table2 = With(table, cont, new),
           NEW ne, ne = Front(nested), NEW p2, p2.block = cont, NEW l2,
           \/ /\ Alive(new, p2.behind) /\ ~ReturnsSurely(s, R)
              /\ \/ ne = <<>> /\ l2 = Null /\ p2.behind = 0
                 \/ ne # <<>> /\ l2 = cont /\ p2.behind # 0
           \/ Ended(new) /\ ReturnsSurely(s, R) /\ l2 = Null,
           NEW fs, fs = frames'
    PROVE  WalkOK(stat_nodes, is_terminal, One, R, Y, fs, table2, created, p2, ne, l2)
  <1>1. PICK tree : tree = stat_nodes
    OBVIOUS
  <1>2. PICK n : n = Len(frames)
    OBVIOUS
  <1>3. PICK f : f = F
    OBVIOUS
  <1>4. Place(R, Y, f, n)
    BY <1>2, <1>3, Position
  <1>5. /\ f.block \in Y /\ f.pc \in 1..Len(tree[f.block]) /\ s = tree[f.block][f.pc]
        /\ created \in Nat /\ n \in OwnersOf(tree, frames) /\ f = frames[n]
    BY <1>1, <1>3, <1>4 DEF Place, StatAt
  <1>6. /\ tree \in Tree /\ TreeFacts(tree, is_terminal, One, R, Y)
        /\ FramesOK(tree, frames, created)
        /\ NestedOK(nested, OwnersOf(tree, frames), last)
    BY <1>1 DEF Walking, WalkOK
  <1>7. /\ ChainOK(tree, Y, fs)
        /\ OwnersOf(tree, fs) = OwnersOf(tree, frames) \ {n}
        /\ \A k \in OwnersOf(tree, fs) : fs[k] = frames[k]
        /\ Top(fs).block = f.block /\ Top(fs).pc = f.pc + 1 /\ Top(fs).visiting = 0
        /\ FramesOK(tree, fs, created)
    BY <1>1, <1>2, <1>3, StepOn
  <1>8. l2 = Null \/ l2 = cont
    OBVIOUS
  <1>9. BlocksOK(tree, fs, table2, created, cont, l2) /\ table2[cont] = new
    <2>1. Waits(tree, frames[n]) = {cont} /\ Complete(tree, frames, table, created)
      BY ONLY <1>1, <1>3, <1>5, Waits(stat_nodes, F) = {cont},
              Complete(stat_nodes, frames, table, created)
    <2>2. Disowned(tree, frames, n, fs)
      BY ONLY <1>7 DEF Disowned
    <2>3. FramesOK(tree, frames, created) /\ created \in Nat /\ n \in OwnersOf(tree, frames)
      BY ONLY <1>5, <1>6
    <2>. QED BY ONLY <1>8, <2>1, <2>2, <2>3, EndBlocks, IsSeq(new),
                     table2 = With(table, cont, new)
  <1>10. /\ IsSeq(Front(nested)) /\ (Front(nested) = <<>> <=> OwnersOf(tree, frames) \ {n} = {})
         /\ \A l : (Front(nested) = <<>> => l = Null)
                     => NestedOK(Front(nested), OwnersOf(tree, frames) \ {n}, l)
    BY ONLY <1>5, <1>6, NestedPop
  <1>11. ne = <<>> <=> OwnersOf(tree, fs) = {}
    BY ONLY <1>7, <1>10, ne = Front(nested)
  <1>12. NestedOK(ne, OwnersOf(tree, fs), l2)
    <2>1. ne = <<>> => l2 = Null
      OBVIOUS
    <2>. QED BY ONLY <1>7, <1>10, <2>1, ne = Front(nested)
  <1>13. Live(tree, One, R, fs, new, p2, l2) \/ Dead(tree, R, fs, new, p2, l2)
    <2>1. CASE Ended(new) /\ ReturnsSurely(s, R) /\ l2 = Null
      <3>1. DeadRule(tree, R, fs)
        BY ONLY <1>5, <1>6, <1>7, <2>1, NextDead, Y \in SUBSET Block
      <3>. QED BY ONLY <2>1, <3>1 DEF Dead, ClosedIn
    <2>2. CASE /\ Alive(new, p2.behind) /\ ~ReturnsSurely(s, R)
               /\ \/ ne = <<>> /\ l2 = Null /\ p2.behind = 0
                  \/ ne # <<>> /\ l2 = cont /\ p2.behind # 0
      <3>1. p2.behind \in 0..2
        BY ONLY <2>2 DEF Alive
      <3>2. p2.behind > 0 => l2 = p2.block
        BY ONLY <2>2, <3>1, p2.block = cont
      <3>3. f.block = Root => OwnersOf(tree, fs) = {}
        BY ONLY <1>1, <1>4, <1>7 DEF Place
      <3>4. f.block = Root => ~(p2.behind > 0)
        BY ONLY <1>11, <2>2, <3>3
      <3>5. s.kind \notin {"decl", "plain"}
        BY ONLY <1>1, <1>3, <1>4, Owns(stat_nodes, F), s = StatAt(stat_nodes, F)
           DEF Place, Owns, Inside, LeafKind
      <3>6. LiveRule(tree, One, R, Top(fs), new, p2.behind)
        BY ONLY <1>5, <1>6, <1>7, <2>2, <3>4, <3>5, NextLive, Y \in SUBSET Block
      <3>. QED BY ONLY <1>11, <2>2, <3>2, <3>6 DEF Live, InnerIs
    <2>. QED BY <2>1, <2>2
  <1>14. WalkOK(tree, is_terminal, One, R, Y, fs, table2, created, p2, ne, l2)
    BY ONLY <1>6, <1>7, <1>9, <1>12, <1>13, p2.block = cont DEF WalkOK
  <1>. QED BY ONLY <1>1, <1>14

\* The clean-up, as the lemmas have it.
LEMMA CleanIs ==
    ASSUME NEW table, NEW by_loop
    PROVE  Clean(table, by_loop) =
              IF last = Null THEN table ELSE With(table, last, Cleaned(table[last], by_loop))
  BY DEF Clean, With

\* The end of a loop, with its clean-up, keeps it.
LEMMA LoopEndWalks ==
    ASSUME NEW R, NEW Y \in SUBSET Block, Walking(R, Y), EmitLoopEnd
    PROVE  Walking(R, Y)'
  <1>1. PICK s : s = Here
    OBVIOUS
  <1>2. PICK f : f = F
    OBVIOUS
  <1>3. PICK cur : cur = f.inner
    OBVIOUS
  <1>4. PICK cont : cont = f.cont
    OBVIOUS
  <1>5. PICK ne : ne = Front(nested)
    OBVIOUS
  <1>6. PICK default : default = DefaultBranch(ne)
    OBVIOUS
  <1>7. PICK release : release = IF s.kind = "iter_loop" THEN <<Plain>> ELSE <<>>
    OBVIOUS
  <1>8. PICK back : back = <<Restore(s.body), Br({Last(nested).back})>>
    OBVIOUS
  <1>9. PICK looped : looped = IF HasTerminator(ops[cur]) THEN ops
                               ELSE With(ops, cur, ops[cur] \o back)
    OBVIOUS
  <1>10. PICK cleaned : cleaned = Clean(looped, TRUE)
    OBVIOUS
  <1>11. PICK new : new = release \o default
    OBVIOUS
  <1>12. PICK table2 : table2 = With(cleaned, cont, new)
    OBVIOUS
  <1>13. PICK p2 : p2 = [block |-> cont, behind |-> Len(default)]
    OBVIOUS
  <1>14. PICK l2 : l2 = IF ne = <<>> THEN Null ELSE cont
    OBVIOUS
  <1>15. PICK fs : fs = frames'
    OBVIOUS
  <1>16. /\ InRange(stat_nodes, F) /\ F.visiting = 1
         /\ s = StatAt(stat_nodes, F) /\ s.kind \in LoopKind /\ NextStat
    BY <1>1 DEF EmitLoopEnd, AtStat, Here, IsLoop
  <1>17. s.kind # "block" /\ s.kind # "cond" /\ s.kind # "return"
    BY ONLY <1>16 DEF LoopKind
  <1>18. Owns(stat_nodes, F)
    BY ONLY <1>16, <1>17 DEF Owns
  <1>19. s.alt = NoBlock
    <2>1. s \in Stat
      BY <1>16, Position DEF Place, FactsAt, StatAt
    <2>. QED BY ONLY <1>17, <2>1 DEF Stat
  <1>20. Waits(stat_nodes, F) = {cont} /\ cur = Cur(F)
    BY ONLY <1>2, <1>3, <1>4, <1>16, <1>19 DEF Waits, Cur
  <1>21. /\ ops' = table2 /\ nested' = ne /\ last' = l2 /\ point' = p2
    BY <1>1, <1>2, <1>3, <1>4, <1>5, <1>6, <1>7, <1>8, <1>9, <1>10, <1>11, <1>12, <1>13, <1>14
       DEF EmitLoopEnd, With
  <1>22. Settled(stat_nodes, frames, looped, created, last)
    <2>1. ASSUME ~HasTerminator(ops[cur])
          PROVE  IsSeq(ops[cur] \o back) /\ Ended(ops[cur] \o back)
      <3>1. IsSeq(ops[cur]) /\ NoTerminators(ops[cur], Len(ops[cur]))
        BY <1>18, <1>20, <2>1, BodyEnd
      <3>2. IsSeq(back) /\ Ended(back)
        BY <1>8, OpProps, EndedTuples, Tuples
      <3>. QED BY ONLY <3>1, <3>2, AppendEnds
    <2>2. PICK more : more = ops[cur] \o back
      OBVIOUS
    <2>3. looped = IF HasTerminator(ops[cur]) THEN ops ELSE With(ops, cur, more)
      BY ONLY <1>9, <2>2
    <2>4. ~HasTerminator(ops[cur]) => IsSeq(more) /\ Ended(more)
      BY ONLY <2>1, <2>2
    <2>. QED BY ONLY <1>18, <1>20, <2>3, <2>4, Settles, Walking(R, Y), Y \in SUBSET Block
  <1>23. Complete(stat_nodes, frames, cleaned, created)
    <2>1. cleaned = IF last = Null THEN looped
                    ELSE With(looped, last, Cleaned(looped[last], TRUE))
      BY ONLY <1>10, CleanIs
    <2>2. created \in Nat /\ last \in 0..created /\ ~Awaited(stat_nodes, frames, last)
      BY DEF Walking, WalkOK, BlocksOK
    <2>. QED BY ONLY <1>22, <2>1, <2>2, Completes
  <1>24. /\ IsSeq(default)
         /\ \/ ne = <<>> /\ default = <<>>
            \/ ne # <<>> /\ Ended(default) /\ Len(default) \in {1, 2}
    BY ONLY <1>6, DefaultBranchProps
  <1>25. IsSeq(new) /\ Alive(new, Len(default))
    <2>1. NoTerminators(<<>>, Len(<<>>)) /\ NoTerminators(<<Plain>>, Len(<<Plain>>))
      BY OpProps, AliveTuples
    <2>2. IsSeq(<<>>) /\ IsSeq(<<Plain>>)
      BY Tuples
    <2>3. IsSeq(release) /\ NoTerminators(release, Len(release))
      BY ONLY <1>7, <2>1, <2>2
    <2>4. default = <<>> \/ (Ended(default) /\ Len(default) \in {1, 2})
      BY ONLY <1>24
    <2>. QED BY ONLY <1>11, <1>24, <2>3, <2>4, DefaultAlive
  <1>26. ~ReturnsSurely(s, R)
    BY ONLY <1>17 DEF ReturnsSurely
  <1>27. \/ ne = <<>> /\ l2 = Null /\ p2.behind = 0
         \/ ne # <<>> /\ l2 = cont /\ p2.behind # 0
    <2>1. Len(<<>>) = 0
      BY Tuples
    <2>. QED BY ONLY <1>13, <1>14, <1>24, <2>1
  <1>28. p2.block = cont /\ p2.behind = Len(default)
    BY ONLY <1>13
  <1>29. WalkOK(stat_nodes, is_terminal, One, R, Y, fs, table2, created, p2, ne, l2)
    <2>1. \/ /\ Alive(new, p2.behind) /\ ~ReturnsSurely(s, R)
             /\ \/ ne = <<>> /\ l2 = Null /\ p2.behind = 0
                \/ ne # <<>> /\ l2 = cont /\ p2.behind # 0
          \/ Ended(new) /\ ReturnsSurely(s, R) /\ l2 = Null
      BY ONLY <1>25, <1>26, <1>27, <1>28
    <2>. QED BY ONLY <1>5, <1>12, <1>15, <1>16, <1>18, <1>20, <1>23, <1>25, <1>28, <2>1, EndWalks,
                     Walking(R, Y), Y \in SUBSET Block
  <1>30. /\ stat_nodes' = stat_nodes /\ is_terminal' = is_terminal /\ One' = One
         /\ created' = created
    BY DEF EmitLoopEnd, EmitUnchanged, builderVars, One
  <1>. QED BY ONLY <1>15, <1>21, <1>29, <1>30 DEF Walking

\* The branch behind a then or else block.
LEMMA ClosedSettles ==
    ASSUME NEW R, NEW Y \in SUBSET Block, Walking(R, Y), Owns(stat_nodes, F),
           NEW cur, cur = Cur(F), NEW table, table = Closed(cur)
    PROVE  Settled(stat_nodes, frames, table, created, last)
  <1>1. PICK p : p = point
    OBVIOUS
  <1>2. PICK b : b = Br({F.cont})
    OBVIOUS
  <1>3. PICK more : more = Put(ops[p.block], p.behind, <<b>>)
    OBVIOUS
  <1>4. table = IF HasTerminator(ops[cur]) THEN ops ELSE With(ops, p.block, more)
    BY <1>1, <1>2, <1>3 DEF Closed, Insert, Put, With
  <1>5. ASSUME ~HasTerminator(ops[cur])
        PROVE  p.block = cur /\ IsSeq(more) /\ Ended(more)
    <2>1. /\ p.block = cur /\ p.behind = 0
          /\ IsSeq(ops[cur]) /\ NoTerminators(ops[cur], Len(ops[cur]))
      BY <1>1, <1>5, BodyEnd
    <2>2. PICK old : old = ops[cur]
      OBVIOUS
    <2>3. Len(old) \in Nat
      BY ONLY <2>1, <2>2, SeqProps
    <2>4. Len(old) - 0 = Len(old) /\ 0 \in 0..2 /\ 0 <= Len(old) /\ ~(0 > 0)
      BY ONLY <2>3
    <2>5. Alive(old, 0)
      BY ONLY <2>1, <2>2, <2>4 DEF Alive
    <2>6. IsSeq(<<b>>) /\ Ended(<<b>>)
      BY <1>2, Tuples, OpProps, EndedTuples
    <2>7. more = Put(old, 0, <<b>>)
      BY ONLY <1>3, <2>1, <2>2
    <2>8. IsSeq(more) /\ Ended(more)
      BY ONLY <2>1, <2>2, <2>4, <2>5, <2>6, <2>7, PutEnds
    <2>. QED BY ONLY <2>1, <2>8
  <1>6. table = IF HasTerminator(ops[cur]) THEN ops ELSE With(ops, cur, more)
    BY ONLY <1>4, <1>5
  <1>7. ~HasTerminator(ops[cur]) => IsSeq(more) /\ Ended(more)
    BY ONLY <1>5
  <1>. QED BY ONLY <1>6, <1>7, Settles, Walking(R, Y), Y \in SUBSET Block, Owns(stat_nodes, F),
                   cur = Cur(F)

\* The end of a conditional, with its clean-up, keeps it.
LEMMA CondEndWalks ==
    ASSUME NEW R, NEW Y \in SUBSET Block, Walking(R, Y), EmitCondEnd
    PROVE  Walking(R, Y)'
  <1>1. PICK s : s = Here
    OBVIOUS
  <1>2. PICK f : f = F
    OBVIOUS
  <1>3. PICK cur : cur = IF s.alt = NoBlock THEN f.inner ELSE f.els
    OBVIOUS
  <1>4. PICK cont : cont = f.cont
    OBVIOUS
  <1>5. PICK ne : ne = Front(nested)
    OBVIOUS
  <1>6. PICK branch : branch = DefaultBranch(ne)
    OBVIOUS
  <1>7. PICK default : default = IF IsTerminal THEN <<Unreachable>> ELSE branch
    OBVIOUS
  <1>8. PICK closed : closed = Closed(cur)
    OBVIOUS
  <1>9. PICK cleaned : cleaned = Clean(closed, FALSE)
    OBVIOUS
  <1>10. PICK table2 : table2 = With(cleaned, cont, default)
    OBVIOUS
  <1>11. PICK p2 : p2 = [block |-> cont, behind |-> Len(default)]
    OBVIOUS
  <1>12. PICK l2 : l2 = IF IsTerminal \/ ne = <<>> THEN Null ELSE cont
    OBVIOUS
  <1>13. PICK fs : fs = frames'
    OBVIOUS
  <1>14. /\ InRange(stat_nodes, F) /\ F.visiting = IF s.alt = NoBlock THEN 1 ELSE 2
         /\ s = StatAt(stat_nodes, F) /\ s.kind = "cond" /\ NextStat
    BY <1>1 DEF EmitCondEnd, AtStat, Here
  <1>15. Owns(stat_nodes, F)
    BY ONLY <1>14 DEF Owns
  <1>16. Waits(stat_nodes, F) = {cont} /\ cur = Cur(F)
    BY ONLY <1>2, <1>3, <1>4, <1>14 DEF Waits, Cur
  <1>17. /\ ops' = table2 /\ nested' = ne /\ last' = l2 /\ point' = p2
    BY <1>1, <1>2, <1>3, <1>4, <1>5, <1>6, <1>7, <1>8, <1>9, <1>10, <1>11, <1>12
       DEF EmitCondEnd, With
  <1>18. Settled(stat_nodes, frames, closed, created, last)
    BY ONLY <1>8, <1>15, <1>16, ClosedSettles, Walking(R, Y), Y \in SUBSET Block
  <1>19. Complete(stat_nodes, frames, cleaned, created)
    <2>1. cleaned = IF last = Null THEN closed
                    ELSE With(closed, last, Cleaned(closed[last], FALSE))
      BY ONLY <1>9, CleanIs
    <2>2. created \in Nat /\ last \in 0..created /\ ~Awaited(stat_nodes, frames, last)
      BY DEF Walking, WalkOK, BlocksOK
    <2>. QED BY ONLY <1>18, <2>1, <2>2, Completes
  <1>20. IsTerminal <=> ReturnsSurely(s, R)
    <2>1. <<f.block, f.pc>> \in is_terminal <=> s.kind = "cond" /\ ReturnsSurely(s, R)
      <3>1. FactsAt(stat_nodes, is_terminal, One, R, Y, f.block, f.pc)
        BY <1>2, <1>14, Position DEF Place
      <3>. QED BY ONLY <1>2, <1>14, <3>1 DEF FactsAt, StatAt
    <2>. QED BY ONLY <1>2, <1>14, <2>1 DEF IsTerminal, Pos
  <1>21. p2.block = cont /\ p2.behind = Len(default)
    BY ONLY <1>11
  <1>22. /\ IsSeq(default)
         /\ \/ /\ Alive(default, p2.behind) /\ ~ReturnsSurely(s, R)
               /\ \/ ne = <<>> /\ l2 = Null /\ p2.behind = 0
                  \/ ne # <<>> /\ l2 = cont /\ p2.behind # 0
            \/ Ended(default) /\ ReturnsSurely(s, R) /\ l2 = Null
    <2>1. CASE IsTerminal
      <3>1. default = <<Unreachable>> /\ l2 = Null
        BY ONLY <1>7, <1>12, <2>1
      <3>2. IsSeq(<<Unreachable>>) /\ Ended(<<Unreachable>>)
        BY Tuples, OpProps, EndedTuples
      <3>. QED BY ONLY <1>20, <2>1, <3>1, <3>2
    <2>2. CASE ~IsTerminal
      <3>1. /\ IsSeq(branch)
            /\ \/ ne = <<>> /\ branch = <<>>
               \/ ne # <<>> /\ Ended(branch) /\ Len(branch) \in {1, 2}
        BY ONLY <1>6, DefaultBranchProps
      <3>2. default = branch /\ l2 = IF ne = <<>> THEN Null ELSE cont
        BY ONLY <1>7, <1>12, <2>2
      <3>3. CASE ne = <<>> /\ branch = <<>>
        <4>1. Len(<<>>) = 0 /\ Alive(<<>>, 0)
          BY Tuples, OpProps, AliveTuples
        <4>. QED BY ONLY <1>20, <1>21, <2>2, <3>1, <3>2, <3>3, <4>1
      <3>4. CASE ne # <<>> /\ Ended(branch) /\ Len(branch) \in {1, 2}
        <4>1. PICK m \in {1, 2} : m = Len(branch)
          BY <3>4
        <4>2. m - m = 0 /\ m \in 0..2 /\ m <= m /\ m # 0
          BY ONLY <4>1
        <4>3. NoTerminators(branch, 0)
          BY DEF NoTerminators
        <4>4. Alive(branch, m)
          BY ONLY <3>4, <4>1, <4>2, <4>3 DEF Alive
        <4>. QED BY ONLY <1>20, <1>21, <2>2, <3>1, <3>2, <3>4, <4>1, <4>2, <4>4
      <3>. QED BY ONLY <3>1, <3>3, <3>4
    <2>. QED BY <2>1, <2>2
  <1>23. WalkOK(stat_nodes, is_terminal, One, R, Y, fs, table2, created, p2, ne, l2)
    <2>1. IsSeq(default)
      BY ONLY <1>22
    <2>2. \/ /\ Alive(default, p2.behind) /\ ~ReturnsSurely(s, R)
             /\ \/ ne = <<>> /\ l2 = Null /\ p2.behind = 0
                \/ ne # <<>> /\ l2 = cont /\ p2.behind # 0
          \/ Ended(default) /\ ReturnsSurely(s, R) /\ l2 = Null
      BY ONLY <1>22
    <2>. QED BY ONLY <1>5, <1>10, <1>13, <1>14, <1>15, <1>16, <1>19, <1>21, <2>1, <2>2, EndWalks,
                     Walking(R, Y), Y \in SUBSET Block
  <1>24. /\ stat_nodes' = stat_nodes /\ is_terminal' = is_terminal /\ One' = One
         /\ created' = created
    BY DEF EmitCondEnd, EmitUnchanged, builderVars, One
  <1>. QED BY ONLY <1>13, <1>17, <1>23, <1>24 DEF Walking

\* Going from the if-part to the else-part keeps it.
LEMMA CondElseWalks ==
    ASSUME NEW R, NEW Y \in SUBSET Block, Walking(R, Y), EmitCondElse
    PROVE  Walking(R, Y)'
  <1>1. PICK s : s = Here
    OBVIOUS
  <1>2. PICK f : f = F
    OBVIOUS
  <1>3. PICK n : n = Len(frames)
    OBVIOUS
  <1>4. PICK c : c = created
    OBVIOUS
  <1>5. PICK tree : tree = stat_nodes
    OBVIOUS
  <1>6. PICK g : g = [f EXCEPT !.visiting = 2]
    OBVIOUS
  <1>7. PICK table : table = Closed(f.inner)
    OBVIOUS
  <1>8. PICK els : els = f.els
    OBVIOUS
  <1>9. PICK cont : cont = f.cont
    OBVIOUS
  <1>10. PICK p2 : p2 = [block |-> els, behind |-> 0]
    OBVIOUS
  <1>11. PICK less : less = Front(nested)
    OBVIOUS
  <1>12. PICK ne : ne = Append(less, CondEntry(cont))
    OBVIOUS
  <1>13. PICK fs : fs = frames'
    OBVIOUS
  <1>14. /\ InRange(tree, f) /\ f.visiting = 1 /\ s = StatAt(tree, f) /\ s.kind = "cond"
         /\ s.alt # NoBlock
    BY <1>1, <1>2, <1>5 DEF EmitCondElse, AtStat, Here
  <1>15. /\ ops' = table /\ point' = p2 /\ nested' = ne
         /\ fs = Append(SetTop(frames, g), Visit(s.alt))
    BY <1>1, <1>2, <1>6, <1>7, <1>8, <1>9, <1>10, <1>11, <1>12, <1>13 DEF EmitCondElse
  <1>16. Place(R, Y, f, n)
    BY <1>2, <1>3, Position
  <1>17. Owns(tree, f) /\ n \in OwnersOf(tree, frames) /\ f = frames[n]
    <2>1. Owns(tree, f)
      BY ONLY <1>14 DEF Owns
    <2>. QED BY ONLY <1>5, <1>16, <2>1 DEF Place
  <1>18. c \in Nat /\ n \in Nat /\ n \in 1..n /\ f \in CFrame
    BY ONLY <1>4, <1>16 DEF Place
  <1>19. /\ g \in CFrame /\ g.block = f.block /\ g.pc = f.pc /\ g.visiting = 2
         /\ g.els = els /\ g.cont = cont
    BY ONLY <1>6, <1>8, <1>9, <1>18 DEF CFrame
  <1>20. StatAt(tree, g) = s /\ Owns(tree, g)
    BY ONLY <1>14, <1>19 DEF StatAt, Owns
  <1>21. /\ tree \in Tree /\ TreeFacts(tree, is_terminal, One, R, Y)
         /\ FramesOK(tree, frames, c)
         /\ BlocksOK(tree, frames, ops, c, point.block, last)
         /\ NestedOK(nested, OwnersOf(tree, frames), last)
    BY <1>4, <1>5 DEF Walking, WalkOK
  <1>22. s.alt \in Y \ {Root} /\ Descended(tree, Y, frames, g, s.alt, fs)
    <2>1. PICK y : y = s.alt
      OBVIOUS
    <2>2. g.visiting = 2 /\ s.alt # NoBlock /\ y = s.alt
      BY <1>14, <1>19, <2>1
    <2>3. s.kind \notin LeafKind
      BY ONLY <1>14 DEF LeafKind, ExitKind
    <2>4. y \in Y \ {Root} /\ Descended(stat_nodes, Y, frames, g, y, fs)
      BY <2>1, <2>2, <2>3, <1>2, <1>5, <1>14, <1>15, <1>19, StepIn
    <2>. QED BY <1>5, <2>1, <2>4
  <1>23. /\ ChainOK(tree, Y, fs) /\ Top(fs) = Visit(s.alt) /\ fs[n] = g
         /\ \A k \in OwnersOf(tree, frames) \ {n} : fs[k] = frames[k]
         /\ OwnersOf(tree, fs) = (OwnersOf(tree, frames) \ {n}) \cup {n}
    BY ONLY <1>3, <1>20, <1>22 DEF Descended
  <1>24. /\ Waits(tree, f) = {cont, els} /\ Waits(tree, g) = {cont} /\ Cur(g) = els
         /\ Cur(f) = f.inner
    <2>1. StatAt(tree, f).alt # NoBlock
      BY ONLY <1>14
    <2>. QED BY ONLY <1>8, <1>9, <1>14, <1>19, <2>1 DEF Waits, Cur
  <1>25. cont \in 1..c /\ els \in 1..c /\ els # cont
    <2>1. FrameOK(tree, f, c)
      BY ONLY <1>17, <1>21 DEF FramesOK
    <2>. QED BY ONLY <1>8, <1>9, <1>14, <1>24, <2>1 DEF FrameOK
  <1>26. FramesOK(tree, fs, c)
    <2>1. FrameOK(tree, g, c)
      BY ONLY <1>19, <1>24, <1>25 DEF FrameOK
    <2>2. ASSUME NEW k \in OwnersOf(tree, frames) \ {n} PROVE FramesApart(tree, frames[k], g)
      <3>1. FramesApart(tree, frames[k], f)
        BY ONLY <1>17, <1>21, <2>2 DEF FramesOK
      <3>. QED BY ONLY <1>24, <3>1 DEF FramesApart
    <2>3. c <= c
      BY ONLY <1>18
    <2>. QED BY ONLY <1>18, <1>21, <1>23, <2>1, <2>2, <2>3, FramesReplaced
  <1>27. \A b : Awaited(tree, fs, b) <=> Awaited(tree, frames, b) /\ b # els
    <2>1. \A k \in OwnersOf(tree, frames) \ {n} : els \notin Waits(tree, frames[k])
      <3>1. ASSUME NEW k \in OwnersOf(tree, frames) \ {n} PROVE els \notin Waits(tree, frames[k])
        <4>1. FramesApart(tree, frames[k], f)
          BY ONLY <1>17, <1>21, <3>1 DEF FramesOK
        <4>. QED BY ONLY <1>24, <4>1 DEF FramesApart
      <3>. QED BY <3>1
    <2>2. ASSUME NEW b, Awaited(tree, fs, b) PROVE Awaited(tree, frames, b) /\ b # els
      <3>1. PICK k \in OwnersOf(tree, fs) : b \in Waits(tree, fs[k])
        BY <2>2 DEF Awaited
      <3>2. CASE k = n
        <4>1. b = cont /\ b \in Waits(tree, frames[n])
          BY ONLY <1>17, <1>23, <1>24, <3>1, <3>2
        <4>. QED BY ONLY <1>17, <1>25, <4>1 DEF Awaited
      <3>3. CASE k # n
        <4>1. k \in OwnersOf(tree, frames) \ {n} /\ b \in Waits(tree, frames[k])
          BY ONLY <1>23, <3>1, <3>3
        <4>. QED BY ONLY <2>1, <4>1 DEF Awaited
      <3>. QED BY <3>2, <3>3
    <2>3. ASSUME NEW b, Awaited(tree, frames, b), b # els PROVE Awaited(tree, fs, b)
      <3>1. PICK k \in OwnersOf(tree, frames) : b \in Waits(tree, frames[k])
        BY <2>3 DEF Awaited
      <3>2. CASE k = n
        <4>1. b \in Waits(tree, fs[n]) /\ n \in OwnersOf(tree, fs)
          BY ONLY <1>17, <1>23, <1>24, <2>3, <3>1, <3>2
        <4>. QED BY ONLY <4>1 DEF Awaited
      <3>3. CASE k # n
        <4>1. k \in OwnersOf(tree, fs) /\ b \in Waits(tree, fs[k])
          BY ONLY <1>23, <3>1, <3>3
        <4>. QED BY ONLY <4>1 DEF Awaited
      <3>. QED BY <3>2, <3>3
    <2>. QED BY ONLY <2>2, <2>3
  <1>28. Settled(tree, frames, table, c, last)
    BY ONLY <1>2, <1>4, <1>5, <1>7, <1>17, <1>24, ClosedSettles, Walking(R, Y), Y \in SUBSET Block
  <1>29. Awaited(tree, frames, els)
    BY ONLY <1>17, <1>24 DEF Awaited
  <1>30. BlocksOK(tree, fs, table, c, els, last)
    <2>1. last \in 0..c /\ ~Awaited(tree, frames, last)
      BY ONLY <1>21 DEF BlocksOK
    <2>2. ASSUME NEW b \in 1..c PROVE BlockOK(tree, fs, table[b], b, els, last)
      <3>1. /\ IsSeq(table[b])
            /\ Awaited(tree, frames, b) => table[b] = <<>>
            /\ ~Awaited(tree, frames, b) => ClosedIn(table[b], b, last)
        BY ONLY <1>28, <2>2 DEF Settled
      <3>. QED BY ONLY <1>27, <3>1 DEF BlockOK
    <2>3. DOMAIN table = 1..c
      BY ONLY <1>28 DEF Settled
    <2>. QED BY ONLY <1>18, <1>25, <1>27, <2>1, <2>2, <2>3 DEF BlocksOK
  <1>31. NestedOK(ne, OwnersOf(tree, fs), last)
    <2>1. PICK O : O = OwnersOf(tree, frames) \ {n}
      OBVIOUS
    <2>2. /\ \A l2 : (Front(nested) = <<>> => l2 = Null)
                      => NestedOK(Front(nested), OwnersOf(tree, frames) \ {n}, l2)
      BY ONLY <1>17, <1>21, NestedPop
    <2>3. NestedOK(less, O, Null)
      BY ONLY <1>11, <2>1, <2>2
    <2>4. n \notin O /\ OwnersOf(tree, fs) = O \cup {n}
      BY ONLY <1>23, <2>1
    <2>5. PICK e : e = CondEntry(cont)
      OBVIOUS
    <2>6. NestedOK(Append(less, e), O \cup {n}, last)
      BY ONLY <2>3, <2>4, NestedPush
    <2>. QED BY ONLY <1>12, <2>4, <2>5, <2>6
  <1>32. p2.block = els /\ p2.behind = 0 /\ ~(p2.behind > 0)
    BY ONLY <1>10
  <1>33. table[els] = <<>>
    BY ONLY <1>25, <1>28, <1>29 DEF Settled
  <1>34. Live(tree, One, R, fs, table[els], p2, last)
    <2>1. Alive(table[els], p2.behind)
      <3>1. Alive(<<>>, 0)
        BY Tuples, OpProps, AliveTuples
      <3>. QED BY ONLY <1>32, <1>33, <3>1
    <2>2. InnerIs(tree, fs, els)
      <3>1. \A k \in OwnersOf(tree, fs) : k \in 1..n
        BY ONLY <1>3, <1>18, <1>23 DEF OwnersOf
      <3>2. \A k \in 1..n : n <= k => k = n
        BY ONLY <1>18
      <3>3. n \in OwnersOf(tree, fs)
        BY ONLY <1>23
      <3>. QED BY ONLY <1>23, <1>24, <3>1, <3>2, <3>3 DEF InnerIs
    <2>3. LiveRule(tree, One, R, Top(fs), table[els], p2.behind)
      <3>1. LiveRule(tree, One, R, Visit(s.alt), table[els], p2.behind)
        BY ONLY <1>21, <1>22, <1>32, EnterLive, Y \in SUBSET Block
      <3>. QED BY ONLY <1>23, <3>1
    <2>. QED BY ONLY <1>32, <2>1, <2>2, <2>3 DEF Live
  <1>35. WalkOK(tree, is_terminal, One, R, Y, fs, table, c, p2, ne, last)
    BY ONLY <1>21, <1>23, <1>26, <1>30, <1>31, <1>32, <1>34 DEF WalkOK
  <1>36. /\ stat_nodes' = tree /\ is_terminal' = is_terminal /\ One' = One /\ last' = last
         /\ created' = c
    BY <1>4, <1>5 DEF EmitCondElse, EmitUnchanged, builderVars, One
  <1>. QED BY ONLY <1>13, <1>15, <1>35, <1>36 DEF Walking

\* The end of a block that is not the body of the subroutine.
LEMMA LeaveWalks ==
    ASSUME NEW R, NEW Y \in SUBSET Block, Walking(R, Y), LeaveBlock, Len(frames) # 1
    PROVE  Walking(R, Y)'
  <1>1. PICK f : f = F
    OBVIOUS
  <1>2. PICK n : n = Len(frames)
    OBVIOUS
  <1>3. PICK tree : tree = stat_nodes
    OBVIOUS
  <1>4. PICK p : p = point
    OBVIOUS
  <1>5. PICK old : old = ops[p.block]
    OBVIOUS
  <1>6. PICK fs : fs = frames'
    OBVIOUS
  <1>7. PICK g : g = Top(fs)
    OBVIOUS
  <1>8. /\ tree \in Tree /\ TreeFacts(tree, is_terminal, One, R, Y)
        /\ ChainOK(tree, Y, frames) /\ FramesOK(tree, frames, created)
        /\ BlocksOK(tree, frames, ops, created, p.block, last)
        /\ NestedOK(nested, OwnersOf(tree, frames), last)
        /\ \/ Live(tree, One, R, frames, old, p, last)
           \/ Dead(tree, R, frames, old, p, last)
    BY <1>3, <1>4, <1>5 DEF Walking, WalkOK
  <1>9. ~InRange(tree, f) /\ fs = Pop(frames) /\ f = Top(frames) /\ n # 1
    BY <1>1, <1>2, <1>3, <1>6 DEF LeaveBlock, F
  <1>10. /\ ChainOK(tree, Y, fs) /\ g = frames[n - 1]
         /\ OwnersOf(tree, fs) = OwnersOf(tree, frames)
         /\ \A k \in OwnersOf(tree, fs) : fs[k] = frames[k]
         /\ g.visiting # 0 /\ Inside(tree, g) /\ f.block = Child(tree, g)
    <2>1. tree \in Tree /\ ChainOK(tree, Y, frames) /\ Len(frames) # 1
          /\ ~InRange(tree, Top(frames))
      BY ONLY <1>2, <1>8, <1>9
    <2>2. Popped(tree, Y, frames, Pop(frames))
      BY ONLY <2>1, PopFrames
    <2>. QED BY ONLY <1>2, <1>7, <1>9, <2>2 DEF Popped
  <1>11. g \in CFrame /\ g.block \in Y
    BY ONLY <1>7, <1>10, StackTop
  <1>12. created \in Nat
    BY ONLY <1>8 DEF BlocksOK
  <1>13. SameAwaited(tree, frames, fs) /\ (InnerIs(tree, frames, p.block) => InnerIs(tree, fs, p.block))
    BY ONLY <1>10 DEF Awaited, SameAwaited, InnerIs
  <1>14. FramesOK(tree, fs, created)
    BY ONLY <1>8, <1>10, <1>12, FramesKept
  <1>15. BlocksOK(tree, fs, ops, created, p.block, last)
    BY ONLY <1>8, <1>13 DEF BlocksOK, BlockOK, SameAwaited
  <1>16. PICK t : t = StatAt(tree, g)
    OBVIOUS
  <1>17. InRange(tree, g)
    BY ONLY <1>10 DEF Inside
  <1>18. t.kind = "block" => t.body = f.block /\ NoExits(tree, f.block)
    <2>1. FactsAt(tree, is_terminal, One, R, Y, g.block, g.pc)
      BY ONLY <1>8, <1>11, <1>17, InsideFacts, Y \in SUBSET Block
    <2>2. t \in Stat /\ (t.kind = "block" => NoExits(tree, t.body))
      BY ONLY <1>16, <2>1 DEF FactsAt, StatAt
    <2>3. t.kind = "block" => t.alt = NoBlock
      BY ONLY <2>2 DEF Stat
    <2>. QED BY ONLY <1>10, <1>16, <2>2, <2>3 DEF Child, Inside
  <1>19. t.kind = "block" => (ReturnsSurely(t, R) <=> f.block \in R)
    BY ONLY <1>18 DEF ReturnsSurely
  <1>20. ASSUME Live(tree, One, R, frames, old, p, last)
         PROVE  Live(tree, One, R, fs, old, p, last)
    <2>1. ~(f.block \in R /\ NoExits(tree, f.block))
      BY ONLY <1>9, <1>20 DEF Live, LiveRule
    <2>2. t.kind = "block" => ~ReturnsSurely(t, R)
      BY ONLY <1>18, <1>19, <2>1
    <2>3. LiveRule(tree, One, R, g, old, p.behind)
      BY ONLY <1>10, <1>16, <1>17, <2>2 DEF LiveRule
    <2>. QED BY ONLY <1>7, <1>13, <1>20, <2>3 DEF Live
  <1>21. ASSUME Dead(tree, R, frames, old, p, last)
         PROVE  Dead(tree, R, fs, old, p, last)
    <2>1. f.block \in R \/ t.kind # "block"
      BY ONLY <1>2, <1>9, <1>10, <1>16, <1>21 DEF Dead, DeadRule
    <2>2. t.kind = "block" => ReturnsSurely(t, R)
      BY ONLY <1>19, <2>1
    <2>3. DeadRule(tree, R, fs)
      BY ONLY <1>7, <1>10, <1>16, <1>17, <2>2 DEF DeadRule
    <2>. QED BY ONLY <1>21, <2>3 DEF Dead
  <1>22. Live(tree, One, R, fs, old, p, last) \/ Dead(tree, R, fs, old, p, last)
    BY ONLY <1>8, <1>20, <1>21
  <1>23. WalkOK(tree, is_terminal, One, R, Y, fs, ops, created, p, nested, last)
    BY ONLY <1>5, <1>8, <1>10, <1>14, <1>15, <1>22 DEF WalkOK
  <1>24. /\ stat_nodes' = tree /\ is_terminal' = is_terminal /\ One' = One /\ created' = created
         /\ point' = p /\ nested' = nested /\ last' = last /\ ops' = ops
    BY <1>3, <1>4 DEF LeaveBlock, builderVars, One
  <1>. QED BY ONLY <1>6, <1>23, <1>24 DEF Walking

\* The end of the body of the subroutine: it returns, so nothing more can be
\* reached, and every block is complete.
LEMMA LeaveEnds ==
    ASSUME NEW R, NEW Y \in SUBSET Block, Walking(R, Y), LeaveBlock, Len(frames) = 1
    PROVE  Verified
  <1>1. PICK f : f = F
    OBVIOUS
  <1>2. PICK tree : tree = stat_nodes
    OBVIOUS
  <1>3. PICK p : p = point
    OBVIOUS
  <1>4. PICK old : old = ops[p.block]
    OBVIOUS
  <1>5. PICK c : c = created
    OBVIOUS
  <1>6. PICK table : table = ops
    OBVIOUS
  <1>7. /\ tree \in Tree /\ TreeFacts(tree, is_terminal, One, R, Y)
        /\ ChainOK(tree, Y, frames)
        /\ BlocksOK(tree, frames, table, c, p.block, last)
        /\ NestedOK(nested, OwnersOf(tree, frames), last)
        /\ \/ Live(tree, One, R, frames, old, p, last)
           \/ Dead(tree, R, frames, old, p, last)
    BY <1>2, <1>3, <1>4, <1>5, <1>6 DEF Walking, WalkOK
  <1>8. ~InRange(tree, f) /\ f = Top(frames)
    BY <1>1, <1>2 DEF LeaveBlock, F
  <1>9. f.block = Root /\ f = frames[1] /\ f.visiting = 0
    <2>1. /\ Top(frames) = frames[Len(frames)]
          /\ Top(frames).visiting # 0 => Inside(tree, Top(frames))
          /\ Len(frames) = 1 => Top(frames).block = Root
      BY ONLY <1>7, StackTop
    <2>. QED BY ONLY <1>8, <2>1, Len(frames) = 1 DEF Inside
  <1>10. OwnersOf(tree, frames) = {}
    <2>1. \A k \in 1..1 : k = 1
      OBVIOUS
    <2>2. ~Owns(tree, f)
      BY ONLY <1>9 DEF Owns
    <2>. QED BY ONLY <1>9, <2>1, <2>2, Len(frames) = 1 DEF OwnersOf
  <1>11. Dead(tree, R, frames, old, p, last)
    <2>1. Root \in R /\ NoExits(tree, Root)
      BY ONLY <1>7 DEF TreeFacts
    <2>. QED BY ONLY <1>7, <1>8, <1>9, <2>1 DEF Live, LiveRule
  <1>12. last = Null
    <2>1. NestedOK(nested, {}, last)
      BY ONLY <1>7, <1>10
    <2>2. nested = <<>>
      <3>1. IsSeq(nested) /\ Len(nested) = 0
        BY ONLY <2>1, FS_EmptySet DEF NestedOK
      <3>. QED BY ONLY <3>1, SeqProps
    <2>. QED BY ONLY <2>1, <2>2 DEF NestedOK
  <1>13. ASSUME NEW b \in 1..c PROVE WellFormed(b)
    <2>1. PICK s : s = table[b]
      OBVIOUS
    <2>2. IsSeq(s) /\ ClosedIn(s, b, last)
      <3>1. BlockOK(tree, frames, s, b, p.block, last)
        BY ONLY <1>7, <1>13, <2>1 DEF BlocksOK
      <3>2. ~Awaited(tree, frames, b)
        BY ONLY <1>10 DEF Awaited
      <3>3. b = p.block => ClosedIn(s, b, last)
        BY ONLY <1>4, <1>6, <1>11, <2>1 DEF Dead
      <3>. QED BY ONLY <3>1, <3>2, <3>3 DEF BlockOK
    <2>3. Ended(s)
      <3>1. b # last
        BY ONLY <1>12, <1>13 DEF Null
      <3>. QED BY ONLY <2>2, <3>1 DEF ClosedIn
    <2>4. HasTerminator(s)
      BY ONLY <2>2, <2>3, Terminated
    <2>. QED BY ONLY <1>6, <2>1, <2>3, <2>4 DEF WellFormed, Ended, NoTerminators
  <1>. QED BY ONLY <1>5, <1>13 DEF Verified

-----------------------------------------------------------------------------
(* The invariant of the module.                                            *)

\* What the code generator starts with.
Fresh ==
    /\ ops = [b \in 1..1 |-> <<>>] /\ created = 1 /\ point = [block |-> 1, behind |-> 0]
    /\ nested = <<>> /\ last = Null

EmitInv ==
    /\ pass \in {"build", "emit", "run", "rejected"}
    /\ pass = "build" => BuilderTypeOK /\ BuildInv /\ TextRule(stat_nodes) /\ Fresh
    /\ pass = "emit" => \E R, Y \in SUBSET Block : Walking(R, Y)
    /\ pass = "run" => Verified

\* The walk starts at the body of the subroutine, in the one block there is.
LEMMA EmissionStarts ==
    ASSUME NEW tree \in Tree, NEW terminal, NEW one, NEW R, NEW Y \in SUBSET Block,
           TreeFacts(tree, terminal, one, R, Y), NEW fs, fs = <<Visit(Root)>>,
           NEW table, table = [b \in 1..1 |-> <<>>], NEW p, p = [block |-> 1, behind |-> 0],
           NEW c, c = 1, NEW ne, ne = <<>>, NEW l, l = Null
    PROVE  WalkOK(tree, terminal, one, R, Y, fs, table, c, p, ne, l)
  <1>1. PICK f : f = Visit(Root)
    OBVIOUS
  <1>2. f \in CFrame /\ f.block = Root /\ f.pc = 1 /\ f.visiting = 0
    BY <1>1, VisitProps, RootIsBlock
  <1>3. fs \in Seq(CFrame) /\ Len(fs) = 1 /\ fs[1] = f /\ fs = <<f>>
    BY <1>1, <1>2
  <1>4. \A k \in 1..1 : k = 1 /\ ~(k > 1) /\ ~(k < 1)
    OBVIOUS
  <1>5. Root \in Y /\ Root \in R /\ NoExits(tree, Root)
    BY DEF TreeFacts
  <1>6. ChainOK(tree, Y, fs)
    <2>1. Len(fs) > 0
      BY <1>3
    <2>. QED BY ONLY <1>2, <1>3, <1>4, <1>5, <2>1 DEF ChainOK
  <1>7. OwnersOf(tree, fs) = {}
    BY ONLY <1>2, <1>3, <1>4 DEF OwnersOf, Owns
  <1>8. FramesOK(tree, fs, 1) /\ \A b : ~Awaited(tree, fs, b)
    BY ONLY <1>7 DEF FramesOK, Awaited
  <1>9. p.block = 1 /\ p.behind = 0 /\ ~(p.behind > 0)
    OBVIOUS
  <1>10. DOMAIN table = 1..1 /\ table[1] = <<>> /\ IsSeq(<<>>)
    <2>1. IsSeq(<<>>)
      BY Tuples
    <2>2. DOMAIN table = 1..1 /\ table[1] = <<>>
      BY ONLY table = [b \in 1..1 |-> <<>>]
    <2>. QED BY ONLY <2>1, <2>2
  <1>11. BlocksOK(tree, fs, table, 1, p.block, Null)
    <2>1. ASSUME NEW b \in 1..1 PROVE BlockOK(tree, fs, table[b], b, 1, Null)
      BY ONLY <1>4, <1>8, <1>10, <2>1 DEF BlockOK
    <2>2. 1 \in Nat /\ 1 \in 1..1 /\ Null \in 0..1
      BY DEF Null
    <2>. QED BY ONLY <1>8, <1>9, <1>10, <2>1, <2>2 DEF BlocksOK
  <1>12. NestedOK(<<>>, OwnersOf(tree, fs), Null)
    <2>1. Len(<<>>) = 0
      BY Tuples
    <2>. QED BY ONLY <1>7, <1>10, <2>1, FS_EmptySet DEF NestedOK
  <1>13. Top(fs) = f
    BY <1>3 DEF Top
  <1>14. InRange(tree, f)
    <2>1. Len(tree[Root]) > 0
      BY <1>5, EndFacts
    <2>2. PICK k \in Nat : k = Len(tree[Root])
      BY RootIsBlock DEF Tree
    <2>. QED BY <1>2, <2>1, <2>2 DEF InRange
  <1>15. Live(tree, one, R, fs, table[p.block], p, Null)
    <2>1. Alive(<<>>, 0)
      BY Tuples, OpProps, AliveTuples
    <2>2. Alive(table[p.block], p.behind)
      BY ONLY <1>9, <1>10, <2>1
    <2>3. LiveRule(tree, one, R, f, table[p.block], p.behind)
      BY ONLY <1>2, <1>9, <1>14 DEF LiveRule
    <2>. QED BY ONLY <1>7, <1>9, <1>13, <2>2, <2>3 DEF Live, InnerIs
  <1>16. /\ FramesOK(tree, fs, c) /\ BlocksOK(tree, fs, table, c, p.block, l)
         /\ NestedOK(ne, OwnersOf(tree, fs), l) /\ Live(tree, one, R, fs, table[p.block], p, l)
    BY ONLY <1>8, <1>11, <1>12, <1>15, c = 1, ne = <<>>, l = Null
  <1>. QED BY ONLY <1>6, <1>16, tree \in Tree, TreeFacts(tree, terminal, one, R, Y) DEF WalkOK

\* The empty text.
LEMMA EmitInvInit ==
    ASSUME Init
    PROVE  EmitInv
  <1>1. stat_nodes = [b \in Block |-> <<>>] /\ open = <<Root>> /\ used = 1 /\ pass = "build"
    BY DEF Init, BuilderInit
  <1>2. BuilderTypeOK
    BY RootIsBlock, ASTBuilderAssumption
    DEF Init, BuilderInit, BuilderTypeOK, Tree, Root
  <1>3. \A b \in Block : DOMAIN stat_nodes[b] = {}
    BY <1>1
  <1>4. Shape(stat_nodes) /\ NoFrees(stat_nodes) /\ ReturnsNote(stat_nodes, {NoScope})
    BY <1>3 DEF Shape, ParentsFirst, OneOwner, NoFrees, ReturnsNote
  <1>5. Opened(stat_nodes, used) /\ \A k \in DOMAIN open : open[k] <= used
    BY <1>1, <1>3 DEF Opened, Root
  <1>6. TextRule(stat_nodes)
    <2>1. NoNestedExits(stat_nodes)
      BY <1>3 DEF NoNestedExits
    <2>2. OneOperationsApart(stat_nodes)
      BY <1>3 DEF OneOperationsApart
    <2>. QED BY <2>1, <2>2 DEF TextRule
  <1>7. Fresh
    BY DEF Init, Fresh
  <1>. QED BY <1>1, <1>2, <1>4, <1>5, <1>6, <1>7 DEF EmitInv, BuildInv

\* Reading the text.
LEMMA BuildingKeepsEmitInv ==
    ASSUME EmitInv, Building
    PROVE  EmitInv'
  <1>1. pass = "build" /\ pass' = "build" /\ Build
    BY DEF Building
  <1>2. BuilderTypeOK /\ BuildInv /\ Fresh
    BY <1>1 DEF EmitInv
  <1>3. BuilderTypeOK'
    BY <1>1, <1>2, BuildTypeOK
  <1>4. BuildInv'
    BY <1>1, <1>2, BuildKeepsInv
  <1>5. TextRule(stat_nodes)'
    <2>1. TextRule(stat_nodes')
      BY DEF Building
    <2>2. returns_value' = returns_value
      BY DEF Building, Build, ReadLeaf, OpenBody, OpenElse, CloseBody, CloseSubroutine
    <2>. QED BY <2>1, <2>2 DEF TextRule, OneOperationsApart, OneOperation
  <1>6. Fresh'
    BY <1>2 DEF Building, Fresh, emitVars
  <1>. QED BY <1>1, <1>3, <1>4, <1>5, <1>6 DEF EmitInv

\* What those passes leave.
LEMMA Prepared ==
    ASSUME Prepare, Accepted(stat_nodes),
           NEW freed, freed = AddFreeNodes(stat_nodes, FALSE)
    PROVE  /\ is_terminal' = TerminalConds(freed) /\ stat_nodes' = ExitPruned(ReturnPruned(freed))
           /\ pass' = "emit" /\ frames' = <<Visit(Root)>>
           /\ UNCHANGED <<open, used, count, returns_value, ops, created, point, nested, last, execVars>>
  BY DEF Prepare

\* The passes before code generation, and the first frame.
LEMMA PrepareStartsWalk ==
    ASSUME Text = "separate", EmitInv, Prepare
    PROVE  EmitInv'
  <1>1. /\ pass = "build" /\ BuilderTypeOK /\ BuildInv /\ TextRule(stat_nodes) /\ Fresh
    BY DEF Prepare, EmitInv
  <1>2. CASE ~Accepted(stat_nodes)
    <2>1. pass' = "rejected"
      BY <1>2 DEF Prepare
    <2>. QED BY <2>1 DEF EmitInv
  <1>3. CASE Accepted(stat_nodes)
    <2>1. PICK raw \in Tree : raw = stat_nodes
      BY <1>1 DEF BuilderTypeOK
    <2>2. PICK one : one = One
      OBVIOUS
    <2>3. PICK released : released = AddFreeNodes(raw, FALSE)
      OBVIOUS
    <2>4. PICK tree : tree = ExitPruned(ReturnPruned(released))
      OBVIOUS
    <2>5. ParentsFirst(raw) /\ NoFrees(raw)
      BY <1>1, <2>1 DEF BuildInv, Shape
    <2>6. NoNestedExits(raw) /\ OneOperationsApart(raw)
      BY <1>1, <2>1 DEF TextRule
    <2>7. one \cap (ExitKind \cup {"free"}) = {}
      BY <2>2 DEF One, ExitKind
    <2>8. Apart(raw, one)
      <3>1. \A s : OneOperation(s) <=> s.kind \in one
        BY <2>2 DEF OneOperation, One
      <3>. QED BY <2>6, <3>1 DEF Apart, OneOperationsApart
    <2>9. PICK terminal : terminal = TerminalConds(released)
      OBVIOUS
    <2>10. tree \in Tree /\ \E R, Y \in SUBSET Block : TreeFacts(tree, terminal, one, R, Y)
      <3>1. tree \in Tree
            /\ \E R, Y \in SUBSET Block : TreeFacts(tree, TerminalConds(released), one, R, Y)
        BY <1>3, <2>1, <2>3, <2>4, <2>5, <2>6, <2>7, <2>8, PassesLeaveTheFacts
      <3>. QED BY <2>9, <3>1
    <2>11. PICK R \in SUBSET Block, Y \in SUBSET Block : TreeFacts(tree, terminal, one, R, Y)
      BY <2>10
    <2>12. /\ pass' = "emit" /\ stat_nodes' = tree /\ is_terminal' = terminal /\ One' = one
           /\ frames' = <<Visit(Root)>> /\ ops' = ops /\ created' = created /\ point' = point
           /\ nested' = nested /\ last' = last
      <3>1. released = AddFreeNodes(stat_nodes, FALSE)
        BY ONLY <2>1, <2>3
      <3>2. /\ is_terminal' = TerminalConds(released)
            /\ stat_nodes' = ExitPruned(ReturnPruned(released))
            /\ pass' = "emit" /\ frames' = <<Visit(Root)>>
            /\ UNCHANGED <<returns_value, ops, created, point, nested, last>>
        BY <1>3, <3>1, Prepared
      <3>. QED BY ONLY <2>2, <2>4, <2>9, <3>2 DEF One
    <2>13. PICK fs : fs = frames'
      OBVIOUS
    <2>14. PICK table : table = ops
      OBVIOUS
    <2>15. PICK p : p = point
      OBVIOUS
    <2>16. PICK c : c = created
      OBVIOUS
    <2>17. PICK ne : ne = nested
      OBVIOUS
    <2>18. PICK l : l = last
      OBVIOUS
    <2>19. WalkOK(tree, terminal, one, R, Y, fs, table, c, p, ne, l)
      <3>1. /\ fs = <<Visit(Root)>> /\ table = [b \in 1..1 |-> <<>>]
            /\ p = [block |-> 1, behind |-> 0] /\ tree \in Tree
            /\ c = 1 /\ ne = <<>> /\ l = Null
        BY <1>1, <2>10, <2>12, <2>13, <2>14, <2>15, <2>16, <2>17, <2>18 DEF Fresh
      <3>. QED BY ONLY <2>11, <3>1, EmissionStarts, Y \in SUBSET Block
    <2>20. Walking(R, Y)'
      BY ONLY <2>12, <2>13, <2>14, <2>15, <2>16, <2>17, <2>18, <2>19 DEF Walking
    <2>. QED BY <2>12, <2>20 DEF EmitInv
  <1>. QED BY <1>2, <1>3

\* The walk.
LEMMA EmitKeepsEmitInv ==
    ASSUME EmitInv, Emit
    PROVE  EmitInv'
  <1>1. pass = "emit"
    BY DEF Emit, EmitLeaf, EmitBlock, EmitLoopStart, EmitLoopEnd, EmitCondStart, EmitCondElse,
           EmitCondEnd, LeaveBlock, AtStat
  <1>2. PICK R \in SUBSET Block, Y \in SUBSET Block : Walking(R, Y)
    BY <1>1 DEF EmitInv
  <1>3. ASSUME Walking(R, Y)', pass' = pass PROVE EmitInv'
    BY <1>1, <1>3 DEF EmitInv
  <1>4. CASE EmitLeaf
    BY <1>2, <1>3, <1>4, LeafWalks DEF EmitLeaf, EmitUnchanged
  <1>5. CASE EmitBlock
    BY <1>2, <1>3, <1>5, BlockWalks DEF EmitBlock, EmitUnchanged
  <1>6. CASE EmitLoopStart
    BY <1>2, <1>3, <1>6, LoopStartWalks DEF EmitLoopStart, EmitUnchanged
  <1>7. CASE EmitLoopEnd
    BY <1>2, <1>3, <1>7, LoopEndWalks DEF EmitLoopEnd, EmitUnchanged
  <1>8. CASE EmitCondStart
    BY <1>2, <1>3, <1>8, CondStartWalks DEF EmitCondStart, EmitUnchanged
  <1>9. CASE EmitCondElse
    BY <1>2, <1>3, <1>9, CondElseWalks DEF EmitCondElse, EmitUnchanged
  <1>10. CASE EmitCondEnd
    BY <1>2, <1>3, <1>10, CondEndWalks DEF EmitCondEnd, EmitUnchanged
  <1>11. CASE LeaveBlock
    <2>1. CASE Len(frames) # 1
      BY <1>2, <1>3, <1>11, <2>1, LeaveWalks DEF LeaveBlock
    <2>2. CASE Len(frames) = 1
      <3>1. Verified
        BY <1>2, <1>11, <2>2, LeaveEnds
      <3>2. pass' = "run" /\ ops' = ops /\ created' = created
        BY <1>11, <2>2 DEF LeaveBlock
      <3>3. Verified'
        BY ONLY <3>1, <3>2 DEF Verified, WellFormed
      <3>. QED BY <3>2, <3>3 DEF EmitInv
    <2>. QED BY <2>1, <2>2
  <1>. QED BY <1>4, <1>5, <1>6, <1>7, <1>8, <1>9, <1>10, <1>11 DEF Emit

\* The steps that emit nothing.
LEMMA OthersKeepEmitInv ==
    ASSUME EmitInv, UNCHANGED <<builderVars, pass, is_terminal, emitVars>>
    PROVE  EmitInv'
  <1>1. /\ stat_nodes' = stat_nodes /\ open' = open /\ used' = used /\ count' = count
        /\ returns_value' = returns_value /\ pass' = pass /\ is_terminal' = is_terminal
        /\ frames' = frames /\ ops' = ops /\ created' = created /\ point' = point
        /\ nested' = nested /\ last' = last
    BY DEF builderVars, emitVars
  <1>2. pass = "build" => BuilderTypeOK' /\ BuildInv' /\ TextRule(stat_nodes)' /\ Fresh'
    BY <1>1 DEF EmitInv, BuilderTypeOK, BuildInv, TextRule, OneOperationsApart, OneOperation, Fresh
  <1>3. pass = "emit" => \E R, Y \in SUBSET Block : Walking(R, Y)'
    <2>1. ASSUME NEW R, NEW Y, Walking(R, Y) PROVE Walking(R, Y)'
      <3>1. One' = One
        BY <1>1 DEF One
      <3>. QED BY ONLY <1>1, <2>1, <3>1 DEF Walking
    <2>. QED BY <2>1 DEF EmitInv
  <1>4. pass = "run" => Verified'
    BY <1>1 DEF EmitInv, Verified, WellFormed
  <1>. QED BY <1>1, <1>2, <1>3, <1>4 DEF EmitInv

\* Every step.
LEMMA NextKeepsEmitInv ==
    ASSUME Text = "separate", EmitInv, [Next]_vars
    PROVE  EmitInv'
  <1>1. CASE Building
    BY <1>1, BuildingKeepsEmitInv
  <1>2. CASE Prepare
    BY <1>2, PrepareStartsWalk
  <1>3. CASE Emit
    BY <1>3, EmitKeepsEmitInv
  <1>4. CASE Execute
    <2>1. UNCHANGED <<builderVars, pass, is_terminal, emitVars>>
      BY <1>4 DEF Execute, ExecuteOp, ExecuteBranch, ExecuteReturn, ExecUnchanged
    <2>. QED BY <2>1, OthersKeepEmitInv
  <1>5. CASE UNCHANGED vars
    <2>1. UNCHANGED <<builderVars, pass, is_terminal, emitVars>>
      BY <1>5 DEF vars
    <2>. QED BY <2>1, OthersKeepEmitInv
  <1>6. CASE Done
    BY <1>5, <1>6 DEF Done
  <1>. QED BY <1>1, <1>2, <1>3, <1>4, <1>5, <1>6 DEF Next

(***************************************************************************)
(* Whatever the statements of the text, as long as no exit is in a block   *)
(* nested in a loop and the statements that emit one operation are apart,  *)
(* the blocks CodeGenASTWalker emits pass the verifier: each ends in its   *)
(* only terminator.  This holds for every bound on blocks and statements,  *)
(* whether or not there is anything to release.                            *)
(***************************************************************************)
THEOREM BlocksEndWell ==
    ASSUME Text = "separate"
    PROVE  Spec => []BlocksEndInOneTerminator
  <1>1. Init => EmitInv
    BY EmitInvInit
  <1>2. EmitInv /\ [Next]_vars => EmitInv'
    BY NextKeepsEmitInv
  <1>3. EmitInv => BlocksEndInOneTerminator
    BY DEF EmitInv, BlocksEndInOneTerminator
  <1>. QED BY <1>1, <1>2, <1>3, PTL DEF Spec

-----------------------------------------------------------------------------
(* nested_blocks_stack: lv[k] are the loops around what its first k        *)
(* entries are around.                                                     *)

\* Inside a loop, its entry is the last one that has a back block.
LEMMA InnermostFits ==
    ASSUME NEW tree, NEW env, NEW lv, NestFits(tree, env, nested, lv), lv[Len(nested)] # {}
    PROVE  LET e == InnermostLoop
           IN /\ lv[Len(nested)] = Turn(tree, e.loop)
              /\ e.cont \in Goes(env, LoopsAround(tree, e.loop))
              /\ e.back \in Goes(env, LoopsAround(tree, e.loop))
              /\ \E k \in 1..Len(nested) : e = nested[k] /\ e.back # Null
  <1>1. IsSeq(nested) /\ Len(nested) \in Nat
    BY SeqProps DEF NestFits
  <1>2. PICK m \in Nat : m = Len(nested)
    BY <1>1
  <1>3. PICK L : L = {k \in 1..m : nested[k].back # Null}
    OBVIOUS
  <1>4. LoopEntries = L
    <2>1. DOMAIN nested = 1..m
      BY <1>1, <1>2 DEF IsSeq
    <2>. QED BY ONLY <1>3, <2>1 DEF LoopEntries
  <1>5. L # {}
    <2>1. SUFFICES ASSUME L = {} PROVE FALSE
      OBVIOUS
    <2>2. 0 \in 0..m /\ m \in 0..m /\ 0 <= m /\ \A i \in (0 + 1)..m : i \in 1..m
      BY <1>2
    <2>3. \A i \in (0 + 1)..m : nested[i].back = Null
      BY ONLY <1>3, <2>1, <2>2
    <2>4. lv[m] = lv[0] /\ lv[0] = {}
      BY ONLY <1>2, <2>2, <2>3, NestFits(tree, env, nested, lv) DEF NestFits
    <2>. QED BY ONLY <1>2, <2>4, lv[Len(nested)] # {}
  <1>6. \E k \in L : \A j \in L : j <= k
    <2>1. PICK D : D = {m - k : k \in L}
      OBVIOUS
    <2>2. D \in SUBSET Nat /\ D # {}
      BY ONLY <1>2, <1>3, <1>5, <2>1
    <2>3. PICK d \in D : \A x \in D : d <= x
      BY ONLY <2>2, LeastNumber, Zenon
    <2>4. PICK k \in L : d = m - k
      BY <2>1
    <2>5. ASSUME NEW j \in L PROVE j <= k
      <3>1. m - k <= m - j
        BY <2>1, <2>3, <2>4
      <3>2. j \in 1..m /\ k \in 1..m
        BY <1>3
      <3>. QED BY ONLY <3>1, <3>2, m \in Nat
    <2>. QED BY <2>5
  <1>7. PICK k : k = CHOOSE x \in L : \A j \in L : j <= x
    OBVIOUS
  <1>8. k \in L /\ \A j \in L : j <= k
    BY ONLY <1>6, <1>7
  <1>9. PICK e : e = nested[k]
    OBVIOUS
  <1>10. InnermostLoop = e
    BY ONLY <1>4, <1>7, <1>9 DEF InnermostLoop
  <1>11. k \in 1..m /\ e.back # Null
    BY ONLY <1>3, <1>8, <1>9
  <1>12. EntryFits(tree, env, lv, k, e)
    BY ONLY <1>2, <1>9, <1>11, NestFits(tree, env, nested, lv) DEF NestFits
  <1>13. lv[m] = lv[k]
    <2>1. k \in 0..m /\ m \in 0..m /\ k <= m /\ \A i \in (k + 1)..m : i \in 1..m /\ ~(i <= k)
      BY <1>2, <1>11
    <2>2. \A i \in (k + 1)..m : nested[i].back = Null
      BY ONLY <1>3, <1>8, <2>1
    <2>. QED BY ONLY <1>2, <2>1, <2>2, NestFits(tree, env, nested, lv) DEF NestFits
  <1>14. /\ lv[m] = Turn(tree, e.loop)
         /\ e.cont \in Goes(env, LoopsAround(tree, e.loop))
         /\ e.back \in Goes(env, LoopsAround(tree, e.loop))
    BY ONLY <1>11, <1>12, <1>13 DEF EntryFits
  <1>15. \E x \in 1..m : e = nested[x] /\ e.back # Null
    BY ONLY <1>9, <1>11
  <1>. QED BY ONLY <1>2, <1>10, <1>14, <1>15

-----------------------------------------------------------------------------
(* What the statements emit fits where they stand.                         *)

\* What a statement without a block emits fits.
LEMMA LeafFits ==
    ASSUME NEW tree, NEW env, NEW lv, NestFits(tree, env, nested, lv),
           NEW S, S = lv[Len(nested)], NEW s, s.kind \in LeafKind, IsExit(s) => S # {},
           NEW p, S = LoopsHolding(tree, p[1]), NEW new, new = LeafOps(s, p)
    PROVE  Insertable(tree, env, S, new)
  <1>1. CASE s.kind \in {"decl", "plain", "free"}
    <2>1. new = <<>> \/ new = <<OpOf(p)>>
      BY <1>1 DEF LeafOps
    <2>2. PICK op : op = OpOf(p)
      OBVIOUS
    <2>3. op.kind = "op" /\ op.to = {} /\ StatFits(tree, S, op)
      BY <2>2, OpFields DEF StatFits
    <2>4. SeqFits(tree, env, S, <<>>) /\ SeqFits(tree, env, S, <<op>>)
      BY <2>3, FittingTuples
    <2>5. ~StartsWith(<<>>, "save") /\ ~StartsWith(<<op>>, "save")
      BY <2>3, Starts
    <2>. QED BY ONLY <2>1, <2>2, <2>4, <2>5 DEF Insertable
  <1>2. CASE s.kind = "return"
    <2>1. PICK op : op = Return(p)
      OBVIOUS
    <2>2. new = <<Plain, op>> \/ new = <<op>>
      BY <1>2, <2>1 DEF LeafOps
    <2>3. op.kind = "return" /\ op.to = {} /\ Plain.kind = "op" /\ StatFits(tree, S, op)
      BY <2>1, OpFields DEF StatFits
    <2>4. SeqFits(tree, env, S, <<op>>) /\ SeqFits(tree, env, S, <<Plain, op>>)
      BY <2>3, FittingTuples
    <2>5. ~StartsWith(<<op>>, "save") /\ ~StartsWith(<<Plain, op>>, "save")
      BY <2>3, Starts
    <2>. QED BY ONLY <2>2, <2>4, <2>5 DEF Insertable
  <1>3. CASE s.kind \in ExitKind
    <2>1. PICK e : e = InnermostLoop
      OBVIOUS
    <2>2. /\ S = Turn(tree, e.loop)
          /\ e.cont \in Goes(env, LoopsAround(tree, e.loop))
          /\ e.back \in Goes(env, LoopsAround(tree, e.loop))
      <3>1. lv[Len(nested)] # {}
        BY <1>3 DEF IsExit
      <3>. QED BY <2>1, <3>1, InnermostFits
    <2>3. PICK x : x = [Restore(e.loop) EXCEPT !.stat = p]
      OBVIOUS
    <2>4. PICK b : /\ b = (IF s.kind = "break" THEN e.cont ELSE e.back)
                   /\ new = <<x, Br({b})>>
      BY <1>3, <2>1, <2>3 DEF LeafOps, ExitKind
    <2>5. PICK y : y = Br({b})
      OBVIOUS
    <2>6. /\ x.kind = "restore" /\ x.to = {} /\ x.loop = e.loop
          /\ y.kind = "br" /\ y.to = {b} /\ y.stat = NoStat /\ StatFits(tree, S, x)
      BY <2>3, <2>5, OpFields DEF StatFits
    <2>7. y.to \subseteq Goes(env, LoopsAround(tree, x.loop)) /\ S = Turn(tree, x.loop)
      BY ONLY <2>2, <2>4, <2>6
    <2>8. SeqFits(tree, env, S, <<x, y>>)
      BY <2>6, <2>7, FittingExit
    <2>9. ~StartsWith(<<x, y>>, "save")
      BY <2>6, Starts
    <2>. QED BY ONLY <2>4, <2>5, <2>8, <2>9 DEF Insertable
  <1>4. s.kind \in {"decl", "plain", "free"} \/ s.kind = "return" \/ s.kind \in ExitKind
    BY DEF LeafKind
  <1>. QED BY <1>1, <1>2, <1>3, <1>4

-----------------------------------------------------------------------------
(* The frames and nested_blocks_stack: dp[k] is the number of entries when *)
(* the block of frame k was entered.                                       *)

\* The frames stay linked to nested_blocks_stack when a block is entered.
LEMMA LinkIn ==
    ASSUME NEW tree, NEW E, NEW Z, NEW env, NEW lv, NEW fs, NEW ne, NEW dp,
           Linked(tree, E, Z, env, lv, fs, ne, dp), Len(ne) \in Nat, NEW n, n = Len(fs),
           NEW y \in Block, y \in Z, E[y] = lv[Len(ne)],
           NEW new, new = Append(fs, Visit(y)), NEW dp2, dp2 = Deeper(dp, n, Len(ne))
    PROVE  Linked(tree, E, Z, env, lv, new, ne, dp2)
  <1>1. fs \in Seq(CFrame) /\ n > 0 /\ n \in Nat
    BY DEF Linked
  <1>2. PICK v : v = Visit(y)
    OBVIOUS
  <1>3. v \in CFrame /\ v.block = y /\ v.visiting = 0
    BY <1>2, VisitProps
  <1>4. /\ new \in Seq(CFrame) /\ Len(new) = n + 1
        /\ \A i \in 1..n : new[i] = fs[i]
        /\ new[n + 1] = v
    BY <1>1, <1>2, <1>3
  <1>5. PICK d \in Nat : d = Len(ne)
    OBVIOUS
  <1>6. dp2[n + 1] = d /\ \A k \in 1..n : dp2[k] = dp[k]
    <2>1. n + 1 \in 1..(n + 1) /\ \A k \in 1..n : k \in 1..(n + 1) /\ k # n + 1
      BY <1>1
    <2>. QED BY ONLY <1>5, <2>1, dp2 = Deeper(dp, n, Len(ne)) DEF Deeper
  <1>7. /\ \A k \in 1..n : FrameFits(tree, E, Z, env, lv, ne, dp[k], fs[k])
        /\ \A j, k \in 1..n : j < k => dp[j] + Steps(tree, fs[j]) <= dp[k]
        /\ \A k \in 1..n : k > 1 => dp[k] = dp[k - 1] + Steps(tree, fs[k - 1])
        /\ d = dp[n] + Steps(tree, fs[n])
    BY ONLY Linked(tree, E, Z, env, lv, fs, ne, dp), n = Len(fs), <1>5 DEF Linked
  <1>8. ~Owns(tree, v) /\ Steps(tree, v) = 0
    BY <1>3 DEF Owns, Steps
  <1>9. FrameFits(tree, E, Z, env, lv, ne, d, v)
    BY ONLY <1>3, <1>5, <1>8, y \in Z, E[y] = lv[Len(ne)] DEF FrameFits
  <1>10. \A k \in 1..(n + 1) : k = n + 1 \/ k \in 1..n
    BY <1>1
  <1>11. \A k \in 1..(n + 1) : FrameFits(tree, E, Z, env, lv, ne, dp2[k], new[k])
    BY ONLY <1>4, <1>6, <1>7, <1>9, <1>10
  <1>12. \A j \in 1..n : dp[j] + Steps(tree, fs[j]) <= d
    <2>1. SUFFICES ASSUME NEW j \in 1..n PROVE dp[j] + Steps(tree, fs[j]) <= d
      OBVIOUS
    <2>2. n \in 1..n
      BY <1>1
    <2>3. dp[j] \in Nat /\ dp[n] \in Nat
      BY ONLY <1>7, <2>2, j \in 1..n DEF FrameFits
    <2>4. Steps(tree, fs[j]) \in 0..1 /\ Steps(tree, fs[n]) \in 0..1
      BY DEF Steps
    <2>5. CASE j = n
      BY ONLY <1>7, <2>3, <2>4, <2>5
    <2>6. CASE j # n
      <3>1. j < n
        BY <1>1, <2>6
      <3>2. dp[j] + Steps(tree, fs[j]) <= dp[n]
        BY ONLY <1>7, <2>2, <3>1, j \in 1..n
      <3>. QED BY ONLY <1>7, <2>3, <2>4, <3>2
    <2>. QED BY <2>5, <2>6
  <1>13. ASSUME NEW j \in 1..(n + 1), NEW k \in 1..(n + 1), j < k
         PROVE  dp2[j] + Steps(tree, new[j]) <= dp2[k]
    <2>1. j \in 1..n
      BY <1>1, <1>13
    <2>2. dp2[j] = dp[j] /\ new[j] = fs[j]
      BY ONLY <1>4, <1>6, <2>1
    <2>3. CASE k = n + 1
      BY ONLY <1>6, <1>12, <2>1, <2>2, <2>3
    <2>4. CASE k \in 1..n
      BY ONLY <1>6, <1>7, <1>13, <2>1, <2>2, <2>4
    <2>. QED BY <1>10, <2>3, <2>4
  <1>14. ASSUME NEW k \in 1..(n + 1), k > 1
         PROVE  dp2[k] = dp2[k - 1] + Steps(tree, new[k - 1])
    <2>1. k - 1 \in 1..n
      BY <1>1, <1>14
    <2>2. dp2[k - 1] = dp[k - 1] /\ new[k - 1] = fs[k - 1]
      BY ONLY <1>4, <1>6, <2>1
    <2>3. CASE k = n + 1
      <3>1. k - 1 = n
        BY <1>1, <2>3
      <3>. QED BY ONLY <1>6, <1>7, <2>2, <2>3, <3>1
    <2>4. CASE k \in 1..n
      BY ONLY <1>6, <1>7, <1>14, <2>2, <2>4
    <2>. QED BY <1>10, <2>3, <2>4
  <1>15. Len(ne) = dp2[n + 1] + Steps(tree, new[n + 1])
    BY ONLY <1>4, <1>5, <1>6, <1>8
  <1>16. n + 1 > 0
    BY <1>1
  <1>. QED BY ONLY <1>4, <1>11, <1>13, <1>14, <1>15, <1>16 DEF Linked

\* The next statement; what it was inside, it has left.
LEMMA NextLinks ==
    ASSUME NEW tree, NEW E, NEW Z, NEW env, NEW lv, NEW fs, NEW ne, NEW dp,
           Linked(tree, E, Z, env, lv, fs, ne, dp), NEW n, n = Len(fs), NEW f, f = Top(fs),
           NEW ne2, Len(ne2) = dp[n], SameBelow(lv, ne, lv, ne2, dp[n]),
           NEW new, new = SetTop(fs, [Visit(f.block) EXCEPT !.pc = f.pc + 1])
    PROVE  Linked(tree, E, Z, env, lv, new, ne2, dp)
  <1>1. /\ fs \in Seq(CFrame) /\ n > 0 /\ n \in Nat
        /\ \A k \in 1..n : FrameFits(tree, E, Z, env, lv, ne, dp[k], fs[k])
    BY DEF Linked
  <1>2. n \in 1..n /\ f = fs[n] /\ f \in CFrame
    <2>1. n \in 1..n
      BY <1>1
    <2>2. f = fs[n]
      BY DEF Top
    <2>. QED BY <1>1, <2>1, <2>2
  <1>3. PICK g : g = [Visit(f.block) EXCEPT !.pc = f.pc + 1]
    OBVIOUS
  <1>4. g \in CFrame /\ g.block = f.block /\ g.visiting = 0
    BY <1>2, <1>3 DEF Visit, CFrame, Null
  <1>5. ~Owns(tree, g) /\ Steps(tree, g) = 0
    BY <1>4 DEF Owns, Steps
  <1>6. dp[n] \in Nat /\ f.block \in Z /\ lv[dp[n]] = E[f.block]
    BY <1>1, <1>2 DEF FrameFits
  <1>7. FrameFits(tree, E, Z, env, lv, ne2, dp[n], g)
    BY ONLY <1>4, <1>5, <1>6 DEF FrameFits
  <1>8. Len(ne2) = dp[n] + Steps(tree, g)
    BY <1>5, <1>6
  <1>9. Grows(env, env)
    BY DEF Grows
  <1>10. new = SetTop(fs, g)
    BY <1>3
  <1>. QED BY ONLY <1>4, <1>7, <1>8, <1>9, <1>10, LinkStep, n = Len(fs),
                   Linked(tree, E, Z, env, lv, fs, ne, dp), SameBelow(lv, ne, lv, ne2, dp[n])

\* A block of the statement is entered; g is the frame afterwards.
LEMMA EnterLinks ==
    ASSUME NEW tree, NEW E, NEW Z, NEW env, NEW lv, NEW fs, NEW ne, NEW dp,
           Linked(tree, E, Z, env, lv, fs, ne, dp), NEW n, n = Len(fs),
           NEW env2, Grows(env, env2), NEW lv2, NEW ne2, SameBelow(lv, ne, lv2, ne2, dp[n]),
           NEW g \in CFrame, FrameFits(tree, E, Z, env2, lv2, ne2, dp[n], g),
           Len(ne2) = dp[n] + Steps(tree, g), Len(ne2) \in Nat,
           NEW y \in Block, y \in Z, E[y] = lv2[Len(ne2)],
           NEW new, new = Append(SetTop(fs, g), Visit(y))
    PROVE  Linked(tree, E, Z, env2, lv2, new, ne2, Deeper(dp, n, Len(ne2)))
  <1>1. PICK moved : moved = SetTop(fs, g)
    OBVIOUS
  <1>2. Linked(tree, E, Z, env2, lv2, moved, ne2, dp)
    BY ONLY <1>1, LinkStep, Linked(tree, E, Z, env, lv, fs, ne, dp), n = Len(fs),
            Grows(env, env2), SameBelow(lv, ne, lv2, ne2, dp[n]), g \in CFrame,
            FrameFits(tree, E, Z, env2, lv2, ne2, dp[n], g), Len(ne2) = dp[n] + Steps(tree, g)
  <1>3. Len(moved) = n
    <2>1. fs \in Seq(CFrame) /\ Len(fs) > 0
      BY DEF Linked
    <2>2. fs # <<>>
      BY ONLY <2>1, LenProps
    <2>3. Len(SetTop(fs, g)) = Len(fs)
      BY ONLY <2>1, <2>2, SetTopProps, g \in CFrame
    <2>. QED BY <1>1, <2>3
  <1>4. PICK dp2 : dp2 = Deeper(dp, n, Len(ne2))
    OBVIOUS
  <1>5. new = Append(moved, Visit(y))
    BY <1>1
  <1>6. Linked(tree, E, Z, env2, lv2, new, ne2, dp2)
    BY ONLY <1>2, <1>3, <1>4, <1>5, LinkIn, Len(ne2) \in Nat, y \in Block, y \in Z,
            E[y] = lv2[Len(ne2)]
  <1>. QED BY <1>4, <1>6

-----------------------------------------------------------------------------
(* The inductive invariant: the labels fit everything the walk has.        *)

Fitting(E, Z, env, mid, lv, dp) ==
    Fits(stat_nodes, E, Z, env, mid, lv, dp, frames, ops, created, point, nested)

Fitted == \E E, Z, env, mid, lv, dp : Fitting(E, Z, env, mid, lv, dp)

\* Where the walk is: d entries are around the block, m there are.
Level(E, Z, env, lv, d, m, f) ==
    /\ d \in Nat /\ m \in Nat /\ m = Len(nested) /\ f.block \in Z /\ lv[d] = E[f.block]
    /\ m = d + Steps(stat_nodes, f)
    /\ Owns(stat_nodes, f) => /\ m > 0 /\ d = m - 1 /\ d + 1 = m
                              /\ EntryOf(stat_nodes, env, lv[d], nested[m], f)
    /\ ~Owns(stat_nodes, f) => d = m
    /\ InRange(stat_nodes, f) => LoopFactsAt(stat_nodes, E, Z, f.block, f.pc)

\* The last level is the loops around the statement the walk is at.
LEMMA Levels ==
    ASSUME NEW R, NEW Y \in SUBSET Block, Walking(R, Y),
           NEW E, NEW Z, NEW env, NEW mid, NEW lv, NEW dp, Fitting(E, Z, env, mid, lv, dp)
    PROVE  Level(E, Z, env, lv, dp[Len(frames)], Len(nested), F)
  <1>1. PICK f : f = F
    OBVIOUS
  <1>2. PICK n : n = Len(frames)
    OBVIOUS
  <1>3. Place(R, Y, f, n)
    BY <1>1, <1>2, Position
  <1>4. n \in 1..n /\ f = frames[n]
    BY ONLY <1>3 DEF Place
  <1>5. PICK tree : tree = stat_nodes
    OBVIOUS
  <1>6. PICK ne : ne = nested
    OBVIOUS
  <1>7. /\ LoopFacts(tree, E, Z) /\ NestFits(tree, env, ne, lv)
        /\ Linked(tree, E, Z, env, lv, frames, ne, dp)
    BY <1>5, <1>6 DEF Fitting, Fits
  <1>8. PICK d : d = dp[n]
    OBVIOUS
  <1>9. FrameFits(tree, E, Z, env, lv, ne, d, f) /\ Len(ne) = d + Steps(tree, f)
    BY ONLY <1>2, <1>4, <1>7, <1>8 DEF Linked
  <1>10. Len(ne) \in Nat
    BY ONLY <1>7, SeqProps DEF NestFits
  <1>11. PICK m \in Nat : m = Len(ne)
    BY <1>10
  <1>12. d \in Nat /\ f.block \in Z /\ lv[d] = E[f.block]
         /\ (Owns(tree, f) => EntryOf(tree, env, lv[d], ne[d + 1], f))
    BY ONLY <1>9 DEF FrameFits
  <1>13. Owns(tree, f) => m > 0 /\ d = m - 1 /\ d + 1 = m
    BY ONLY <1>9, <1>11, <1>12 DEF Steps
  <1>14. ~Owns(tree, f) => d = m
    BY ONLY <1>9, <1>11, <1>12 DEF Steps
  <1>15. ASSUME InRange(tree, f) PROVE LoopFactsAt(tree, E, Z, f.block, f.pc)
    <2>1. f.pc \in DOMAIN tree[f.block]
      BY ONLY <1>3, <1>5, <1>15 DEF Place, FactsAt
    <2>. QED BY ONLY <1>7, <1>12, <2>1 DEF LoopFacts, LoopFactsAt
  <1>16. Owns(tree, f) => EntryOf(tree, env, lv[d], ne[m], f)
    BY ONLY <1>12, <1>13
  <1>17. Level(E, Z, env, lv, d, m, f)
    BY ONLY <1>5, <1>6, <1>9, <1>11, <1>12, <1>13, <1>14, <1>15, <1>16 DEF Level
  <1>. QED BY ONLY <1>1, <1>2, <1>6, <1>8, <1>11, <1>17

-----------------------------------------------------------------------------
(* The steps of the walk keep it.                                          *)

\* The walk emits at the insertion point.
LEMMA PointFits ==
    ASSUME NEW E, NEW Z, NEW env, NEW mid, NEW lv, NEW dp, Fitting(E, Z, env, mid, lv, dp),
           NEW new, Insertable(stat_nodes, env, lv[Len(nested)], new),
           NEW table2, table2 = Insert(ops, point, new)
    PROVE  /\ TableFits(stat_nodes, env, mid, table2, created)
           /\ Inserts(table2[point.block], point.behind)
  <1>1. PICK p, table, tree : p = point /\ table = ops /\ tree = stat_nodes
    OBVIOUS
  <1>2. /\ TableFits(tree, env, mid, table, created) /\ p.block \in 1..created
        /\ Inserts(table[p.block], p.behind) /\ mid[p.block] = lv[Len(nested)]
    BY <1>1 DEF Fitting, Fits
  <1>3. table2 = With(table, p.block, Put(table[p.block], p.behind, new))
    BY <1>1 DEF Insert, Put, With
  <1>4. Insertable(tree, env, mid[p.block], new)
    BY <1>1, <1>2
  <1>5. TableFits(tree, env, mid, table2, created) /\ Inserts(table2[p.block], p.behind)
    BY ONLY <1>2, <1>3, <1>4, TablePut
  <1>. QED BY ONLY <1>1, <1>5

\* The next statement, when nothing has been left.
LEMMA NextFits ==
    ASSUME NEW E, NEW Z, NEW env, NEW mid, NEW lv, NEW dp, Fitting(E, Z, env, mid, lv, dp),
           NEW d, d = dp[Len(frames)], Level(E, Z, env, lv, d, Len(nested), F),
           ~Owns(stat_nodes, F), NextStat
    PROVE  Linked(stat_nodes, E, Z, env, lv, frames', nested, dp)
  <1>1. PICK n, f, ne, fs : n = Len(frames) /\ f = F /\ ne = nested /\ fs = frames
    OBVIOUS
  <1>2. Linked(stat_nodes, E, Z, env, lv, fs, ne, dp)
    BY <1>1 DEF Fitting, Fits
  <1>3. Len(ne) = dp[n]
    BY <1>1 DEF Level
  <1>4. SameBelow(lv, ne, lv, ne, dp[n])
    BY DEF SameBelow
  <1>5. PICK new : new = frames'
    OBVIOUS
  <1>6. new = SetTop(fs, [Visit(f.block) EXCEPT !.pc = f.pc + 1]) /\ f = Top(fs) /\ n = Len(fs)
    BY <1>1, <1>5 DEF NextStat, F
  <1>7. Linked(stat_nodes, E, Z, env, lv, new, ne, dp)
    BY ONLY <1>2, <1>3, <1>4, <1>6, NextLinks
  <1>. QED BY ONLY <1>1, <1>5, <1>7

\* A statement without a block keeps what is emitted fitting.
LEMMA LeafKeepsFitting ==
    ASSUME NEW R, NEW Y \in SUBSET Block, Walking(R, Y), EmitLeaf,
           NEW E, NEW Z, NEW env, NEW mid, NEW lv, NEW dp, Fitting(E, Z, env, mid, lv, dp)
    PROVE  Fitting(E, Z, env, mid, lv, dp)'
  <1>1. PICK f, n, m, d : f = F /\ n = Len(frames) /\ m = Len(nested) /\ d = dp[n]
    OBVIOUS
  <1>2. PICK tree, s : tree = stat_nodes /\ s = Here
    OBVIOUS
  <1>3. Place(R, Y, f, n) /\ Level(E, Z, env, lv, d, m, f)
    BY <1>1, Position, Levels
  <1>4. InRange(tree, f) /\ s = StatAt(tree, f) /\ s = tree[f.block][f.pc] /\ s.kind \in LeafKind
    BY <1>1, <1>2 DEF EmitLeaf, AtStat, Here, StatAt
  <1>5. f.visiting = 0 /\ ~Owns(tree, f)
    BY ONLY <1>2, <1>3, <1>4 DEF Place, Inside, Owns
  <1>6. /\ d = m /\ lv[m] = E[f.block] /\ (IsExit(s) => E[f.block] # {})
        /\ E[f.block] = LoopsHolding(tree, f.block)
    BY ONLY <1>2, <1>3, <1>4, <1>5 DEF Level, LoopFactsAt
  <1>7. PICK new : new = LeafOps(s, Pos)
    OBVIOUS
  <1>8. Insertable(tree, env, lv[m], new)
    <2>1. NestFits(tree, env, nested, lv)
      BY <1>2 DEF Fitting, Fits
    <2>2. PICK S : S = lv[m]
      OBVIOUS
    <2>3. S = lv[Len(nested)] /\ (IsExit(s) => S # {})
      BY ONLY <1>1, <1>6, <2>2
    <2>4. PICK q : q = Pos /\ q[1] = f.block
      <3>1. Pos = <<f.block, f.pc>>
        BY ONLY <1>1 DEF Pos
      <3>. QED BY ONLY <3>1
    <2>5. new = LeafOps(s, q) /\ S = LoopsHolding(tree, q[1])
      BY <1>6, <1>7, <2>2, <2>4
    <2>6. Insertable(tree, env, S, new)
      BY ONLY <1>4, <2>1, <2>3, <2>5, LeafFits
    <2>. QED BY ONLY <2>2, <2>6
  <1>9. PICK table2 : table2 = Insert(ops, point, new)
    OBVIOUS
  <1>10. /\ TableFits(tree, env, mid, table2, created)
         /\ Inserts(table2[point.block], point.behind)
    BY ONLY <1>1, <1>2, <1>8, <1>9, PointFits, Fitting(E, Z, env, mid, lv, dp)
  <1>11. Linked(tree, E, Z, env, lv, frames', nested, dp)
    BY <1>1, <1>2, <1>3, <1>5, NextFits DEF EmitLeaf
  <1>12. /\ LoopFacts(tree, E, Z) /\ Labels(env, mid, created)
         /\ NestFits(tree, env, nested, lv)
         /\ point.block \in 1..created /\ mid[point.block] = lv[Len(nested)]
    BY <1>2 DEF Fitting, Fits
  <1>13. /\ stat_nodes' = tree /\ created' = created /\ point' = point /\ nested' = nested
         /\ ops' = table2
    BY <1>2, <1>7, <1>9 DEF EmitLeaf, EmitUnchanged, builderVars
  <1>. QED BY ONLY <1>10, <1>11, <1>12, <1>13 DEF Fitting, Fits

\* A block of the statement the walk is at, and the frame from then on.
LEMMA BlockEntered ==
    ASSUME NEW R, NEW Y \in SUBSET Block, Walking(R, Y), InRange(stat_nodes, F),
           NEW E, NEW Z, NEW env, NEW lv, NEW d, NEW m, Level(E, Z, env, lv, d, m, F),
           NEW s, s = StatAt(stat_nodes, F),
           NEW y, y \in SubBlocks(s)
    PROVE  /\ y \in Block /\ y \in Z
           /\ IsLoop(s) => E[y] = Turn(stat_nodes, y) /\ LoopsAround(stat_nodes, y) = lv[d]
           /\ ~IsLoop(s) => E[y] = lv[d]
  <1>1. Place(R, Y, F, Len(frames))
    BY Position
  <1>2. y \in Y \ {Root}
    BY <1>1 DEF Place, FactsAt, StatAt
  <1>3. LoopFactsAt(stat_nodes, E, Z, F.block, F.pc) /\ lv[d] = E[F.block]
    BY DEF Level
  <1>4. s = stat_nodes[F.block][F.pc]
    BY DEF StatAt
  <1>. QED BY ONLY <1>2, <1>3, <1>4, Y \in SUBSET Block, y \in SubBlocks(s) DEF LoopFactsAt

\* Entering a nested block keeps it fitting.
LEMMA BlockKeepsFitting ==
    ASSUME NEW R, NEW Y \in SUBSET Block, Walking(R, Y), EmitBlock,
           NEW E, NEW Z, NEW env, NEW mid, NEW lv, NEW dp, Fitting(E, Z, env, mid, lv, dp)
    PROVE  \E dp2 : Fitting(E, Z, env, mid, lv, dp2)'
  <1>1. PICK f, n, m, d : f = F /\ n = Len(frames) /\ m = Len(nested) /\ d = dp[n]
    OBVIOUS
  <1>2. PICK tree, s, ne, fs, new : tree = stat_nodes /\ s = Here /\ ne = nested /\ fs = frames
                                    /\ new = frames'
    OBVIOUS
  <1>3. Place(R, Y, f, n) /\ Level(E, Z, env, lv, d, m, f)
    BY <1>1, Position, Levels
  <1>4. InRange(tree, f) /\ s = StatAt(tree, f) /\ s.kind = "block"
    BY <1>1, <1>2 DEF EmitBlock, AtStat, Here
  <1>5. ~Owns(tree, f) /\ ~IsLoop(s) /\ s.kind \notin LeafKind
    BY ONLY <1>4 DEF Owns, IsLoop, LoopKind, LeafKind, ExitKind
  <1>6. d = m /\ m \in Nat /\ lv[m] = E[f.block] /\ f.block \in Z
    BY ONLY <1>2, <1>3, <1>5 DEF Level
  <1>7. /\ LoopFacts(tree, E, Z) /\ Labels(env, mid, created)
        /\ TableFits(tree, env, mid, ops, created)
        /\ NestFits(tree, env, ne, lv) /\ Linked(tree, E, Z, env, lv, fs, ne, dp)
        /\ point.block \in 1..created /\ Inserts(ops[point.block], point.behind)
        /\ mid[point.block] = lv[Len(ne)]
    BY <1>2 DEF Fitting, Fits
  <1>8. /\ stat_nodes' = tree /\ created' = created /\ point' = point /\ nested' = ne
        /\ ops' = ops
    BY <1>2 DEF EmitBlock, EmitUnchanged, builderVars
  <1>9. SUFFICES \E dp2 : Linked(tree, E, Z, env, lv, new, ne, dp2)
    BY ONLY <1>2, <1>7, <1>8, <1>9 DEF Fitting, Fits
  <1>10. CASE f.visiting = 0
    <2>1. PICK g : g = [f EXCEPT !.visiting = 1]
      OBVIOUS
    <2>2. g \in CFrame /\ g.block = f.block /\ g.pc = f.pc
      <3>1. f \in CFrame
        BY <1>3 DEF Place
      <3>. QED BY <2>1, <3>1 DEF CFrame
    <2>3. ~Owns(tree, g) /\ Steps(tree, g) = 0
      BY ONLY <1>4, <2>2 DEF Owns, StatAt, Steps
    <2>4. PICK y : y = s.body
      OBVIOUS
    <2>5. y \in Block /\ y \in Z /\ E[y] = lv[d]
      <3>1. s \in Stat
        BY ONLY <1>2, <1>3, <1>4 DEF Place, FactsAt, StatAt
      <3>2. y \in SubBlocks(s)
        BY ONLY <1>5, <2>4, <3>1, BodyIsSubBlock
      <3>. QED BY <1>1, <1>2, <1>3, <1>4, <1>5, <3>2, BlockEntered
    <2>6. new = Append(SetTop(fs, g), Visit(y))
      BY <1>1, <1>2, <1>10, <2>1, <2>4 DEF EmitBlock
    <2>7. FrameFits(tree, E, Z, env, lv, ne, d, g)
      BY ONLY <1>6, <2>2, <2>3 DEF FrameFits
    <2>8. Len(ne) = d + Steps(tree, g) /\ Len(ne) \in Nat /\ E[y] = lv[Len(ne)]
      BY ONLY <1>1, <1>2, <1>6, <2>3, <2>5
    <2>9. Grows(env, env) /\ SameBelow(lv, ne, lv, ne, d)
      BY DEF Grows, SameBelow
    <2>10. Linked(tree, E, Z, env, lv, new, ne, Deeper(dp, n, Len(ne)))
      <3>1. /\ SameBelow(lv, ne, lv, ne, dp[n]) /\ FrameFits(tree, E, Z, env, lv, ne, dp[n], g)
            /\ Len(ne) = dp[n] + Steps(tree, g) /\ n = Len(fs)
        BY ONLY <1>1, <1>2, <2>7, <2>8, <2>9
      <3>. QED BY ONLY <1>7, <2>2, <2>5, <2>6, <2>8, <2>9, <3>1, EnterLinks
    <2>. QED BY <2>10
  <1>11. CASE f.visiting # 0
    <2>1. NextStat
      BY <1>1, <1>11 DEF EmitBlock
    <2>2. Linked(tree, E, Z, env, lv, new, ne, dp)
      BY <1>1, <1>2, <1>3, <1>5, <2>1, NextFits
    <2>. QED BY <2>2
  <1>. QED BY <1>10, <1>11

\* Leaving a block keeps it fitting.
LEMMA LeaveKeepsFitting ==
    ASSUME NEW R, NEW Y \in SUBSET Block, Walking(R, Y), LeaveBlock, Len(frames) # 1,
           NEW E, NEW Z, NEW env, NEW mid, NEW lv, NEW dp, Fitting(E, Z, env, mid, lv, dp)
    PROVE  Fitting(E, Z, env, mid, lv, dp)'
  <1>1. PICK tree, ne, fs, new : tree = stat_nodes /\ ne = nested /\ fs = frames /\ new = frames'
    OBVIOUS
  <1>2. ~Owns(tree, Top(fs))
    <2>1. ~InRange(stat_nodes, F)
      BY DEF LeaveBlock
    <2>2. F.visiting = 0
      BY <2>1, Position DEF Place, Inside
    <2>. QED BY <1>1, <2>2 DEF Owns, F
  <1>3. new = Pop(fs) /\ Len(fs) # 1
    BY <1>1 DEF LeaveBlock
  <1>4. /\ LoopFacts(tree, E, Z) /\ Labels(env, mid, created)
        /\ TableFits(tree, env, mid, ops, created)
        /\ NestFits(tree, env, ne, lv) /\ Linked(tree, E, Z, env, lv, fs, ne, dp)
        /\ point.block \in 1..created /\ Inserts(ops[point.block], point.behind)
        /\ mid[point.block] = lv[Len(ne)]
    BY <1>1 DEF Fitting, Fits
  <1>5. Linked(tree, E, Z, env, lv, new, ne, dp)
    BY ONLY <1>2, <1>3, <1>4, LinkOut
  <1>6. /\ stat_nodes' = tree /\ created' = created /\ point' = point /\ nested' = ne
        /\ ops' = ops
    BY <1>1 DEF LeaveBlock, builderVars
  <1>. QED BY ONLY <1>1, <1>4, <1>5, <1>6 DEF Fitting, Fits

(***************************************************************************)
(* The start of a loop or a conditional: "begin" is emitted where it       *)
(* stands, e is its entry, S are the loops inside of it, g is the frame.   *)
(***************************************************************************)
Starting(E, env2, mid2, c2, lv, s, g, m, begin, table2, e, fs, ne, p2) ==
    /\ s = StatAt(stat_nodes, F) /\ s.kind \notin LeafKind
    /\ g \in CFrame /\ g.block = F.block /\ g.pc = F.pc /\ Owns(stat_nodes, g)
    /\ m = Len(nested) /\ Insertable(stat_nodes, env2, lv[m], begin)
    /\ BlocksMade(stat_nodes, env2, mid2, ops, created, point, begin, table2, c2)
    /\ EntryOf(stat_nodes, env2, lv[m], e, g) /\ LeadsTo(env2, lv[m], e)
    /\ fs = Append(SetTop(frames, g), Visit(s.body)) /\ ne = Append(nested, e)
    /\ p2.block \in 1..c2 /\ p2.behind = 0 /\ Inserts(table2[p2.block], 0)
    /\ mid2[p2.block] = E[s.body]

\* What begins a loop or a conditional keeps it fitting, given labels for the blocks it makes.
LEMMA StartFits ==
    ASSUME NEW R, NEW Y \in SUBSET Block, Walking(R, Y), InRange(stat_nodes, F), F.visiting = 0,
           NEW E, NEW Z, NEW env, NEW mid, NEW lv, NEW dp, Fitting(E, Z, env, mid, lv, dp),
           NEW c2, NEW env2, Extends(env, created, env2, c2), NEW mid2, Extends(mid, created, mid2, c2),
           NEW s, NEW g, NEW m, NEW begin, NEW table2, NEW e, NEW fs, NEW ne, NEW p2,
           Starting(E, env2, mid2, c2, lv, s, g, m, begin, table2, e, fs, ne, p2)
    PROVE  \E lv2, dp2 : Fits(stat_nodes, E, Z, env2, mid2, lv2, dp2, fs, table2, c2, p2, ne)
  <1>0. /\ s = StatAt(stat_nodes, F) /\ s.kind \notin LeafKind
        /\ g \in CFrame /\ g.block = F.block /\ g.pc = F.pc /\ Owns(stat_nodes, g)
        /\ m = Len(nested) /\ Insertable(stat_nodes, env2, lv[m], begin)
        /\ BlocksMade(stat_nodes, env2, mid2, ops, created, point, begin, table2, c2)
        /\ EntryOf(stat_nodes, env2, lv[m], e, g) /\ LeadsTo(env2, lv[m], e)
        /\ fs = Append(SetTop(frames, g), Visit(s.body)) /\ ne = Append(nested, e)
        /\ p2.block \in 1..c2 /\ p2.behind = 0 /\ Inserts(table2[p2.block], 0)
        /\ mid2[p2.block] = E[s.body]
    BY DEF Starting
  <1>. USE <1>0
  <1>1. PICK tree, f, n, d, c, p, old :
           /\ tree = stat_nodes /\ f = F /\ n = Len(frames) /\ d = dp[n] /\ c = created
           /\ p = point /\ old = nested
    OBVIOUS
  <1>2. PICK table : table = ops
    OBVIOUS
  <1>3. PICK stack : stack = frames
    OBVIOUS
  <1>4a. /\ DOMAIN table2 = 1..c2
         /\ table2[p.block] = Put(table[p.block], p.behind, begin)
         /\ \A b \in 1..c : b # p.block => table2[b] = table[b]
         /\ \A b \in (c + 1)..c2 : BlockFits(tree, env2, env2[b], mid2[b], table2[b])
         /\ e.cont \in Goes(env2, lv[m])
         /\ e.back # Null => e.back \in Goes(env2, lv[m])
    BY <1>1, <1>2 DEF BlocksMade, LeadsTo
  <1>4. /\ LoopFacts(tree, E, Z) /\ Labels(env, mid, c) /\ TableFits(tree, env, mid, table, c)
        /\ NestFits(tree, env, old, lv) /\ Linked(tree, E, Z, env, lv, stack, old, dp)
        /\ p.block \in 1..c /\ Inserts(table[p.block], p.behind) /\ mid[p.block] = lv[m]
    BY <1>1, <1>2, <1>3 DEF Fitting, Fits
  <1>5. Place(R, Y, f, n) /\ Level(E, Z, env, lv, d, m, f)
    BY <1>1, Position, Levels
  <1>6. ~Owns(tree, f) /\ d = m /\ m \in Nat /\ lv[m] = E[f.block] /\ f.block \in Z
    <2>1. ~Owns(tree, f)
      BY <1>1 DEF Owns
    <2>. QED BY ONLY <1>1, <1>5, <2>1 DEF Level
  <1>7. PICK y : y = s.body
    OBVIOUS
  <1>8. /\ y \in Block /\ y \in Z
        /\ IsLoop(s) => E[y] = Turn(tree, y) /\ LoopsAround(tree, y) = lv[d]
        /\ ~IsLoop(s) => E[y] = lv[d]
    <2>1. s \in Stat
      BY <1>1, <1>5 DEF Place, FactsAt, StatAt
    <2>2. y \in SubBlocks(s)
      BY ONLY <1>0, <1>7, <2>1, BodyIsSubBlock
    <2>. QED BY <1>1, <1>5, <2>2, BlockEntered
  \* The blocks.
  <1>9. PICK table1 : table1 = [b \in 1..c2 |-> IF b = p.block THEN table[p.block] ELSE table2[b]]
    OBVIOUS
  <1>10. c \in Nat /\ c2 \in Nat /\ c <= c2 /\ 1..c \subseteq 1..c2
    <2>1. c \in Nat /\ c2 \in Nat /\ c <= c2
      BY <1>1 DEF Extends
    <2>. QED BY <2>1
  <1>11. TableFits(tree, env2, mid2, table1, c2) /\ Grows(env, env2)
    <2>1. DOMAIN table1 = 1..c2 /\ \A b \in 1..c : table1[b] = table[b]
      BY <1>4a, <1>9, <1>10
    <2>2. \A b \in (c + 1)..c2 : b \in 1..c2 /\ b # p.block
      BY <1>4, <1>10
    <2>3. \A b \in (c + 1)..c2 : BlockFits(tree, env2, env2[b], mid2[b], table1[b])
      BY <1>4a, <1>9, <2>2
    <2>4. Extends(env, c, env2, c2) /\ Extends(mid, c, mid2, c2)
      BY <1>1
    <2>5. MoreBlocks(tree, env2, mid2, table, c, table1, c2)
      BY ONLY <2>1, <2>3 DEF MoreBlocks
    <2>. QED BY ONLY <1>4, <2>4, <2>5, TableGrows
  <1>12. TableFits(tree, env2, mid2, table2, c2)
    <2>1. PICK table3 : table3 = With(table1, p.block, Put(table1[p.block], p.behind, begin))
      OBVIOUS
    <2>2. p.block \in 1..c2 /\ Inserts(table1[p.block], p.behind)
      BY <1>4, <1>9, <1>10
    <2>3. Insertable(tree, env2, mid2[p.block], begin)
      <3>1. mid2[p.block] = mid[p.block]
        BY <1>1, <1>4 DEF Extends
      <3>. QED BY <1>1, <1>4, <3>1
    <2>4. TableFits(tree, env2, mid2, table3, c2)
      BY ONLY <1>11, <2>1, <2>2, <2>3, TablePut
    <2>5. \A b \in 1..c2 : table3[b] = table2[b]
      <3>1. DOMAIN table1 = 1..c2 /\ \A b \in 1..c2 : b # p.block => table1[b] = table2[b]
        BY <1>9
      <3>2. table2[p.block] = Put(table1[p.block], p.behind, begin)
        BY <1>4a, <1>4, <1>9, <1>10
      <3>. QED BY ONLY <2>1, <3>1, <3>2 DEF With
    <2>6. DOMAIN table2 = 1..c2
      BY <1>4a
    <2>. QED BY ONLY <2>4, <2>5, <2>6 DEF TableFits
  \* The entries.
  <1>13. StatAt(tree, g) = s
    BY <1>1 DEF StatAt
  <1>14. PICK S : S = E[y]
    OBVIOUS
  <1>15. PICK lv2 : lv2 = Longer(lv, m, S)
    OBVIOUS
  <1>16. /\ e.back # Null => /\ e.back \in Goes(env2, lv[m])
                             /\ LoopsAround(tree, e.loop) = lv[m] /\ S = Turn(tree, e.loop)
         /\ e.back = Null => S = lv[m]
    <2>1. EntryOf(tree, env2, lv[m], e, g)
      BY <1>1
    <2>2. IF IsLoop(s) THEN e.back # Null /\ e.loop = y ELSE e.back = Null
      BY ONLY <1>7, <1>13, <2>1 DEF EntryOf
    <2>. QED BY <1>4a, <1>6, <1>8, <1>14, <2>2
  <1>17. NestFits(tree, env2, ne, lv2)
    <2>1. m = Len(old) /\ ne = Append(old, e) /\ e.cont \in Goes(env2, lv[m])
      BY <1>1, <1>4a
    <2>. QED BY ONLY <1>4, <1>11, <1>15, <1>16, <2>1, NestFitsPush
  <1>18. /\ lv2[m + 1] = S /\ \A k \in 0..m : lv2[k] = lv[k]
    <2>1. m + 1 \in 0..(m + 1) /\ \A k \in 0..m : k \in 0..(m + 1) /\ k # m + 1
      BY <1>6
    <2>. QED BY ONLY <1>15, <2>1 DEF Longer
  <1>19. Len(ne) = m + 1 /\ \A i \in 1..m : ne[i] = old[i] /\ ne[m + 1] = e
    <2>1. IsSeq(old) /\ m = Len(old) /\ ne = Append(old, e)
      BY <1>1, <1>4 DEF NestFits
    <2>. QED BY ONLY <2>1, AppendAt
  <1>20. ne[m + 1] = e
    <2>1. IsSeq(old) /\ m = Len(old) /\ ne = Append(old, e)
      BY <1>1, <1>4 DEF NestFits
    <2>. QED BY ONLY <2>1, AppendAt
  \* The frames.
  <1>21. FrameFits(tree, E, Z, env2, lv2, ne, d, g)
    <2>1. m \in 0..m
      BY <1>6
    <2>2. lv2[m] = lv[m]
      BY ONLY <1>18, <2>1
    <2>3. EntryOf(tree, env2, lv[m], e, g) /\ g.block = f.block
      BY <1>1
    <2>. QED BY ONLY <1>6, <1>20, <2>2, <2>3 DEF FrameFits
  <1>22. SameBelow(lv, old, lv2, ne, d)
    BY ONLY <1>6, <1>18, <1>19 DEF SameBelow
  <1>23. Len(ne) = d + Steps(tree, g) /\ Len(ne) \in Nat
    <2>1. Steps(tree, g) = 1
      BY <1>1 DEF Steps
    <2>. QED BY <1>6, <1>19, <2>1
  <1>24. Linked(tree, E, Z, env2, lv2, fs, ne, Deeper(dp, n, Len(ne)))
    <2>1. /\ SameBelow(lv, old, lv2, ne, dp[n]) /\ FrameFits(tree, E, Z, env2, lv2, ne, dp[n], g)
          /\ Len(ne) = dp[n] + Steps(tree, g) /\ n = Len(stack)
      BY ONLY <1>1, <1>3, <1>21, <1>22, <1>23
    <2>2. fs = Append(SetTop(stack, g), Visit(y)) /\ E[y] = lv2[Len(ne)] /\ g \in CFrame
      BY <1>3, <1>7, <1>14, <1>18, <1>19
    <2>. QED BY ONLY <1>4, <1>8, <1>11, <1>23, <2>1, <2>2, EnterLinks
  <1>25. Labels(env2, mid2, c2)
    <2>1. DOMAIN env2 = 1..c2 /\ DOMAIN mid2 = 1..c2
      BY DEF Extends
    <2>2. 1 \in 1..c /\ env2[1] = env[1] /\ env[1] = {}
      BY <1>1, <1>4 DEF Labels, Extends
    <2>. QED BY ONLY <1>10, <2>1, <2>2 DEF Labels
  <1>26. mid2[p2.block] = lv2[Len(ne)]
    BY <1>7, <1>14, <1>18, <1>19
  <1>27. p2.block \in 1..c2 /\ Inserts(table2[p2.block], p2.behind)
    OBVIOUS
  <1>28. Fits(tree, E, Z, env2, mid2, lv2, Deeper(dp, n, Len(ne)), fs, table2, c2, p2, ne)
    BY ONLY <1>4, <1>12, <1>17, <1>24, <1>25, <1>26, <1>27 DEF Fits
  <1>. QED BY <1>1, <1>28

\* It does.
LEMMA LoopStartMakes ==
    ASSUME NEW R, NEW Y \in SUBSET Block, Walking(R, Y), EmitLoopStart
    PROVE  \E loop, cont, control, begin, g, e :
              /\ LoopMakes(F, Here, ops, created, point, loop, cont, control, begin, g, ops', e, point')
              /\ created' = cont /\ nested' = Append(nested, e)
              /\ frames' = Append(SetTop(frames, g), Visit(Here.body))
  <1>1. PICK s, c, p, f : s = Here /\ c = created /\ p = point /\ f = F
    OBVIOUS
  <1>3. PICK tree : tree = stat_nodes
    OBVIOUS
  <1>4. Place(R, Y, f, Len(frames))
    BY <1>1, Position
  <1>5. c \in Nat /\ p.block \in 1..c
    BY ONLY <1>1, <1>4 DEF Place
  <1>6. /\ InRange(tree, f) /\ f.visiting = 0
        /\ s = StatAt(tree, f) /\ s.kind \in LoopKind /\ IsLoop(s)
    BY <1>1, <1>3 DEF EmitLoopStart, AtStat, Here, IsLoop
  <1>9. PICK y : y = s.body
    OBVIOUS
  <1>12. PICK tested \in BOOLEAN : tested <=> s.kind # "inf_loop"
    OBVIOUS
  <1>13. PICK loop \in Nat : /\ tested => loop = c + 2
                             /\ ~tested => loop = c + 1
    <2>1. c + 1 \in Nat /\ c + 2 \in Nat
      BY <1>5
    <2>. QED BY <2>1
  <1>14. PICK cont \in Nat : cont = loop + 1
    OBVIOUS
  <1>15. PICK control \in Nat : /\ tested => control = c + 1
                                /\ ~tested => control = loop
    <2>1. c + 1 \in Nat
      BY <1>5
    <2>. QED BY <2>1
  <1>16. PICK begin : begin = LoopHead(s, control, loop, cont)
    OBVIOUS
  <1>17. PICK g : g = [f EXCEPT !.visiting = 1, !.inner = loop, !.cont = cont]
    OBVIOUS
  <1>18. PICK head : head = [ops EXCEPT ![p.block] = Put(ops[p.block], p.behind, begin)]
    OBVIOUS
  <1>19. PICK table2 : table2 = [b \in 1..cont |->
                          CASE b = loop -> <<Save(y)>>
                            [] b = control /\ tested -> <<Plain, Br({loop, cont})>>
                            [] b = cont -> <<>>
                            [] OTHER -> head[b]]
    OBVIOUS
  <1>20. PICK e : e = [back |-> control, cont |-> cont, loop |-> y]
    OBVIOUS
  <1>21. PICK p2, ne, fs : /\ p2 = [block |-> loop, behind |-> 0]
                           /\ ne = Append(nested, e)
                           /\ fs = Append(SetTop(frames, g), Visit(y))
    OBVIOUS
  <1>22. /\ ops' = table2 /\ created' = cont /\ point' = p2 /\ nested' = ne /\ frames' = fs
    <2>1. loop = created + (IF Here.kind # "inf_loop" THEN 2 ELSE 1)
      BY <1>1, <1>12, <1>13
    <2>2. control = IF Here.kind # "inf_loop" THEN created + 1 ELSE loop
      BY <1>1, <1>12, <1>15
    <2>3. cont = loop + 1
      BY <1>14
    <2>4. Insert(ops, point, LoopHead(Here, control, loop, cont)) = head
      BY <1>1, <1>16, <1>18 DEF Insert, Put
    <2>5. /\ ops' = [b \in 1..cont |->
                       CASE b = loop -> <<Save(Here.body)>>
                         [] b = control /\ Here.kind # "inf_loop" -> <<Plain, Br({loop, cont})>>
                         [] b = cont -> <<>>
                         [] OTHER -> Insert(ops, point, LoopHead(Here, control, loop, cont))[b]]
          /\ created' = cont
          /\ point' = [block |-> loop, behind |-> 0]
          /\ nested' = Append(nested, [back |-> control, cont |-> cont, loop |-> Here.body])
          /\ frames' = Append(SetTop(frames, [F EXCEPT !.visiting = 1, !.inner = loop,
                                                       !.cont = cont]),
                              Visit(Here.body))
      BY ONLY EmitLoopStart, <2>1, <2>2, <2>3 DEF EmitLoopStart
    <2>6. ops' = table2
      BY ONLY <1>1, <1>9, <1>12, <1>19, <2>4, <2>5
    <2>. QED BY ONLY <1>1, <1>9, <1>17, <1>20, <1>21, <2>5, <2>6
  <1>23. /\ g \in CFrame /\ g.block = f.block /\ g.pc = f.pc /\ g.visiting = 1
         /\ g.inner = loop /\ g.cont = cont
    <2>1. f \in CFrame
      BY ONLY <1>4 DEF Place
    <2>2. /\ g.block = f.block /\ g.pc = f.pc /\ g.visiting = 1
          /\ g.inner = loop /\ g.cont = cont
      BY ONLY <1>17, <2>1 DEF CFrame
    <2>3. 1 \in 0..2
      OBVIOUS
    <2>4. g \in CFrame
      BY ONLY <1>17, <2>1, <2>3, loop \in Nat, cont \in Nat DEF CFrame
    <2>. QED BY ONLY <2>2, <2>4
  <1>25. /\ cont \in (c + 1)..cont /\ loop \in (c + 1)..cont /\ loop # cont /\ c <= cont
         /\ loop \in 1..cont /\ cont \in 1..cont
         /\ control \in (c + 1)..cont /\ control # cont /\ control # Null
         /\ control = loop <=> ~tested
         /\ \A b \in (c + 1)..cont : b = loop \/ b = control \/ b = cont
         /\ \A b \in (c + 1)..cont : b \in 1..cont
         /\ \A b \in 1..c : b \in 1..cont /\ b # loop /\ b # control /\ b # cont
    BY ONLY <1>5, <1>13, <1>14, <1>15, tested \in BOOLEAN DEF Null
  <1>28. DOMAIN table2 = 1..cont
    BY ONLY <1>19
  <1>29. table2[p.block] = Put(ops[p.block], p.behind, begin)
         /\ \A b \in 1..c : b # p.block => table2[b] = ops[b]
    <2>1. DOMAIN ops = 1..c
      BY <1>1 DEF Walking, WalkOK, BlocksOK
    <2>2. \A b \in 1..c : table2[b] = head[b]
      <3>1. SUFFICES ASSUME NEW b \in 1..c PROVE table2[b] = head[b]
        OBVIOUS
      <3>2. b \in 1..cont /\ b # loop /\ b # control /\ b # cont
        BY ONLY <1>25, b \in 1..c
      <3>. QED BY ONLY <1>19, <3>2
    <2>3. head[p.block] = Put(ops[p.block], p.behind, begin)
          /\ \A b \in 1..c : b # p.block => head[b] = ops[b]
      BY ONLY <1>5, <1>18, <2>1
    <2>. QED BY ONLY <1>5, <2>2, <2>3
  <1>30. /\ table2[loop] = <<Save(y)>> /\ table2[cont] = <<>>
         /\ control # loop => table2[control] = <<Plain, Br({loop, cont})>>
    <2>1. table2[loop] = <<Save(y)>>
      <3>1. loop \in 1..cont /\ ~(loop = control /\ tested) /\ loop # cont
        BY ONLY <1>25
      <3>. QED BY ONLY <1>19, <3>1
    <2>2. table2[cont] = <<>>
      BY ONLY <1>19, <1>25
    <2>3. control # loop => table2[control] = <<Plain, Br({loop, cont})>>
      BY ONLY <1>19, <1>25
    <2>. QED BY <2>1, <2>2, <2>3
  <1>31. control = loop <=> s.kind = "inf_loop"
    BY ONLY <1>12, <1>25
  <1>32. LoopMakes(f, s, ops, c, p, loop, cont, control, begin, g, table2, e, p2)
    <2>1. table2[loop] = <<Save(s.body)>> /\ e = [back |-> control, cont |-> cont, loop |-> s.body]
      BY ONLY <1>9, <1>20, <1>30
    <2>. QED BY ONLY <1>16, <1>21, <1>23, <1>25, <1>28, <1>29, <1>30, <1>31, <2>1,
                    loop \in Nat, cont \in Nat DEF LoopMakes
  <1>33. /\ LoopMakes(F, Here, ops, created, point, loop, cont, control, begin, g, ops', e, point')
         /\ created' = cont /\ nested' = Append(nested, e)
         /\ frames' = Append(SetTop(frames, g), Visit(Here.body))
    BY ONLY <1>1, <1>9, <1>21, <1>22, <1>32
  <1>. QED BY ONLY <1>33

\* It does.
LEMMA CondStartMakes ==
    ASSUME NEW R, NEW Y \in SUBSET Block, Walking(R, Y), EmitCondStart
    PROVE  \E then, els, cont, other, begin, g, e :
              /\ CondMakes(F, Here, ops, created, point, then, els, cont, other, begin, g, ops', e,
                           point')
              /\ created' = cont /\ nested' = Append(nested, e)
              /\ frames' = Append(SetTop(frames, g), Visit(Here.body))
  <1>1. PICK s, c, p, f : s = Here /\ c = created /\ p = point /\ f = F
    OBVIOUS
  <1>3. PICK tree : tree = stat_nodes
    OBVIOUS
  <1>4. Place(R, Y, f, Len(frames))
    BY <1>1, Position
  <1>5. c \in Nat /\ p.block \in 1..c
    BY ONLY <1>1, <1>4 DEF Place
  <1>6. InRange(tree, f) /\ s = StatAt(tree, f)
    BY <1>1, <1>3 DEF EmitCondStart, AtStat, Here
  <1>9. PICK y : y = s.body
    OBVIOUS
  <1>12. PICK els \in Nat : /\ s.alt = NoBlock => els = Null
                            /\ s.alt # NoBlock => els = c + 2
    <2>1. c + 2 \in Nat /\ Null \in Nat
      BY <1>5 DEF Null
    <2>. QED BY <2>1
  <1>13. PICK cont \in Nat : /\ s.alt = NoBlock => cont = c + 2
                             /\ s.alt # NoBlock => cont = c + 3
    <2>1. c + 2 \in Nat /\ c + 3 \in Nat
      BY <1>5
    <2>. QED BY <2>1
  <1>14. PICK then \in Nat : then = c + 1
    BY <1>5
  <1>15. PICK other : other = IF els = Null THEN cont ELSE els
    OBVIOUS
  <1>16. PICK begin : begin = <<Plain, Br({then, other})>>
    OBVIOUS
  <1>17. PICK g : g = [f EXCEPT !.visiting = 1, !.inner = then, !.els = els, !.cont = cont]
    OBVIOUS
  <1>18. PICK head : head = [ops EXCEPT ![p.block] = Put(ops[p.block], p.behind, begin)]
    OBVIOUS
  <1>19. PICK table2 : table2 = [b \in 1..cont |-> IF b <= c THEN head[b] ELSE <<>>]
    OBVIOUS
  <1>20. PICK e : e = CondEntry(cont)
    OBVIOUS
  <1>21. PICK p2, ne, fs : /\ p2 = [block |-> then, behind |-> 0]
                           /\ ne = Append(nested, e)
                           /\ fs = Append(SetTop(frames, g), Visit(y))
    OBVIOUS
  <1>22. /\ ops' = table2 /\ created' = cont /\ point' = p2 /\ nested' = ne /\ frames' = fs
    <2>1. els = (IF Here.alt = NoBlock THEN Null ELSE created + 2) /\ then = created + 1
      BY <1>1, <1>12, <1>14
    <2>2. cont = created + (IF Here.alt = NoBlock THEN 2 ELSE 3)
      BY <1>1, <1>13
    <2>3. Insert(ops, point, <<Plain, Br({then, IF els = Null THEN cont ELSE els})>>) = head
      BY <1>1, <1>15, <1>16, <1>18 DEF Insert, Put
    <2>4. /\ ops' = [b \in 1..cont |-> IF b <= created
                        THEN Insert(ops, point,
                                    <<Plain, Br({then, IF els = Null THEN cont ELSE els})>>)[b]
                        ELSE <<>>]
          /\ created' = cont
          /\ point' = [block |-> then, behind |-> 0]
          /\ nested' = Append(nested, CondEntry(cont))
          /\ frames' = Append(SetTop(frames, [F EXCEPT !.visiting = 1, !.inner = then,
                                                       !.els = els, !.cont = cont]),
                              Visit(Here.body))
      BY ONLY EmitCondStart, <2>1, <2>2 DEF EmitCondStart
    <2>5. ops' = table2
      BY ONLY <1>1, <1>19, <2>3, <2>4
    <2>. QED BY ONLY <1>1, <1>9, <1>17, <1>20, <1>21, <2>4, <2>5
  <1>23. /\ g \in CFrame /\ g.block = f.block /\ g.pc = f.pc /\ g.visiting = 1
         /\ g.inner = then /\ g.cont = cont /\ g.els = els
    <2>1. f \in CFrame
      BY ONLY <1>4 DEF Place
    <2>2. /\ g.block = f.block /\ g.pc = f.pc /\ g.visiting = 1
          /\ g.inner = then /\ g.cont = cont /\ g.els = els
      BY ONLY <1>17, <2>1 DEF CFrame
    <2>3. 1 \in 0..2
      OBVIOUS
    <2>4. g \in CFrame
      BY ONLY <1>17, <2>1, <2>3, then \in Nat, cont \in Nat, els \in Nat DEF CFrame
    <2>. QED BY ONLY <2>2, <2>4
  <1>25. /\ cont \in (c + 1)..cont /\ then \in (c + 1)..cont /\ c <= cont
         /\ s.alt # NoBlock => els \in (c + 1)..cont
         /\ other \in (c + 1)..cont
         /\ then \in 1..cont
         /\ \A b \in (c + 1)..cont : b \in 1..cont /\ ~(b <= c)
         /\ \A b \in 1..c : b <= c /\ b \in 1..cont
    BY ONLY <1>5, <1>12, <1>13, <1>14, <1>15 DEF Null
  <1>28. DOMAIN table2 = 1..cont
    BY ONLY <1>19
  <1>29. table2[p.block] = Put(ops[p.block], p.behind, begin)
         /\ \A b \in 1..c : b # p.block => table2[b] = ops[b]
    <2>1. DOMAIN ops = 1..c
      BY <1>1 DEF Walking, WalkOK, BlocksOK
    <2>2. \A b \in 1..c : table2[b] = head[b]
      BY ONLY <1>19, <1>25
    <2>3. head[p.block] = Put(ops[p.block], p.behind, begin)
          /\ \A b \in 1..c : b # p.block => head[b] = ops[b]
      BY ONLY <1>5, <1>18, <2>1
    <2>. QED BY ONLY <1>5, <2>2, <2>3
  <1>30. \A b \in (c + 1)..cont : table2[b] = <<>>
    BY ONLY <1>19, <1>25
  <1>31. then # cont /\ then # other /\ (s.alt = NoBlock => other = cont)
         /\ (s.alt # NoBlock => other = els /\ els # cont)
    BY ONLY <1>5, <1>12, <1>13, <1>14, <1>15 DEF Null
  <1>32. CondMakes(f, s, ops, c, p, then, els, cont, other, begin, g, table2, e, p2)
    BY ONLY <1>16, <1>20, <1>21, <1>23, <1>25, <1>28, <1>29, <1>30, <1>31, cont \in Nat DEF CondMakes
  <1>33. /\ CondMakes(F, Here, ops, created, point, then, els, cont, other, begin, g, ops', e, point')
         /\ created' = cont /\ nested' = Append(nested, e)
         /\ frames' = Append(SetTop(frames, g), Visit(Here.body))
    BY ONLY <1>1, <1>9, <1>21, <1>22, <1>32
  <1>. QED BY ONLY <1>33

\* The beginning of a loop keeps what is emitted fitting.
LEMMA LoopStartKeepsFitted ==
    ASSUME NEW R, NEW Y \in SUBSET Block, Walking(R, Y), EmitLoopStart,
           NEW E, NEW Z, NEW env, NEW mid, NEW lv, NEW dp, Fitting(E, Z, env, mid, lv, dp)
    PROVE  Fitted'
  <1>1. PICK s, c, p, f, m : s = Here /\ c = created /\ p = point /\ f = F /\ m = Len(nested)
    OBVIOUS
  <1>2. PICK d : d = dp[Len(frames)]
    OBVIOUS
  <1>3. PICK tree : tree = stat_nodes
    OBVIOUS
  <1>4. Place(R, Y, f, Len(frames)) /\ Level(E, Z, env, lv, d, m, f)
    BY <1>1, <1>2, Position, Levels
  <1>5. c \in Nat /\ p.block \in 1..c
    BY ONLY <1>1, <1>4 DEF Place
  <1>6. /\ InRange(tree, f) /\ f.visiting = 0
        /\ s = StatAt(tree, f) /\ s.kind \in LoopKind /\ IsLoop(s)
    BY <1>1, <1>3 DEF EmitLoopStart, AtStat, Here, IsLoop
  <1>7. s.kind \notin LeafKind /\ s.kind # "block" /\ s \in Stat
    <2>1. s.kind \notin LeafKind /\ s.kind # "block"
      BY ONLY <1>6 DEF LoopKind, LeafKind, ExitKind
    <2>. QED BY ONLY <1>3, <1>4, <1>6, <2>1 DEF Place, FactsAt, StatAt
  <1>8. d = m /\ s.alt = NoBlock
    <2>1. ~Owns(tree, f)
      BY ONLY <1>6 DEF Owns
    <2>2. d = m
      BY ONLY <1>3, <1>4, <2>1 DEF Level
    <2>3. s.kind # "cond"
      BY ONLY <1>6 DEF LoopKind
    <2>. QED BY ONLY <1>7, <2>2, <2>3 DEF Stat
  <1>9. PICK y : y = s.body
    OBVIOUS
  <1>10. PICK S, M : S = lv[m] /\ M = E[y]
    OBVIOUS
  <1>11. M = Turn(tree, y) /\ LoopsAround(tree, y) = S
    <2>1. y \in SubBlocks(s)
      BY ONLY <1>7, <1>9, BodyIsSubBlock
    <2>2. E[y] = Turn(tree, y) /\ LoopsAround(tree, y) = lv[d]
      BY <1>1, <1>3, <1>4, <1>6, <2>1, BlockEntered
    <2>. QED BY ONLY <1>8, <1>10, <2>2
  <1>12. PICK loop, cont, control, begin, g, e :
            /\ LoopMakes(F, Here, ops, created, point, loop, cont, control, begin, g, ops', e,
                         point')
            /\ created' = cont /\ nested' = Append(nested, e)
            /\ frames' = Append(SetTop(frames, g), Visit(Here.body))
    BY LoopStartMakes
  <1>13. PICK table2, p2, ne, fs : /\ table2 = ops' /\ p2 = point' /\ ne = nested' /\ fs = frames'
    OBVIOUS
  <1>14. LoopMakes(f, s, ops, c, p, loop, cont, control, begin, g, table2, e, p2)
    BY ONLY <1>1, <1>12, <1>13
  <1>15. cont \in Nat
    BY ONLY <1>14 DEF LoopMakes
  <1>16. begin = LoopHead(s, control, loop, cont)
    BY ONLY <1>14 DEF LoopMakes
  <1>20. e = [back |-> control, cont |-> cont, loop |-> y]
    BY ONLY <1>9, <1>14 DEF LoopMakes
  <1>21. /\ p2 = [block |-> loop, behind |-> 0] /\ ne = Append(nested, e)
         /\ fs = Append(SetTop(frames, g), Visit(y))
    BY ONLY <1>1, <1>9, <1>12, <1>13, <1>14 DEF LoopMakes
  <1>22. /\ ops' = table2 /\ created' = cont /\ point' = p2 /\ nested' = ne /\ frames' = fs
    BY ONLY <1>12, <1>13
  <1>23. /\ g \in CFrame /\ g.block = f.block /\ g.pc = f.pc /\ g.visiting = 1
         /\ g.inner = loop /\ g.cont = cont
    BY ONLY <1>14 DEF LoopMakes
  <1>24. StatAt(tree, g) = s /\ Owns(tree, g)
    <2>1. StatAt(tree, g) = s
      BY ONLY <1>6, <1>23 DEF StatAt
    <2>. QED BY ONLY <1>7, <1>23, <2>1 DEF Owns
  <1>25. /\ cont \in (c + 1)..cont /\ loop \in (c + 1)..cont /\ loop # cont /\ c <= cont
         /\ loop \in 1..cont /\ cont \in 1..cont
         /\ control \in (c + 1)..cont /\ control # cont /\ control # Null
         /\ \A b \in (c + 1)..cont : b = loop \/ b = control \/ b = cont
    BY ONLY <1>14 DEF LoopMakes
  <1>26. PICK env2, mid2 : env2 = NewEnv(env, c, cont, S) /\ mid2 = NewMid(mid, c, cont, S, loop, M)
    OBVIOUS
  <1>27. /\ Extends(env, c, env2, cont) /\ Extends(mid, c, mid2, cont)
         /\ \A b \in (c + 1)..cont : b \in Goes(env2, S) /\ env2[b] = S
         /\ \A b \in (c + 1)..cont : b # loop => mid2[b] = S
         /\ mid2[loop] = M
    <2>1. DOMAIN env = 1..c /\ DOMAIN mid = 1..c
      BY <1>1 DEF Fitting, Fits, Labels
    <2>. QED BY ONLY <1>5, <1>15, <1>25, <1>26, <2>1, NewLabels
  <1>28. DOMAIN table2 = 1..cont
    BY ONLY <1>14 DEF LoopMakes
  <1>29. table2[p.block] = Put(ops[p.block], p.behind, begin)
         /\ \A b \in 1..c : b # p.block => table2[b] = ops[b]
    BY ONLY <1>14 DEF LoopMakes
  <1>30. /\ table2[loop] = <<Save(y)>> /\ table2[cont] = <<>>
         /\ control # loop => table2[control] = <<Plain, Br({loop, cont})>>
    BY ONLY <1>9, <1>14 DEF LoopMakes
  <1>31. loop \in Goes(env2, S) /\ cont \in Goes(env2, S) /\ control \in Goes(env2, S)
    BY ONLY <1>25, <1>27
  <1>32. Insertable(tree, env2, S, begin)
    BY ONLY <1>6, <1>16, <1>31, HeadFits
  <1>33. BlockFits(tree, env2, S, M, <<Save(y)>>) /\ Inserts(<<Save(y)>>, 0)
    BY ONLY <1>11, SaveFits
  <1>34. \A b \in (c + 1)..cont : BlockFits(tree, env2, env2[b], mid2[b], table2[b])
    <2>1. SUFFICES ASSUME NEW b \in (c + 1)..cont
                   PROVE  BlockFits(tree, env2, env2[b], mid2[b], table2[b])
      OBVIOUS
    <2>2. env2[b] = S /\ (b # loop => mid2[b] = S) /\ (b = loop => mid2[b] = M)
      BY ONLY <1>27, b \in (c + 1)..cont
    <2>3. CASE b = loop
      BY ONLY <1>30, <1>33, <2>2, <2>3
    <2>4. CASE b = cont
      <3>1. BlockFits(tree, env2, S, S, <<>>)
        BY ONLY EmptyFits, InsertableFits
      <3>. QED BY ONLY <1>25, <1>30, <2>2, <2>4, <3>1
    <2>5. CASE b = control /\ control # loop
      <3>1. {loop, cont} \subseteq Goes(env2, S)
        BY ONLY <1>31
      <3>2. Insertable(tree, env2, S, <<Plain, Br({loop, cont})>>)
        BY ONLY <3>1, BranchFits
      <3>3. BlockFits(tree, env2, S, S, <<Plain, Br({loop, cont})>>)
        BY ONLY <3>2, InsertableFits
      <3>. QED BY ONLY <1>30, <2>2, <2>5, <3>3
    <2>. QED BY ONLY <1>25, <2>3, <2>4, <2>5, b \in (c + 1)..cont
  <1>35. /\ e.back = control /\ e.cont = cont /\ e.loop = y
         /\ e.back # Null /\ e.back \in Goes(env2, S) /\ e.cont \in Goes(env2, S)
    BY ONLY <1>20, <1>25, <1>31
  <1>36. EntryOf(tree, env2, S, e, g)
    BY ONLY <1>6, <1>8, <1>9, <1>23, <1>24, <1>35 DEF EntryOf
  <1>37. p2.block = loop /\ p2.behind = 0
    BY <1>21
  <1>38. \E lv2, dp2 : Fits(tree, E, Z, env2, mid2, lv2, dp2, fs, table2, cont, p2, ne)
    <2>1. /\ InRange(stat_nodes, F) /\ F.visiting = 0 /\ s = StatAt(stat_nodes, F)
          /\ g.block = F.block /\ g.pc = F.pc /\ Owns(stat_nodes, g)
      BY ONLY <1>1, <1>3, <1>6, <1>23, <1>24
    <2>2. Extends(env, created, env2, cont) /\ Extends(mid, created, mid2, cont)
      BY ONLY <1>1, <1>27
    <2>3. BlocksMade(stat_nodes, env2, mid2, ops, created, point, begin, table2, cont)
      BY ONLY <1>1, <1>3, <1>28, <1>29, <1>34 DEF BlocksMade
    <2>4. /\ m = Len(nested) /\ Insertable(stat_nodes, env2, lv[m], begin)
          /\ EntryOf(stat_nodes, env2, lv[m], e, g) /\ LeadsTo(env2, lv[m], e)
      BY ONLY <1>1, <1>3, <1>10, <1>32, <1>35, <1>36 DEF LeadsTo
    <2>5. fs = Append(SetTop(frames, g), Visit(s.body)) /\ ne = Append(nested, e)
      BY ONLY <1>9, <1>21
    <2>6. /\ p2.block \in 1..cont /\ p2.behind = 0 /\ Inserts(table2[p2.block], 0)
          /\ mid2[p2.block] = E[s.body]
      BY ONLY <1>9, <1>10, <1>25, <1>27, <1>30, <1>33, <1>37
    <2>7. Starting(E, env2, mid2, cont, lv, s, g, m, begin, table2, e, fs, ne, p2)
      BY ONLY <1>7, <1>23, <2>1, <2>3, <2>4, <2>5, <2>6 DEF Starting
    <2>8. \E lv2, dp2 : Fits(stat_nodes, E, Z, env2, mid2, lv2, dp2, fs, table2, cont, p2, ne)
      BY ONLY <2>1, <2>2, <2>7, StartFits, Walking(R, Y),
              Y \in SUBSET Block, Fitting(E, Z, env, mid, lv, dp)
    <2>. QED BY ONLY <1>3, <2>8
  <1>39. stat_nodes' = tree
    BY <1>3 DEF EmitLoopStart, EmitUnchanged, builderVars
  <1>. QED BY ONLY <1>22, <1>38, <1>39 DEF Fitted, Fitting

\* The beginning of a conditional keeps it fitting.
LEMMA CondStartKeepsFitted ==
    ASSUME NEW R, NEW Y \in SUBSET Block, Walking(R, Y), EmitCondStart,
           NEW E, NEW Z, NEW env, NEW mid, NEW lv, NEW dp, Fitting(E, Z, env, mid, lv, dp)
    PROVE  Fitted'
  <1>1. PICK s, c, p, f, m : s = Here /\ c = created /\ p = point /\ f = F /\ m = Len(nested)
    OBVIOUS
  <1>2. PICK d : d = dp[Len(frames)]
    OBVIOUS
  <1>3. PICK tree : tree = stat_nodes
    OBVIOUS
  <1>4. Place(R, Y, f, Len(frames)) /\ Level(E, Z, env, lv, d, m, f)
    BY <1>1, <1>2, Position, Levels
  <1>5. c \in Nat /\ p.block \in 1..c
    BY ONLY <1>1, <1>4 DEF Place
  <1>6. /\ InRange(tree, f) /\ f.visiting = 0
        /\ s = StatAt(tree, f) /\ s.kind = "cond" /\ ~IsLoop(s)
    BY <1>1, <1>3 DEF EmitCondStart, AtStat, Here, IsLoop, LoopKind
  <1>7. s.kind \notin LeafKind /\ s.kind # "block" /\ s \in Stat
    <2>1. s.kind \notin LeafKind /\ s.kind # "block"
      BY ONLY <1>6 DEF LeafKind, ExitKind
    <2>. QED BY ONLY <1>3, <1>4, <1>6, <2>1 DEF Place, FactsAt, StatAt
  <1>8. d = m
    <2>1. ~Owns(tree, f)
      BY ONLY <1>6 DEF Owns
    <2>. QED BY ONLY <1>3, <1>4, <2>1 DEF Level
  <1>9. PICK y : y = s.body
    OBVIOUS
  <1>10. PICK S : S = lv[m]
    OBVIOUS
  <1>11. E[y] = S
    <2>1. y \in SubBlocks(s)
      BY ONLY <1>7, <1>9, BodyIsSubBlock
    <2>2. E[y] = lv[d]
      BY <1>1, <1>3, <1>4, <1>6, <2>1, BlockEntered
    <2>. QED BY ONLY <1>8, <1>10, <2>2
  <1>12. PICK then, els, cont, other, begin, g, e :
            /\ CondMakes(F, Here, ops, created, point, then, els, cont, other, begin, g, ops', e,
                         point')
            /\ created' = cont /\ nested' = Append(nested, e)
            /\ frames' = Append(SetTop(frames, g), Visit(Here.body))
    BY CondStartMakes
  <1>13. PICK table2, p2, ne, fs : /\ table2 = ops' /\ p2 = point' /\ ne = nested' /\ fs = frames'
    OBVIOUS
  <1>14. CondMakes(f, s, ops, c, p, then, els, cont, other, begin, g, table2, e, p2)
    BY ONLY <1>1, <1>12, <1>13
  <1>15. cont \in Nat
    BY ONLY <1>14 DEF CondMakes
  <1>16. begin = <<Plain, Br({then, other})>>
    BY ONLY <1>14 DEF CondMakes
  <1>20. e = CondEntry(cont)
    BY ONLY <1>14 DEF CondMakes
  <1>21. /\ p2 = [block |-> then, behind |-> 0] /\ ne = Append(nested, e)
         /\ fs = Append(SetTop(frames, g), Visit(y))
    BY ONLY <1>1, <1>9, <1>12, <1>13, <1>14 DEF CondMakes
  <1>22. /\ ops' = table2 /\ created' = cont /\ point' = p2 /\ nested' = ne /\ frames' = fs
    BY ONLY <1>12, <1>13
  <1>23. /\ g \in CFrame /\ g.block = f.block /\ g.pc = f.pc /\ g.visiting = 1
         /\ g.inner = then /\ g.cont = cont /\ g.els = els
    BY ONLY <1>14 DEF CondMakes
  <1>24. StatAt(tree, g) = s /\ Owns(tree, g)
    <2>1. StatAt(tree, g) = s
      BY ONLY <1>6, <1>23 DEF StatAt
    <2>. QED BY ONLY <1>7, <1>23, <2>1 DEF Owns
  <1>25. /\ cont \in (c + 1)..cont /\ then \in (c + 1)..cont /\ c <= cont
         /\ s.alt # NoBlock => els \in (c + 1)..cont
         /\ other \in (c + 1)..cont
         /\ then \in 1..cont
    BY ONLY <1>14 DEF CondMakes
  <1>26. PICK env2, mid2 : env2 = NewEnv(env, c, cont, S) /\ mid2 = NewMid(mid, c, cont, S, then, S)
    OBVIOUS
  <1>27. /\ Extends(env, c, env2, cont) /\ Extends(mid, c, mid2, cont)
         /\ \A b \in (c + 1)..cont : b \in Goes(env2, S) /\ env2[b] = S /\ mid2[b] = S
    <2>1. DOMAIN env = 1..c /\ DOMAIN mid = 1..c
      BY <1>1 DEF Fitting, Fits, Labels
    <2>2. /\ Extends(env, c, env2, cont) /\ Extends(mid, c, mid2, cont)
          /\ \A b \in (c + 1)..cont : b \in Goes(env2, S) /\ env2[b] = S
          /\ \A b \in (c + 1)..cont : b # then => mid2[b] = S
          /\ mid2[then] = S
      BY ONLY <1>5, <1>15, <1>25, <1>26, <2>1, NewLabels
    <2>. QED BY ONLY <2>2
  <1>28. DOMAIN table2 = 1..cont
    BY ONLY <1>14 DEF CondMakes
  <1>29. table2[p.block] = Put(ops[p.block], p.behind, begin)
         /\ \A b \in 1..c : b # p.block => table2[b] = ops[b]
    BY ONLY <1>14 DEF CondMakes
  <1>30. \A b \in (c + 1)..cont : table2[b] = <<>>
    BY ONLY <1>14 DEF CondMakes
  <1>31. Insertable(tree, env2, S, begin)
    <2>1. {then, other} \subseteq Goes(env2, S)
      BY ONLY <1>25, <1>27
    <2>. QED BY ONLY <1>16, <2>1, BranchFits
  <1>32. \A b \in (c + 1)..cont : BlockFits(tree, env2, env2[b], mid2[b], table2[b])
    <2>1. BlockFits(tree, env2, S, S, <<>>)
      BY ONLY EmptyFits, InsertableFits
    <2>. QED BY ONLY <1>27, <1>30, <2>1
  <1>33. /\ e.back = Null /\ e.cont = cont /\ e.cont \in Goes(env2, S)
    BY ONLY <1>20, <1>25, <1>27 DEF CondEntry
  <1>34. EntryOf(tree, env2, S, e, g)
    <2>1. s.alt # NoBlock => els \in Goes(env2, S)
      BY ONLY <1>25, <1>27
    <2>. QED BY ONLY <1>6, <1>23, <1>24, <1>33, <2>1 DEF EntryOf
  <1>35. p2.block = then /\ p2.behind = 0
    BY <1>21
  <1>36. table2[then] = <<>> /\ Inserts(<<>>, 0)
    BY ONLY <1>25, <1>30, EmptyFits
  <1>37. \E lv2, dp2 : Fits(tree, E, Z, env2, mid2, lv2, dp2, fs, table2, cont, p2, ne)
    <2>1. /\ InRange(stat_nodes, F) /\ F.visiting = 0 /\ s = StatAt(stat_nodes, F)
          /\ g.block = F.block /\ g.pc = F.pc /\ Owns(stat_nodes, g)
      BY ONLY <1>1, <1>3, <1>6, <1>23, <1>24
    <2>2. Extends(env, created, env2, cont) /\ Extends(mid, created, mid2, cont)
      BY ONLY <1>1, <1>27
    <2>3. BlocksMade(stat_nodes, env2, mid2, ops, created, point, begin, table2, cont)
      BY ONLY <1>1, <1>3, <1>28, <1>29, <1>32 DEF BlocksMade
    <2>4. /\ m = Len(nested) /\ Insertable(stat_nodes, env2, lv[m], begin)
          /\ EntryOf(stat_nodes, env2, lv[m], e, g) /\ LeadsTo(env2, lv[m], e)
      BY ONLY <1>1, <1>3, <1>10, <1>31, <1>33, <1>34 DEF LeadsTo
    <2>5. fs = Append(SetTop(frames, g), Visit(s.body)) /\ ne = Append(nested, e)
      BY ONLY <1>9, <1>21
    <2>6. /\ p2.block \in 1..cont /\ p2.behind = 0 /\ Inserts(table2[p2.block], 0)
          /\ mid2[p2.block] = E[s.body]
      BY ONLY <1>9, <1>11, <1>25, <1>27, <1>35, <1>36
    <2>7. Starting(E, env2, mid2, cont, lv, s, g, m, begin, table2, e, fs, ne, p2)
      BY ONLY <1>7, <1>23, <2>1, <2>3, <2>4, <2>5, <2>6 DEF Starting
    <2>8. \E lv2, dp2 : Fits(stat_nodes, E, Z, env2, mid2, lv2, dp2, fs, table2, cont, p2, ne)
      BY ONLY <2>1, <2>2, <2>7, StartFits, Walking(R, Y),
              Y \in SUBSET Block, Fitting(E, Z, env, mid, lv, dp)
    <2>. QED BY ONLY <1>3, <2>8
  <1>38. stat_nodes' = tree
    BY <1>3 DEF EmitCondStart, EmitUnchanged, builderVars
  <1>. QED BY ONLY <1>22, <1>37, <1>38 DEF Fitted, Fitting

\* A block the walk is going to emit into.
LEMMA AwaitedFits ==
    ASSUME NEW R, NEW Y \in SUBSET Block, Walking(R, Y), Owns(stat_nodes, F),
           NEW E, NEW Z, NEW env, NEW mid, NEW lv, NEW dp, Fitting(E, Z, env, mid, lv, dp),
           NEW b \in Waits(stat_nodes, F)
    PROVE  b \in 1..created /\ ops[b] = <<>> /\ env[b] = mid[b]
  <1>1. PICK n, f, tree, table, c : n = Len(frames) /\ f = F /\ tree = stat_nodes /\ table = ops
                                    /\ c = created
    OBVIOUS
  <1>2. n \in OwnersOf(tree, frames) /\ f = frames[n]
    <2>1. Place(R, Y, f, n)
      BY <1>1, Position
    <2>. QED BY ONLY <1>1, <2>1, Owns(stat_nodes, F) DEF Place
  <1>3. /\ FramesOK(tree, frames, c)
        /\ BlocksOK(tree, frames, table, c, point.block, last)
    BY <1>1 DEF Walking, WalkOK
  <1>4. b \in Waits(tree, f)
    BY <1>1
  <1>5. b \in 1..c
    BY ONLY <1>2, <1>3, <1>4 DEF FramesOK, FrameOK
  <1>6. Awaited(tree, frames, b)
    BY ONLY <1>2, <1>4 DEF Awaited
  <1>7. table[b] = <<>>
    BY ONLY <1>3, <1>5, <1>6 DEF BlocksOK, BlockOK
  <1>8. BlockFits(tree, env, env[b], mid[b], <<>>)
    <2>1. TableFits(tree, env, mid, table, c)
      BY <1>1 DEF Fitting, Fits
    <2>. QED BY ONLY <1>5, <1>7, <2>1 DEF TableFits
  <1>9. ~StartsWith(<<>>, "save")
    BY Starts
  <1>10. env[b] = mid[b]
    BY ONLY <1>8, <1>9 DEF BlockFits
  <1>. QED BY ONLY <1>1, <1>5, <1>7, <1>10

\* The clean-up keeps what fits.
LEMMA CleanFits ==
    ASSUME NEW R, NEW Y \in SUBSET Block, Walking(R, Y), NEW env, NEW mid, NEW table,
           TableFits(stat_nodes, env, mid, table, created), NEW by_loop
    PROVE  TableFits(stat_nodes, env, mid, Clean(table, by_loop), created)
  <1>1. PICK l, c, tree : l = last /\ c = created /\ tree = stat_nodes
    OBVIOUS
  <1>2. l = Null \/ l \in 1..c
    <2>1. l \in 0..c /\ c \in Nat
      BY <1>1 DEF Walking, WalkOK, BlocksOK
    <2>. QED BY <2>1 DEF Null
  <1>3. PICK table2 : table2 = Clean(table, by_loop)
    OBVIOUS
  <1>4. table2 = IF l = Null THEN table ELSE With(table, l, Cleaned(table[l], by_loop))
    BY ONLY <1>1, <1>3, CleanIs
  <1>5. TableFits(tree, env, mid, table, c)
    BY <1>1
  <1>6. TableFits(tree, env, mid, table2, c)
    BY ONLY <1>2, <1>4, <1>5, TableClean
  <1>. QED BY ONLY <1>1, <1>3, <1>6

\* The entry of the loop or conditional the walk is inside.
LEMMA TopEntry ==
    ASSUME NEW R, NEW Y \in SUBSET Block, Walking(R, Y), Owns(stat_nodes, F),
           NEW E, NEW Z, NEW env, NEW mid, NEW lv, NEW dp, Fitting(E, Z, env, mid, lv, dp),
           NEW e, e = Last(nested), NEW m, m = Len(nested)
    PROVE  /\ m \in Nat /\ m > 0 /\ m - 1 \in Nat /\ dp[Len(frames)] = m - 1
           /\ EntryOf(stat_nodes, env, lv[m - 1], e, F) /\ EntryFits(stat_nodes, env, lv, m, e)
           /\ F.cont \in Goes(env, lv[m - 1])
  <1>1. PICK d, f, tree, ne : d = dp[Len(frames)] /\ f = F /\ tree = stat_nodes /\ ne = nested
    OBVIOUS
  <1>2. Level(E, Z, env, lv, d, m, f)
    BY <1>1, Levels
  <1>3. /\ d \in Nat /\ m \in Nat /\ m > 0 /\ d = m - 1
        /\ EntryOf(tree, env, lv[d], ne[m], f)
    BY <1>1, <1>2 DEF Level
  <1>4. NestFits(tree, env, ne, lv) /\ m = Len(ne)
    BY <1>1 DEF Fitting, Fits
  <1>5. e = ne[m]
    BY <1>1 DEF Last
  <1>6. m \in 1..m
    BY <1>3
  <1>7. EntryFits(tree, env, lv, m, e)
    BY ONLY <1>4, <1>5, <1>6 DEF NestFits
  <1>8. f.cont \in Goes(env, lv[m - 1])
    BY ONLY <1>3, <1>5, <1>7 DEF EntryFits, EntryOf
  <1>. QED BY ONLY <1>1, <1>3, <1>5, <1>7, <1>8

(***************************************************************************)
(* The end of a loop or a conditional: the walk goes on in its continue    *)
(* block, which gets the operations "new".                                 *)
(***************************************************************************)
LEMMA EndFits ==
    ASSUME NEW R, NEW Y \in SUBSET Block, Walking(R, Y), Owns(stat_nodes, F), NextStat,
           NEW E, NEW Z, NEW env, NEW mid, NEW lv, NEW dp, Fitting(E, Z, env, mid, lv, dp),
           NEW table, TableFits(stat_nodes, env, mid, table, created),
           NEW new, Insertable(stat_nodes, env, lv[Len(nested) - 1], new),
           NEW table2, table2 = With(table, F.cont, new),
           NEW p2, p2.block = F.cont, Inserts(new, p2.behind)
    PROVE  Fits(stat_nodes, E, Z, env, mid, lv, dp, frames', table2, created, p2, Front(nested))
  <1>1. PICK f, n, m, tree, c, ne, fs, fs2 :
           /\ f = F /\ n = Len(frames) /\ m = Len(nested) /\ tree = stat_nodes /\ c = created
           /\ ne = nested /\ fs = frames /\ fs2 = frames'
    OBVIOUS
  <1>2. PICK cont : cont = f.cont
    OBVIOUS
  <1>3. m \in Nat /\ m > 0 /\ m - 1 \in Nat /\ dp[n] = m - 1 /\ cont \in Goes(env, lv[m - 1])
    <2>1. PICK e : e = Last(nested)
      OBVIOUS
    <2>. QED BY <1>1, <1>2, <2>1, TopEntry
  <1>4. cont \in 1..c /\ env[cont] = mid[cont]
    <2>1. cont \in Waits(stat_nodes, F)
      BY <1>1, <1>2 DEF Waits
    <2>. QED BY <1>1, <2>1, AwaitedFits
  <1>5. PICK S : S = lv[m - 1]
    OBVIOUS
  <1>6. env[cont] = S /\ mid[cont] = S
    BY ONLY <1>3, <1>4, <1>5 DEF Goes
  <1>7. TableFits(tree, env, mid, table2, c) /\ table2[cont] = new
    <2>1. Insertable(tree, env, S, new)
      BY <1>1, <1>5
    <2>2. BlockFits(tree, env, S, S, new)
      BY ONLY <2>1, InsertableFits
    <2>3. BlockFits(tree, env, env[cont], mid[cont], new)
      BY ONLY <1>6, <2>2
    <2>4. TableFits(tree, env, mid, table, c) /\ table2 = With(table, cont, new)
      BY <1>1, <1>2
    <2>. QED BY ONLY <1>4, <2>3, <2>4, TableWith
  <1>8. /\ LoopFacts(tree, E, Z) /\ Labels(env, mid, c)
        /\ NestFits(tree, env, ne, lv)
        /\ Linked(tree, E, Z, env, lv, fs, ne, dp)
    BY <1>1 DEF Fitting, Fits
  <1>9. PICK less : less = Front(ne)
    OBVIOUS
  <1>10. /\ Len(less) = m - 1 /\ \A i \in 1..(m - 1) : less[i] = ne[i]
    <2>1. IsSeq(ne) /\ Len(ne) > 0
      BY ONLY <1>1, <1>3, <1>8 DEF NestFits
    <2>2. Len(Front(ne)) = Len(ne) - 1 /\ \A i \in 1..(Len(ne) - 1) : Front(ne)[i] = ne[i]
      BY ONLY <2>1, FrontProps
    <2>. QED BY ONLY <1>1, <1>9, <2>2
  <1>11. NestFits(tree, env, less, lv)
    <2>1. Len(ne) > 0
      BY <1>1, <1>3
    <2>. QED BY ONLY <1>8, <1>9, <2>1, NestFitsPop
  <1>12. Linked(tree, E, Z, env, lv, fs2, less, dp)
    <2>1. Len(less) = dp[n] /\ SameBelow(lv, ne, lv, less, dp[n])
      BY ONLY <1>3, <1>10 DEF SameBelow
    <2>2. n = Len(fs) /\ f = Top(fs) /\ fs2 = SetTop(fs, [Visit(f.block) EXCEPT !.pc = f.pc + 1])
      BY <1>1 DEF NextStat, F
    <2>. QED BY ONLY <1>8, <2>1, <2>2, NextLinks
  <1>13. p2.block \in 1..c /\ Inserts(table2[p2.block], p2.behind) /\ mid[p2.block] = lv[Len(less)]
    BY <1>1, <1>2, <1>4, <1>5, <1>6, <1>7, <1>10
  <1>14. Fits(tree, E, Z, env, mid, lv, dp, fs2, table2, c, p2, less)
    BY ONLY <1>7, <1>8, <1>11, <1>12, <1>13 DEF Fits
  <1>. QED BY ONLY <1>1, <1>9, <1>14

\* The end of a loop keeps it fitting.
LEMMA LoopEndKeepsFitted ==
    ASSUME NEW R, NEW Y \in SUBSET Block, Walking(R, Y), EmitLoopEnd,
           NEW E, NEW Z, NEW env, NEW mid, NEW lv, NEW dp, Fitting(E, Z, env, mid, lv, dp)
    PROVE  Fitted'
  <1>1. PICK s, f, ne, e, m : s = Here /\ f = F /\ ne = Front(nested) /\ e = Last(nested)
                              /\ m = Len(nested)
    OBVIOUS
  <1>2. PICK cur, cont : cur = f.inner /\ cont = f.cont
    OBVIOUS
  <1>3. PICK default : default = DefaultBranch(ne)
    OBVIOUS
  <1>4. PICK release : release = IF s.kind = "iter_loop" THEN <<Plain>> ELSE <<>>
    OBVIOUS
  <1>5. PICK back : back = <<Restore(s.body), Br({e.back})>>
    OBVIOUS
  <1>6. PICK looped : looped = IF HasTerminator(ops[cur]) THEN ops
                               ELSE With(ops, cur, ops[cur] \o back)
    OBVIOUS
  <1>7. PICK cleaned : cleaned = Clean(looped, TRUE)
    OBVIOUS
  <1>8. PICK new : new = release \o default
    OBVIOUS
  <1>9. PICK table2 : table2 = With(cleaned, cont, new)
    OBVIOUS
  <1>10. PICK p2 : p2 = [block |-> cont, behind |-> Len(default)]
    OBVIOUS
  <1>11. PICK tree, c : tree = stat_nodes /\ c = created
    OBVIOUS
  <1>12. /\ f.visiting = 1 /\ s = StatAt(tree, f) /\ s.kind \in LoopKind /\ IsLoop(s) /\ NextStat
    BY <1>1, <1>11 DEF EmitLoopEnd, AtStat, Here, IsLoop
  <1>13. Owns(stat_nodes, F) /\ cur = Cur(F)
    <2>1. Owns(tree, f)
      BY ONLY <1>12 DEF Owns, LoopKind
    <2>2. cur = Cur(f)
      BY ONLY <1>2, <1>12 DEF Cur
    <2>. QED BY <1>1, <1>11, <2>1, <2>2
  <1>14. ops' = table2 /\ nested' = ne /\ point' = p2
    BY <1>1, <1>2, <1>3, <1>4, <1>5, <1>6, <1>7, <1>8, <1>9, <1>10 DEF EmitLoopEnd, With
  <1>15. /\ m \in Nat /\ m > 0 /\ m - 1 \in Nat
         /\ EntryOf(tree, env, lv[m - 1], e, f) /\ EntryFits(tree, env, lv, m, e)
    BY <1>1, <1>11, <1>13, TopEntry
  <1>16. /\ lv[m] = Turn(tree, s.body) /\ LoopsAround(tree, s.body) = lv[m - 1]
         /\ e.back \in Goes(env, lv[m - 1])
    <2>1. e.back # Null /\ e.loop = s.body
      BY ONLY <1>12, <1>15 DEF EntryOf
    <2>. QED BY ONLY <1>15, <2>1 DEF EntryFits
  <1>17. /\ TableFits(tree, env, mid, ops, c) /\ NestFits(tree, env, nested, lv)
         /\ mid[point.block] = lv[m]
    BY <1>1, <1>11 DEF Fitting, Fits
  <1>18. TableFits(tree, env, mid, looped, c)
    <2>1. CASE HasTerminator(ops[cur])
      BY <1>6, <1>17, <2>1
    <2>2. CASE ~HasTerminator(ops[cur])
      <3>1. cur \in 1..c /\ mid[cur] = lv[m]
        BY <1>11, <1>13, <1>17, <2>2, BodyEnd
      <3>2. PICK l, S, b : l = s.body /\ S = lv[m] /\ b = e.back
        OBVIOUS
      <3>3. S = Turn(tree, l) /\ b \in Goes(env, LoopsAround(tree, l))
        BY ONLY <1>16, <3>2
      <3>4. Insertable(tree, env, S, <<Restore(l), Br({b})>>)
        BY ONLY <3>3, TurnEndFits
      <3>5. Insertable(tree, env, S, back)
        BY ONLY <1>5, <3>2, <3>4
      <3>6. PICK more, old : more = ops[cur] \o back /\ old = ops[cur]
        OBVIOUS
      <3>7. BlockFits(tree, env, env[cur], S, old)
        BY ONLY <1>17, <3>1, <3>2, <3>6 DEF TableFits
      <3>8. BlockFits(tree, env, env[cur], S, more)
        <4>1. more = old \o back
          BY ONLY <3>6
        <4>2. SeqFits(tree, env, S, back) /\ ~StartsWith(back, "save")
          BY ONLY <3>5 DEF Insertable
        <4>. QED BY ONLY <3>7, <4>1, <4>2, FittingConcat
      <3>9. BlockFits(tree, env, env[cur], mid[cur], more)
        BY ONLY <3>1, <3>2, <3>8
      <3>10. looped = With(ops, cur, more)
        BY <1>6, <2>2, <3>6
      <3>. QED BY ONLY <1>17, <3>1, <3>9, <3>10, TableWith
    <2>. QED BY <2>1, <2>2
  <1>19. TableFits(tree, env, mid, cleaned, c)
    BY <1>7, <1>11, <1>18, CleanFits
  <1>20. PICK S : S = lv[m - 1]
    OBVIOUS
  <1>21. Insertable(tree, env, S, default)
    <2>1. IsSeq(nested) /\ Len(nested) > 0
      BY ONLY <1>1, <1>15, <1>17 DEF NestFits
    <2>2. Len(ne) = m - 1
      BY ONLY <1>1, <2>1, FrontProps
    <2>3. NestFits(tree, env, ne, lv)
      BY ONLY <1>1, <1>17, <2>1, NestFitsPop
    <2>4. S = lv[Len(ne)]
      BY ONLY <1>20, <2>2
    <2>. QED BY ONLY <1>3, <2>3, <2>4, DefaultFits
  <1>22. Insertable(tree, env, S, new) /\ Inserts(new, Len(default))
    <2>1. release \in {<<>>, <<Plain>>}
      BY ONLY <1>4
    <2>. QED BY ONLY <1>8, <1>21, <2>1, BehindFits
  <1>23. Insertable(stat_nodes, env, lv[Len(nested) - 1], new)
    BY ONLY <1>1, <1>11, <1>20, <1>22
  <1>24. p2.block = F.cont /\ Inserts(new, p2.behind) /\ table2 = With(cleaned, F.cont, new)
    BY ONLY <1>1, <1>2, <1>9, <1>10, <1>22
  <1>25. TableFits(stat_nodes, env, mid, cleaned, created)
    BY ONLY <1>11, <1>19
  <1>26. NextStat
    BY <1>12
  <1>27. Fits(stat_nodes, E, Z, env, mid, lv, dp, frames', table2, created, p2, Front(nested))
    BY ONLY <1>13, <1>23, <1>24, <1>25, <1>26, EndFits, Walking(R, Y), Y \in SUBSET Block,
            Fitting(E, Z, env, mid, lv, dp)
  <1>28. stat_nodes' = stat_nodes /\ created' = created
    BY DEF EmitLoopEnd, EmitUnchanged, builderVars
  <1>29. Fitting(E, Z, env, mid, lv, dp)'
    BY ONLY <1>1, <1>14, <1>27, <1>28 DEF Fitting
  <1>. QED BY ONLY <1>29 DEF Fitted

\* The branch behind a then or else block.
LEMMA ClosedFits ==
    ASSUME NEW R, NEW Y \in SUBSET Block, Walking(R, Y), Owns(stat_nodes, F), ~IsLoop(Here),
           NEW E, NEW Z, NEW env, NEW mid, NEW lv, NEW dp, Fitting(E, Z, env, mid, lv, dp),
           NEW cur
    PROVE  TableFits(stat_nodes, env, mid, Closed(cur), created)
  <1>1. PICK m, e, cont : m = Len(nested) /\ e = Last(nested) /\ cont = F.cont
    OBVIOUS
  <1>2. PICK tree, f : tree = stat_nodes /\ f = F
    OBVIOUS
  <1>3. /\ EntryOf(tree, env, lv[m - 1], e, f) /\ EntryFits(tree, env, lv, m, e)
        /\ cont \in Goes(env, lv[m - 1])
    BY <1>1, <1>2, TopEntry
  <1>4. ~IsLoop(StatAt(tree, f))
    BY <1>2 DEF Here
  <1>5. lv[m] = lv[m - 1]
    BY ONLY <1>3, <1>4 DEF EntryOf, EntryFits
  <1>6. PICK new : new = <<Br({cont})>>
    OBVIOUS
  <1>7. Insertable(tree, env, lv[m], new)
    <2>1. {cont} \subseteq Goes(env, lv[m])
      BY ONLY <1>3, <1>5
    <2>2. Insertable(tree, env, lv[m], <<Br({cont})>>)
      BY ONLY <2>1, BranchFits
    <2>. QED BY ONLY <1>6, <2>2
  <1>8. PICK table2 : table2 = Insert(ops, point, new)
    OBVIOUS
  <1>9. TableFits(stat_nodes, env, mid, table2, created)
    BY ONLY <1>1, <1>2, <1>7, <1>8, PointFits, Fitting(E, Z, env, mid, lv, dp)
  <1>10. TableFits(stat_nodes, env, mid, ops, created)
    BY DEF Fitting, Fits
  <1>11. Closed(cur) = IF HasTerminator(ops[cur]) THEN ops ELSE table2
    BY <1>1, <1>6, <1>8 DEF Closed
  <1>. QED BY ONLY <1>9, <1>10, <1>11

\* The end of a conditional keeps it fitting.
LEMMA CondEndKeepsFitted ==
    ASSUME NEW R, NEW Y \in SUBSET Block, Walking(R, Y), EmitCondEnd,
           NEW E, NEW Z, NEW env, NEW mid, NEW lv, NEW dp, Fitting(E, Z, env, mid, lv, dp)
    PROVE  Fitted'
  <1>1. PICK s, f, ne, m : s = Here /\ f = F /\ ne = Front(nested) /\ m = Len(nested)
    OBVIOUS
  <1>2. PICK cur, cont : cur = (IF s.alt = NoBlock THEN f.inner ELSE f.els) /\ cont = f.cont
    OBVIOUS
  <1>3. PICK branch : branch = DefaultBranch(ne)
    OBVIOUS
  <1>4. PICK default : default = IF IsTerminal THEN <<Unreachable>> ELSE branch
    OBVIOUS
  <1>5. PICK closed : closed = Closed(cur)
    OBVIOUS
  <1>6. PICK cleaned : cleaned = Clean(closed, FALSE)
    OBVIOUS
  <1>7. PICK table2 : table2 = With(cleaned, cont, default)
    OBVIOUS
  <1>8. PICK p2 : p2 = [block |-> cont, behind |-> Len(default)]
    OBVIOUS
  <1>9. PICK tree, c : tree = stat_nodes /\ c = created
    OBVIOUS
  <1>10. /\ f.visiting # 0 /\ s = StatAt(tree, f) /\ s.kind = "cond" /\ ~IsLoop(s) /\ NextStat
    BY <1>1, <1>9 DEF EmitCondEnd, AtStat, Here, IsLoop, LoopKind
  <1>11. Owns(stat_nodes, F) /\ ~IsLoop(Here)
    <2>1. Owns(tree, f)
      BY ONLY <1>10 DEF Owns
    <2>. QED BY <1>1, <1>9, <1>10, <2>1
  <1>12. ops' = table2 /\ nested' = ne /\ point' = p2
    BY <1>1, <1>2, <1>3, <1>4, <1>5, <1>6, <1>7, <1>8 DEF EmitCondEnd, With
  <1>13. m \in Nat /\ m > 0 /\ m - 1 \in Nat
    <2>1. PICK e : e = Last(nested)
      OBVIOUS
    <2>. QED BY <1>1, <1>11, <2>1, TopEntry
  <1>14. TableFits(tree, env, mid, cleaned, c)
    <2>1. TableFits(stat_nodes, env, mid, closed, created)
      BY <1>5, <1>11, ClosedFits
    <2>. QED BY <1>6, <1>9, <2>1, CleanFits
  <1>15. PICK S : S = lv[m - 1]
    OBVIOUS
  <1>16. Insertable(tree, env, S, default)
    <2>1. CASE IsTerminal
      <3>1. PICK u : u = Unreachable
        OBVIOUS
      <3>2. u.kind = "unreachable" /\ u.to = {} /\ StatFits(tree, S, u)
        BY <3>1, OpFields DEF StatFits
      <3>3. SeqFits(tree, env, S, <<u>>) /\ ~StartsWith(<<u>>, "save")
        <4>1. SeqFits(tree, env, S, <<u>>)
          BY ONLY <3>2, FittingTuples
        <4>2. ~StartsWith(<<u>>, "save")
          <5>1. StartsWith(<<u>>, "save") <=> u.kind = "save"
            BY ONLY Starts
          <5>. QED BY ONLY <3>2, <5>1
        <4>. QED BY ONLY <4>1, <4>2
      <3>. QED BY ONLY <1>4, <2>1, <3>1, <3>3 DEF Insertable
    <2>2. CASE ~IsTerminal
      <3>1. NestFits(tree, env, nested, lv)
        BY <1>9 DEF Fitting, Fits
      <3>2. IsSeq(nested) /\ Len(nested) > 0
        BY ONLY <1>1, <1>13, <3>1 DEF NestFits
      <3>3. Len(ne) = m - 1
        BY ONLY <1>1, <3>2, FrontProps
      <3>4. NestFits(tree, env, ne, lv)
        BY ONLY <1>1, <3>1, <3>2, NestFitsPop
      <3>5. S = lv[Len(ne)]
        BY ONLY <1>15, <3>3
      <3>6. Insertable(tree, env, S, branch)
        BY ONLY <1>3, <3>4, <3>5, DefaultFits
      <3>. QED BY ONLY <1>4, <2>2, <3>6
    <2>. QED BY <2>1, <2>2
  <1>17. Inserts(default, Len(default))
    <2>1. PICK none, new : none = <<>> /\ new = none \o default
      OBVIOUS
    <2>2. none \in {<<>>, <<Plain>>}
      BY <2>1
    <2>3. Inserts(new, Len(default))
      BY ONLY <1>16, <2>1, <2>2, BehindFits
    <2>4. PICK T : default \in Seq(T)
      BY ONLY <1>16 DEF Insertable, SeqFits, IsSeq
    <2>5. new = default
      BY ONLY <2>1, <2>4
    <2>. QED BY ONLY <2>3, <2>5
  <1>18. Insertable(stat_nodes, env, lv[Len(nested) - 1], default)
    BY ONLY <1>1, <1>9, <1>15, <1>16
  <1>19. p2.block = F.cont /\ Inserts(default, p2.behind) /\ table2 = With(cleaned, F.cont, default)
    BY ONLY <1>1, <1>2, <1>7, <1>8, <1>17
  <1>20. TableFits(stat_nodes, env, mid, cleaned, created) /\ NextStat
    BY ONLY <1>9, <1>10, <1>14
  <1>21. Fits(stat_nodes, E, Z, env, mid, lv, dp, frames', table2, created, p2, Front(nested))
    BY ONLY <1>11, <1>18, <1>19, <1>20, EndFits, Walking(R, Y), Y \in SUBSET Block,
            Fitting(E, Z, env, mid, lv, dp)
  <1>22. stat_nodes' = stat_nodes /\ created' = created
    BY DEF EmitCondEnd, EmitUnchanged, builderVars
  <1>23. Fitting(E, Z, env, mid, lv, dp)'
    BY ONLY <1>1, <1>12, <1>21, <1>22 DEF Fitting
  <1>. QED BY ONLY <1>23 DEF Fitted

\* Going from the if-part to the else-part keeps it fitting.
LEMMA CondElseKeepsFitted ==
    ASSUME NEW R, NEW Y \in SUBSET Block, Walking(R, Y), EmitCondElse,
           NEW E, NEW Z, NEW env, NEW mid, NEW lv, NEW dp, Fitting(E, Z, env, mid, lv, dp)
    PROVE  Fitted'
  <1>1. PICK s, f, n, m, c, tree : /\ s = Here /\ f = F /\ n = Len(frames) /\ m = Len(nested)
                                   /\ c = created /\ tree = stat_nodes
    OBVIOUS
  <1>2. PICK g, els, cont : g = [f EXCEPT !.visiting = 2] /\ els = f.els /\ cont = f.cont
    OBVIOUS
  <1>3. PICK table, p2 : table = Closed(f.inner) /\ p2 = [block |-> els, behind |-> 0]
    OBVIOUS
  <1>4. PICK old, less, e : old = nested /\ less = Front(old) /\ e = CondEntry(cont)
    OBVIOUS
  <1>5. PICK ne, y, stack, fs : /\ ne = Append(less, e) /\ y = s.alt /\ stack = frames
                                /\ fs = Append(SetTop(stack, g), Visit(y))
    OBVIOUS
  <1>6. /\ InRange(tree, f) /\ f.visiting = 1 /\ s = StatAt(tree, f) /\ s.kind = "cond"
        /\ s.alt # NoBlock /\ ~IsLoop(s) /\ s.kind \notin LeafKind
    BY <1>1 DEF EmitCondElse, AtStat, Here, IsLoop, LoopKind, LeafKind, ExitKind
  <1>7. /\ ops' = table /\ point' = p2 /\ nested' = ne /\ frames' = fs
        /\ created' = c /\ stat_nodes' = tree
    BY <1>1, <1>2, <1>3, <1>4, <1>5 DEF EmitCondElse, EmitUnchanged, builderVars
  <1>8. Owns(tree, f)
    BY ONLY <1>6 DEF Owns
  <1>9. Place(R, Y, f, n) /\ Level(E, Z, env, lv, dp[n], m, f)
    BY <1>1, Position, Levels
  <1>10. PICK S : S = lv[m - 1]
    OBVIOUS
  <1>11. /\ m \in Nat /\ m > 0 /\ m - 1 \in Nat /\ dp[n] = m - 1 /\ m = Len(old)
         /\ els \in Goes(env, S) /\ cont \in Goes(env, S) /\ lv[m] = S
    <2>1. PICK e1 : e1 = Last(nested)
      OBVIOUS
    <2>2. /\ m \in Nat /\ m > 0 /\ m - 1 \in Nat /\ dp[n] = m - 1
          /\ EntryOf(tree, env, lv[m - 1], e1, f) /\ EntryFits(tree, env, lv, m, e1)
          /\ cont \in Goes(env, lv[m - 1])
      BY <1>1, <1>2, <1>8, <2>1, TopEntry
    <2>3. els \in Goes(env, S) /\ lv[m] = S
      BY ONLY <1>2, <1>6, <1>10, <2>2 DEF EntryOf, EntryFits
    <2>. QED BY ONLY <1>1, <1>4, <1>10, <2>2, <2>3
  <1>12. els \in 1..c /\ mid[els] = S
    <2>1. els \in Waits(tree, f)
      BY ONLY <1>2, <1>6 DEF Waits
    <2>2. els \in 1..c /\ env[els] = mid[els]
      BY <1>1, <1>8, <2>1, AwaitedFits
    <2>. QED BY ONLY <1>11, <2>2 DEF Goes
  <1>13. /\ LoopFacts(tree, E, Z) /\ Labels(env, mid, c) /\ NestFits(tree, env, old, lv)
         /\ Linked(tree, E, Z, env, lv, stack, old, dp)
    BY <1>1, <1>4, <1>5 DEF Fitting, Fits
  <1>14. TableFits(tree, env, mid, table, c)
    BY <1>1, <1>3, <1>6, <1>8, ClosedFits
  <1>15. p2.block = els /\ p2.behind = 0 /\ Inserts(table[els], 0)
    <2>1. BlockFits(tree, env, env[els], mid[els], table[els])
      BY ONLY <1>12, <1>14 DEF TableFits
    <2>2. Inserts(table[els], 0)
      BY ONLY <2>1, EndInserts
    <2>. QED BY ONLY <1>3, <2>2
  \* The entries.
  <1>16. IsSeq(less) /\ Len(less) = m - 1 /\ \A i \in 1..(m - 1) : less[i] = old[i]
    <2>1. IsSeq(old) /\ Len(old) > 0
      BY ONLY <1>11, <1>13 DEF NestFits
    <2>. QED BY ONLY <1>4, <1>11, <2>1, FrontProps
  <1>17. PICK k \in Nat : k = m - 1 /\ k + 1 = m
    BY <1>11
  <1>18. PICK lv2 : lv2 = Longer(lv, k, S)
    OBVIOUS
  <1>19. e.back = Null /\ e.cont = cont
    BY ONLY <1>4 DEF CondEntry
  <1>20. NestFits(tree, env, ne, lv2)
    <2>1. NestFits(tree, env, less, lv)
      <3>1. Len(old) > 0
        BY ONLY <1>11
      <3>. QED BY ONLY <1>4, <1>13, <3>1, NestFitsPop
    <2>2. k = Len(less) /\ e.cont \in Goes(env, lv[k]) /\ S = lv[k] /\ Grows(env, env)
      BY ONLY <1>10, <1>11, <1>16, <1>17, <1>19 DEF Grows
    <2>3. /\ e.back # Null => /\ e.back \in Goes(env, lv[k])
                              /\ LoopsAround(tree, e.loop) = lv[k] /\ S = Turn(tree, e.loop)
          /\ e.back = Null => S = lv[k]
      BY ONLY <1>19, <2>2
    <2>. QED BY ONLY <1>5, <1>18, <2>1, <2>2, <2>3, NestFitsPush
  <1>21. lv2[m] = S /\ \A i \in 0..k : lv2[i] = lv[i]
    <2>1. k + 1 \in 0..(k + 1) /\ \A i \in 0..k : i \in 0..(k + 1) /\ i # k + 1
      BY <1>17
    <2>. QED BY ONLY <1>17, <1>18, <2>1 DEF Longer
  <1>22. /\ Len(ne) = m /\ ne[m] = e /\ \A i \in 1..k : ne[i] = old[i]
    <2>1. /\ Len(Append(less, e)) = Len(less) + 1 /\ Append(less, e)[Len(less) + 1] = e
          /\ \A i \in 1..Len(less) : Append(less, e)[i] = less[i]
      BY ONLY <1>16, AppendAt
    <2>. QED BY ONLY <1>5, <1>16, <1>17, <2>1
  \* The frames.
  <1>23. g \in CFrame /\ g.block = f.block /\ g.pc = f.pc /\ g.visiting = 2 /\ g.cont = cont
    <2>1. f \in CFrame
      BY ONLY <1>9 DEF Place
    <2>. QED BY ONLY <1>2, <2>1 DEF CFrame
  <1>24. StatAt(tree, g) = s /\ Owns(tree, g) /\ Steps(tree, g) = 1
    <2>1. StatAt(tree, g) = s
      BY ONLY <1>6, <1>23 DEF StatAt
    <2>. QED BY ONLY <1>6, <1>23, <2>1 DEF Owns, Steps
  <1>25. FrameFits(tree, E, Z, env, lv2, ne, k, g)
    <2>1. EntryOf(tree, env, lv2[k], ne[k + 1], g)
      BY ONLY <1>6, <1>17, <1>19, <1>22, <1>23, <1>24 DEF EntryOf
    <2>2. f.block \in Z /\ lv[k] = E[f.block]
      BY ONLY <1>9, <1>11, <1>17 DEF Level
    <2>3. lv2[k] = lv[k]
      <3>1. k \in 0..k
        OBVIOUS
      <3>. QED BY ONLY <1>21, <3>1
    <2>. QED BY ONLY <1>17, <1>23, <2>1, <2>2, <2>3 DEF FrameFits
  <1>26. SameBelow(lv, old, lv2, ne, k)
    BY ONLY <1>21, <1>22 DEF SameBelow
  <1>27. y \in Block /\ y \in Z /\ E[y] = S
    <2>1. s \in Stat
      BY ONLY <1>1, <1>6, <1>9 DEF Place, FactsAt, StatAt
    <2>2. y \in SubBlocks(s)
      BY ONLY <1>5, <1>6, <2>1, BodyIsSubBlock
    <2>3. y \in Block /\ y \in Z /\ E[y] = lv[dp[n]]
      BY <1>1, <1>6, <1>9, <2>2, BlockEntered
    <2>. QED BY ONLY <1>10, <1>11, <2>3
  <1>28. Linked(tree, E, Z, env, lv2, fs, ne, Deeper(dp, n, Len(ne)))
    <2>1. /\ n = Len(stack) /\ Grows(env, env) /\ SameBelow(lv, old, lv2, ne, dp[n])
          /\ FrameFits(tree, E, Z, env, lv2, ne, dp[n], g)
      BY ONLY <1>1, <1>5, <1>11, <1>17, <1>25, <1>26 DEF Grows
    <2>2. Len(ne) = dp[n] + Steps(tree, g) /\ Len(ne) \in Nat /\ E[y] = lv2[Len(ne)]
      BY ONLY <1>11, <1>17, <1>21, <1>22, <1>24, <1>27
    <2>. QED BY ONLY <1>5, <1>13, <1>23, <1>27, <2>1, <2>2, EnterLinks
  <1>29. p2.block \in 1..c /\ Inserts(table[p2.block], p2.behind) /\ mid[p2.block] = lv2[Len(ne)]
    BY ONLY <1>12, <1>15, <1>21, <1>22
  <1>30. Fits(tree, E, Z, env, mid, lv2, Deeper(dp, n, Len(ne)), fs, table, c, p2, ne)
    BY ONLY <1>13, <1>14, <1>20, <1>28, <1>29 DEF Fits
  <1>. QED BY ONLY <1>7, <1>30 DEF Fitted, Fitting

-----------------------------------------------------------------------------
(* The walk starts with one block and no loop around it.                   *)

\* What the passes leave has the right shape.
LEMMA PassesKeepShape ==
    ASSUME NEW raw \in Tree, Shape(raw), Accepted(raw),
           NEW released, released = AddFreeNodes(raw, FALSE),
           NEW tree, tree = ExitPruned(ReturnPruned(released))
    PROVE  tree \in Tree /\ Shape(tree) /\ NoLooseExit(tree)
  <1>1. NoLooseExit(raw)
    BY NoLooseExitIsAccepted DEF Accepted
  <1>2. ParentsFirst(raw)
    BY DEF Shape
  <1>3. released \in Tree /\ \E W : ReleasesAt(raw, released, W, FALSE)
    BY <1>2, AddFreeNodesProps
  <1>4. Shape(released) /\ NoLooseExit(released)
    BY <1>1, <1>3, ReleasesKeepShape
  <1>5. PICK middle : middle = ReturnPruned(released)
    OBVIOUS
  <1>6. Shortened(released, middle) /\ middle \in Tree
    BY <1>3, <1>4, <1>5, ReturnPrunedProps DEF Shortened, Shape
  <1>7. Shape(middle) /\ NoLooseExit(middle)
    BY <1>3, <1>4, <1>6, ShortenedKeepsShape
  <1>8. Shortened(middle, tree) /\ tree \in Tree
    BY <1>5, <1>6, <1>7, ExitPrunedProps DEF Shortened, Shape
  <1>9. Shape(tree) /\ NoLooseExit(tree)
    BY <1>6, <1>7, <1>8, ShortenedKeepsShape
  <1>. QED BY <1>8, <1>9

\* After the passes every exit of the tree still has a loop to leave.
LEMMA PassesLeaveLoopFacts ==
    ASSUME NEW raw \in Tree, Shape(raw), Accepted(raw),
           NEW released, released = AddFreeNodes(raw, FALSE),
           NEW tree, tree = ExitPruned(ReturnPruned(released))
    PROVE  \E E, Z : LoopFacts(tree, E, Z)
  BY PassesKeepShape, TreeHasLoopFacts

\* When the code generator starts, its one empty block fits.
LEMMA EmissionFits ==
    ASSUME NEW tree, NEW E, NEW Z, LoopFacts(tree, E, Z), NEW fs, fs = <<Visit(Root)>>,
           NEW table, table = [b \in 1..1 |-> <<>>], NEW p, p = [block |-> 1, behind |-> 0],
           NEW c, c = 1, NEW ne, ne = <<>>
    PROVE  \E env, mid, lv, dp : Fits(tree, E, Z, env, mid, lv, dp, fs, table, c, p, ne)
  <1>1. PICK env : env = [b \in 1..1 |-> {}]
    OBVIOUS
  <1>2. PICK lv : lv = [k \in 0..0 |-> {}]
    OBVIOUS
  <1>3. PICK dp : dp = [k \in 1..1 |-> 0]
    OBVIOUS
  <1>4. DOMAIN env = 1..1 /\ env[1] = {} /\ lv[0] = {} /\ dp[1] = 0 /\ 1 \in 1..1
    BY <1>1, <1>2, <1>3
  <1>5. \A k \in 1..1 : k = 1 /\ ~(k > 1) /\ ~(k < 1)
    OBVIOUS
  <1>6. Labels(env, env, 1)
    BY ONLY <1>4 DEF Labels
  <1>7. /\ SeqFits(tree, env, {}, <<>>) /\ ~StartsWith(<<>>, "save") /\ Inserts(<<>>, 0)
        /\ Len(<<>>) = 0 /\ IsSeq(<<>>)
    BY FittingTuples, EmptyFits, Tuples DEF Insertable
  <1>8. DOMAIN table = 1..1 /\ table[1] = <<>>
    BY ONLY table = [b \in 1..1 |-> <<>>]
  <1>9. TableFits(tree, env, env, table, 1)
    <2>1. BlockFits(tree, env, {}, {}, <<>>)
      BY ONLY <1>7 DEF BlockFits
    <2>. QED BY ONLY <1>4, <1>5, <1>8, <2>1 DEF TableFits
  <1>10. NestFits(tree, env, <<>>, lv)
    <2>1. \A k : k \notin 1..0
      OBVIOUS
    <2>2. \A k \in 0..0 : k = 0
      OBVIOUS
    <2>. QED BY ONLY <1>4, <1>7, <2>1, <2>2 DEF NestFits
  <1>11. PICK f : f = Visit(Root)
    OBVIOUS
  <1>12. f \in CFrame /\ f.block = Root /\ f.visiting = 0
    BY <1>11, VisitProps, RootIsBlock
  <1>13. fs \in Seq(CFrame) /\ Len(fs) = 1 /\ fs[1] = f
    BY <1>11, <1>12
  <1>14. ~Owns(tree, f) /\ Steps(tree, f) = 0
    BY ONLY <1>12 DEF Owns, Steps
  <1>15. FrameFits(tree, E, Z, env, lv, <<>>, 0, f)
    <2>1. 0 \in Nat
      OBVIOUS
    <2>. QED BY ONLY <1>4, <1>12, <1>14, <2>1, LoopFacts(tree, E, Z) DEF FrameFits, LoopFacts
  <1>16. Linked(tree, E, Z, env, lv, fs, <<>>, dp)
    <2>1. 1 > 0 /\ 0 + 0 = 0
      OBVIOUS
    <2>. QED BY ONLY <1>4, <1>5, <1>7, <1>13, <1>14, <1>15, <2>1 DEF Linked
  <1>17. p.block = 1 /\ p.behind = 0
    OBVIOUS
  <1>18. Fits(tree, E, Z, env, env, lv, dp, fs, table, 1, p, <<>>)
    BY ONLY <1>4, <1>6, <1>7, <1>8, <1>9, <1>10, <1>16, <1>17, LoopFacts(tree, E, Z) DEF Fits
  <1>. QED BY <1>18

\* The last pass before leaves a tree for which that is so.
LEMMA PrepareFits ==
    ASSUME EmitInv, Prepare, pass' = "emit"
    PROVE  Fitted'
  <1>1. /\ pass = "build" /\ BuilderTypeOK /\ BuildInv /\ Fresh /\ Accepted(stat_nodes)
    BY DEF Prepare, EmitInv
  <1>2. PICK raw \in Tree : raw = stat_nodes
    BY <1>1 DEF BuilderTypeOK
  <1>3. PICK released : released = AddFreeNodes(raw, FALSE)
    OBVIOUS
  <1>4. PICK tree : tree = ExitPruned(ReturnPruned(released))
    OBVIOUS
  <1>5. Shape(raw) /\ Accepted(raw)
    BY <1>1, <1>2 DEF BuildInv
  <1>6. PICK E, Z : LoopFacts(tree, E, Z)
    BY <1>3, <1>4, <1>5, PassesLeaveLoopFacts
  <1>7. /\ stat_nodes' = tree /\ frames' = <<Visit(Root)>> /\ ops' = ops /\ created' = created
        /\ point' = point /\ nested' = nested
    BY <1>1, <1>2, <1>3, <1>4, Prepared
  <1>8. /\ ops = [b \in 1..1 |-> <<>>] /\ created = 1 /\ point = [block |-> 1, behind |-> 0]
        /\ nested = <<>>
    BY <1>1 DEF Fresh
  <1>9. PICK fs : fs = frames'
    OBVIOUS
  <1>10. PICK table : table = ops
    OBVIOUS
  <1>11. PICK p : p = point
    OBVIOUS
  <1>12. PICK c : c = created
    OBVIOUS
  <1>13. PICK ne : ne = nested
    OBVIOUS
  <1>14. PICK env, mid, lv, dp : Fits(tree, E, Z, env, mid, lv, dp, fs, table, c, p, ne)
    BY ONLY <1>6, <1>7, <1>8, <1>9, <1>10, <1>11, <1>12, <1>13, EmissionFits
  <1>15. Fitting(E, Z, env, mid, lv, dp)'
    BY ONLY <1>7, <1>9, <1>10, <1>11, <1>12, <1>13, <1>14 DEF Fitting
  <1>. QED BY <1>15 DEF Fitted

-----------------------------------------------------------------------------
(* The execution of the blocks: the loops whose stack pointer is saved are *)
(* those the labels of the block say, and the operation before.            *)

Running(tree, env, mid, table, c, p, S) ==
    /\ Labels(env, mid, c) /\ TableFits(tree, env, mid, table, c)
    /\ p = Stopped \/ Executing(tree, env, mid, table, c, p, S)

\* The saved stack pointers while the subroutine is executed.
RunInv == pass = "run" => \E env, mid : Running(stat_nodes, env, mid, ops, created, at, saved)

SavedInv ==
    /\ pass \in {"build", "emit"} => saved = {} /\ at = Stopped
    /\ pass = "emit" => Fitted
    /\ RunInv

\* With the invariant a save and a restore are where they may be.
LEMMA SavedInvBalances ==
    ASSUME SavedInv
    PROVE  StackBalanced
  <1>. SUFFICES ASSUME CanStep
                PROVE  /\ OpAt(at).kind = "save"    => OpAt(at).loop \notin saved
                       /\ OpAt(at).kind = "restore" => OpAt(at).loop \in saved
                       /\ OpAt(at).stat # NoStat =>
                            saved = LoopsHolding(stat_nodes, OpAt(at).stat[1])
    BY DEF StackBalanced
  <1>1. PICK env, mid : Running(stat_nodes, env, mid, ops, created, at, saved)
    BY DEF CanStep, SavedInv, RunInv
  <1>2. /\ TableFits(stat_nodes, env, mid, ops, created)
        /\ Executing(stat_nodes, env, mid, ops, created, at, saved)
    BY <1>1 DEF CanStep, Running
  <1>3. PICK M : M = mid[at.block]
    OBVIOUS
  <1>4. PICK prev : prev = Previous(ops[at.block], at.pc)
    OBVIOUS
  <1>5. PICK op : op = OpAt(at) /\ op = ops[at.block][at.pc]
    BY DEF OpAt
  <1>6. OpFinds(stat_nodes, M, prev, op, saved)
    <2>1. PICK s : s = ops[at.block]
      OBVIOUS
    <2>2. op = s[at.pc] /\ prev = Previous(s, at.pc)
      BY <1>4, <1>5, <2>1
    <2>. QED BY ONLY <1>2, <1>3, <2>1, <2>2, Finds
  <1>. QED BY ONLY <1>5, <1>6 DEF OpFinds

\* Executing an operation keeps the stack pointers as the labels say.
LEMMA ExecuteKeepsRunInv ==
    ASSUME SavedInv, Execute
    PROVE  RunInv'
  <1>0. CanStep /\ pass = "run"
    BY DEF Execute, ExecuteOp, ExecuteBranch, ExecuteReturn, CanStep
  <1>1. /\ stat_nodes' = stat_nodes /\ ops' = ops /\ created' = created /\ pass' = pass
    BY DEF Execute, ExecuteOp, ExecuteBranch, ExecuteReturn, ExecUnchanged, builderVars, emitVars
  <1>2. PICK env, mid : Running(stat_nodes, env, mid, ops, created, at, saved)
    BY <1>0 DEF SavedInv, RunInv
  <1>3. /\ Labels(env, mid, created) /\ TableFits(stat_nodes, env, mid, ops, created)
        /\ Executing(stat_nodes, env, mid, ops, created, at, saved)
    BY <1>0, <1>2 DEF CanStep, Running
  <1>4. PICK table, p, S, c, tree : /\ table = ops /\ p = at /\ S = saved
                                    /\ c = created /\ tree = stat_nodes
    OBVIOUS
  <1>5. PICK s : s = table[p.block]
    OBVIOUS
  <1>6. PICK M : M = mid[p.block]
    OBVIOUS
  <1>7. PICK prev : prev = Previous(s, p.pc)
    OBVIOUS
  <1>8. PICK op : op = s[p.pc]
    OBVIOUS
  <1>9. OpFinds(tree, M, prev, op, S) /\ OpFits(tree, env, M, prev, op) /\ IsSeq(s)
    BY ONLY <1>3, <1>4, <1>5, <1>6, <1>7, <1>8, Finds
  <1>10. /\ p \in [block: Nat, pc: Nat] /\ p.block \in 1..c /\ p.pc \in 1..Len(s)
         /\ OpAt(at) = op
    BY ONLY <1>3, <1>4, <1>5, <1>8 DEF Executing, OpAt
  <1>11. \A b \in 1..c : HasTerminator(table[b]) /\ IsSeq(table[b])
    <2>1. \A b \in 1..c : HasTerminator(table[b])
      BY ONLY <1>0, <1>4 DEF CanStep, Verified, WellFormed
    <2>2. \A b \in 1..c : IsSeq(table[b])
      BY ONLY <1>3, <1>4 DEF TableFits, BlockFits, SeqFits
    <2>. QED BY ONLY <2>1, <2>2
  <1>12. SUFFICES ASSUME at' # Stopped
         PROVE  Executing(tree, env, mid, table, c, at', saved')
    BY <1>1, <1>3, <1>4 DEF RunInv, Running
  <1>13. CASE ExecuteOp
    <2>1. op.kind \in {"op", "save", "restore"} /\ at' = Advance(at)
      BY <1>10, <1>13 DEF ExecuteOp
    <2>2. saved' = CASE op.kind = "save"    -> (S \cap LoopsAround(tree, op.loop)) \cup {op.loop}
                     [] op.kind = "restore" -> S \cap LoopsAround(tree, op.loop)
                     [] OTHER               -> S
      BY <1>4, <1>10, <1>13 DEF ExecuteOp, Around
    <2>3. saved' = Behind(tree, M, op)
      BY ONLY <1>9, <2>1, <2>2 DEF OpFinds
    <2>4. ~IsTerminator(op)
      BY ONLY <2>1 DEF IsTerminator, TerminatorKind
    <2>5. HasTerminator(s)
      BY ONLY <1>5, <1>10, <1>11
    <2>6. p.pc + 1 \in 1..Len(s)
      BY ONLY <1>8, <1>9, <1>10, <2>4, <2>5, BlocksGoOn
    <2>7. PICK q : q = at'
      OBVIOUS
    <2>8. q = [p EXCEPT !.pc = p.pc + 1]
      BY ONLY <1>4, <2>1, <2>7 DEF Advance
    <2>9. q \in [block: Nat, pc: Nat] /\ q.block = p.block /\ q.pc = p.pc + 1
      BY ONLY <1>10, <2>8
    <2>10. p.pc \in Nat /\ p.pc >= 1 /\ q.pc # 1 /\ q.pc > 1 /\ q.pc - 1 = p.pc
      <3>1. PICK i \in Nat : i = p.pc
        BY ONLY <1>10
      <3>2. PICK n \in Nat : n = Len(s)
        BY ONLY <1>9, SeqProps
      <3>3. i \in 1..n
        BY ONLY <1>10, <3>1, <3>2
      <3>. QED BY ONLY <2>9, <3>1, <3>3
    <2>11. Previous(s, q.pc) = op
      BY ONLY <1>8, <2>10 DEF Previous
    <2>12. Expected(tree, env, mid, table, q) = Behind(tree, M, op)
      BY ONLY <1>5, <1>6, <2>9, <2>10, <2>11 DEF Expected
    <2>13. q.block \in 1..c /\ q.pc \in 1..Len(table[q.block])
      BY ONLY <1>5, <1>10, <2>6, <2>9
    <2>14. Executing(tree, env, mid, table, c, q, saved')
      BY ONLY <2>3, <2>9, <2>12, <2>13 DEF Executing
    <2>. QED BY ONLY <2>7, <2>14
  <1>14. CASE ExecuteBranch
    <2>1. PICK b \in op.to : at' = [block |-> b, pc |-> 1]
      BY <1>10, <1>14 DEF ExecuteBranch
    <2>2. saved' = S
      BY <1>4, <1>14 DEF ExecuteBranch
    <2>3. op.kind = "br" /\ b \in Goes(env, Behind(tree, M, prev))
      BY ONLY <1>9, <2>1 DEF OpFits
    <2>4. S = Behind(tree, M, prev)
      BY ONLY <1>9, <2>3 DEF OpFinds
    <2>5. b \in 1..c /\ env[b] = S
      BY ONLY <1>3, <1>4, <2>3, <2>4 DEF Labels, Goes
    <2>6. 1 \in 1..Len(table[b])
      BY ONLY <1>11, <2>5, BlocksGoOn
    <2>7. b \in Nat
      BY <1>3, <1>4, <2>5 DEF Labels
    <2>8. PICK q : q = at'
      OBVIOUS
    <2>9. q \in [block: Nat, pc: Nat] /\ q.block = b /\ q.pc = 1
      BY ONLY <2>1, <2>7, <2>8
    <2>10. Expected(tree, env, mid, table, q) = S
      BY ONLY <2>5, <2>9 DEF Expected
    <2>11. Executing(tree, env, mid, table, c, q, saved')
      BY ONLY <2>2, <2>5, <2>6, <2>9, <2>10 DEF Executing
    <2>. QED BY ONLY <2>8, <2>11
  <1>15. CASE ExecuteReturn
    BY <1>12, <1>15 DEF ExecuteReturn
  <1>. QED BY <1>13, <1>14, <1>15 DEF Execute

\* The walk keeps the labels, and at its end the execution starts.
LEMMA EmitKeepsSavedInv ==
    ASSUME EmitInv, EmitInv', SavedInv, Emit
    PROVE  SavedInv'
  <1>1. pass = "emit"
    BY DEF Emit, EmitLeaf, EmitBlock, EmitLoopStart, EmitLoopEnd, EmitCondStart, EmitCondElse,
           EmitCondEnd, LeaveBlock, AtStat
  <1>2. PICK R \in SUBSET Block, Y \in SUBSET Block : Walking(R, Y)
    BY <1>1 DEF EmitInv
  <1>3. PICK E, Z, env, mid, lv, dp : Fitting(E, Z, env, mid, lv, dp)
    BY <1>1 DEF SavedInv, Fitted
  <1>4. saved = {} /\ at = Stopped
    BY <1>1 DEF SavedInv
  <1>5. ASSUME Fitted', UNCHANGED <<pass, execVars>> PROVE SavedInv'
    <2>1. pass' = "emit" /\ saved' = {} /\ at' = Stopped
      BY <1>1, <1>4, <1>5 DEF execVars
    <2>. QED BY <1>5, <2>1 DEF SavedInv, RunInv
  <1>6. CASE EmitLeaf
    <2>1. Fitting(E, Z, env, mid, lv, dp)'
      BY <1>2, <1>3, <1>6, LeafKeepsFitting
    <2>2. Fitted'
      BY <2>1 DEF Fitted
    <2>. QED BY <1>5, <1>6, <2>2 DEF EmitLeaf, EmitUnchanged
  <1>7. CASE EmitBlock
    <2>1. \E dp2 : Fitting(E, Z, env, mid, lv, dp2)'
      BY <1>2, <1>3, <1>7, BlockKeepsFitting
    <2>2. Fitted'
      BY <2>1 DEF Fitted
    <2>. QED BY <1>5, <1>7, <2>2 DEF EmitBlock, EmitUnchanged
  <1>8. CASE EmitLoopStart
    <2>1. Fitted'
      BY <1>2, <1>3, <1>8, LoopStartKeepsFitted
    <2>. QED BY <1>5, <1>8, <2>1 DEF EmitLoopStart, EmitUnchanged
  <1>9. CASE EmitLoopEnd
    <2>1. Fitted'
      BY <1>2, <1>3, <1>9, LoopEndKeepsFitted
    <2>. QED BY <1>5, <1>9, <2>1 DEF EmitLoopEnd, EmitUnchanged
  <1>10. CASE EmitCondStart
    <2>1. Fitted'
      BY <1>2, <1>3, <1>10, CondStartKeepsFitted
    <2>. QED BY <1>5, <1>10, <2>1 DEF EmitCondStart, EmitUnchanged
  <1>11. CASE EmitCondElse
    <2>1. Fitted'
      BY <1>2, <1>3, <1>11, CondElseKeepsFitted
    <2>. QED BY <1>5, <1>11, <2>1 DEF EmitCondElse, EmitUnchanged
  <1>12. CASE EmitCondEnd
    <2>1. Fitted'
      BY <1>2, <1>3, <1>12, CondEndKeepsFitted
    <2>. QED BY <1>5, <1>12, <2>1 DEF EmitCondEnd, EmitUnchanged
  <1>13. CASE LeaveBlock /\ Len(frames) # 1
    <2>1. Fitting(E, Z, env, mid, lv, dp)'
      BY <1>2, <1>3, <1>13, LeaveKeepsFitting
    <2>2. Fitted'
      BY <2>1 DEF Fitted
    <2>3. pass' = pass /\ at' = at /\ executed' = executed /\ saved' = saved
      BY <1>13 DEF LeaveBlock
    <2>. QED BY <1>5, <2>2, <2>3 DEF execVars
  <1>14. CASE LeaveBlock /\ Len(frames) = 1
    <2>1. /\ pass' = "run" /\ at' = [block |-> 1, pc |-> 1] /\ saved' = {}
          /\ stat_nodes' = stat_nodes /\ ops' = ops /\ created' = created
      BY <1>4, <1>14 DEF LeaveBlock, builderVars
    <2>2. Labels(env, mid, created) /\ TableFits(stat_nodes, env, mid, ops, created)
      BY <1>3 DEF Fitting, Fits
    <2>3. 1 \in 1..created /\ env[1] = {}
      BY <2>2 DEF Labels
    <2>4. HasTerminator(ops[1]) /\ IsSeq(ops[1])
      <3>1. Verified'
        BY <2>1 DEF EmitInv
      <3>2. HasTerminator(ops[1])
        BY <2>1, <2>3, <3>1 DEF Verified, WellFormed
      <3>. QED BY <2>2, <2>3, <3>2 DEF TableFits, BlockFits, SeqFits
    <2>5. 1 \in 1..Len(ops[1])
      BY <2>4, BlocksGoOn
    <2>6. PICK q : q = at'
      OBVIOUS
    <2>7. q \in [block: Nat, pc: Nat] /\ q.block = 1 /\ q.pc = 1
      BY ONLY <2>1, <2>6
    <2>8. Executing(stat_nodes, env, mid, ops, created, q, {})
      BY ONLY <2>3, <2>5, <2>7 DEF Executing, Expected
    <2>9. Running(stat_nodes, env, mid, ops, created, q, {})
      BY ONLY <2>2, <2>8 DEF Running
    <2>10. RunInv'
      BY ONLY <2>1, <2>6, <2>9 DEF RunInv
    <2>. QED BY <2>1, <2>10 DEF SavedInv
  <1>. QED BY <1>6, <1>7, <1>8, <1>9, <1>10, <1>11, <1>12, <1>13, <1>14 DEF Emit

\* The steps of the passes before and of the execution.
LEMMA OthersKeepSavedInv ==
    ASSUME EmitInv, SavedInv, Building \/ Prepare \/ Execute \/ UNCHANGED vars
    PROVE  SavedInv'
  <1>1. CASE Building
    BY <1>1 DEF Building, execVars, SavedInv, RunInv
  <1>2. CASE Prepare
    <2>1. saved' = {} /\ at' = Stopped /\ pass' \in {"emit", "rejected"}
      BY <1>2, Prepared DEF Prepare, execVars, SavedInv
    <2>2. pass' = "emit" => Fitted'
      BY <1>2, PrepareFits
    <2>. QED BY <2>1, <2>2 DEF SavedInv, RunInv
  <1>3. CASE Execute
    <2>1. pass' = "run"
      BY <1>3 DEF Execute, ExecuteOp, ExecuteBranch, ExecuteReturn, CanStep, ExecUnchanged
    <2>2. RunInv'
      BY <1>3, ExecuteKeepsRunInv
    <2>. QED BY <2>1, <2>2 DEF SavedInv
  <1>4. CASE UNCHANGED vars
    <2>1. /\ stat_nodes' = stat_nodes /\ pass' = pass /\ frames' = frames /\ ops' = ops
          /\ created' = created /\ point' = point /\ nested' = nested /\ at' = at /\ saved' = saved
      BY <1>4 DEF vars, builderVars, emitVars, execVars
    <2>2. ASSUME Fitted PROVE Fitted'
      <3>1. PICK E, Z, env, mid, lv, dp : Fitting(E, Z, env, mid, lv, dp)
        BY <2>2 DEF Fitted
      <3>2. Fitting(E, Z, env, mid, lv, dp)'
        BY ONLY <2>1, <3>1 DEF Fitting
      <3>. QED BY <3>2 DEF Fitted
    <2>3. RunInv'
      BY <2>1 DEF SavedInv, RunInv
    <2>. QED BY <2>1, <2>2, <2>3 DEF SavedInv
  <1>. QED BY <1>1, <1>2, <1>3, <1>4

(***************************************************************************)
(* Whatever the statements of such a text, an execution of the blocks      *)
(* saves the stack pointer of a loop again only when it was restored since *)
(* and restores it only when it was saved since, however the turns of the  *)
(* loops end: the restores CodeGenASTWalker emits in front of a break, a   *)
(* continue and the end of a body are those of the loop around, and the    *)
(* branches "in case" it takes back take none of them with them that is    *)
(* needed.  While an operation of a statement is executed, the stack       *)
(* pointers of exactly the loops around the statement are saved.  This     *)
(* holds for every bound on blocks and statements.                         *)
(***************************************************************************)
THEOREM StackStaysBalanced ==
    ASSUME Text = "separate"
    PROVE  Spec => []StackBalanced
  <1>1. Init => EmitInv /\ SavedInv
    <2>. SUFFICES ASSUME Init PROVE EmitInv /\ SavedInv
      OBVIOUS
    <2>1. SavedInv
      BY DEF Init, SavedInv, RunInv
    <2>. QED BY <2>1, EmitInvInit
  <1>2. EmitInv /\ SavedInv /\ [Next]_vars => EmitInv' /\ SavedInv'
    <2>. SUFFICES ASSUME EmitInv, SavedInv, [Next]_vars PROVE EmitInv' /\ SavedInv'
      OBVIOUS
    <2>1. EmitInv'
      BY NextKeepsEmitInv
    <2>2. CASE Emit
      BY <2>1, <2>2, EmitKeepsSavedInv
    <2>3. CASE Building \/ Prepare \/ Execute \/ Done \/ UNCHANGED vars
      <3>1. Building \/ Prepare \/ Execute \/ UNCHANGED vars
        BY <2>3 DEF Done
      <3>. QED BY <2>1, <3>1, OthersKeepSavedInv
    <2>. QED BY <2>1, <2>2, <2>3 DEF Next
  <1>3. SavedInv => StackBalanced
    BY SavedInvBalances
  <1>. QED BY <1>1, <1>2, <1>3, PTL DEF Spec

-----------------------------------------------------------------------------
(* What the operations of a block may be followed by.                      *)

\* What may come behind operation op, when a may come before it.
Out(tree, a, op) == IF op.stat = NoStat THEN a ELSE NextStatements(tree, op.stat, Visible)

(***************************************************************************)
(* env has, for each MLIR block, statements that may come when it is       *)
(* entered.  Operation op takes control from where a may come to where z   *)
(* may: behind a terminator nothing does.                                  *)
(***************************************************************************)
OpFlows(tree, env, a, op, z) ==
    /\ op.stat # NoStat => op.stat \in a
    /\ \A c \in op.to : c \in DOMAIN env /\ env[c] \subseteq a
    /\ IsTerminator(op) \/ z \subseteq Out(tree, a, op)

FlowsBy(tree, env, a, s, z, w) ==
    /\ w[1] \subseteq a /\ z \subseteq w[Len(s) + 1]
    /\ \A i \in 1..Len(s) : OpFlows(tree, env, w[i], s[i], w[i + 1])

Flows(tree, env, a, s, z) == IsSeq(s) /\ \E w : FlowsBy(tree, env, a, s, z, w)

\* A block may be entered where more may come, and left where less may.
LEMMA OpFlowsWeaker ==
    ASSUME NEW tree, NEW env, NEW a, NEW op, NEW z, OpFlows(tree, env, a, op, z),
           NEW z2, z2 \subseteq z
    PROVE  OpFlows(tree, env, a, op, z2)
  BY DEF OpFlows

\* So may a sequence of operations.
LEMMA FlowsWeaker ==
    ASSUME NEW tree, NEW env, NEW a, NEW s, NEW z, Flows(tree, env, a, s, z),
           NEW a2, a \subseteq a2, NEW z2, z2 \subseteq z
    PROVE  Flows(tree, env, a2, s, z2)
  <1>1. PICK w : FlowsBy(tree, env, a, s, z, w)
    BY DEF Flows
  <1>2. FlowsBy(tree, env, a2, s, z2, w)
    BY <1>1 DEF FlowsBy
  <1>. QED BY <1>2 DEF Flows

\* No operation.
LEMMA FlowsNothing ==
    ASSUME NEW tree, NEW env, NEW a, NEW z, z \subseteq a
    PROVE  Flows(tree, env, a, <<>>, z)
  <1>1. PICK s : s = <<>>
    OBVIOUS
  <1>2. IsSeq(s) /\ Len(s) = 0
    BY ONLY <1>1, Tuples
  <1>3. PICK w : w = [i \in 1..1 |-> a]
    OBVIOUS
  <1>4. w[1] = a
    BY ONLY <1>3
  <1>5. 0 + 1 = 1 /\ \A i : i \notin 1..0
    OBVIOUS
  <1>6. FlowsBy(tree, env, a, s, z, w)
    BY ONLY <1>2, <1>4, <1>5, z \subseteq a DEF FlowsBy
  <1>7. Flows(tree, env, a, s, z)
    BY ONLY <1>2, <1>6 DEF Flows
  <1>. QED BY ONLY <1>1, <1>7

\* One operation.
LEMMA FlowsOne ==
    ASSUME NEW tree, NEW env, NEW a, NEW op, NEW z, OpFlows(tree, env, a, op, z)
    PROVE  Flows(tree, env, a, <<op>>, z)
  <1>1. PICK s : s = <<op>>
    OBVIOUS
  <1>2. IsSeq(s) /\ Len(s) = 1 /\ s[1] = op
    BY ONLY <1>1, Tuples
  <1>3. PICK w : w = [i \in 1..2 |-> IF i = 1 THEN a ELSE z]
    OBVIOUS
  <1>4. w[1] = a /\ w[2] = z
    BY ONLY <1>3
  <1>5. 1 + 1 = 2 /\ \A i \in 1..1 : i = 1
    OBVIOUS
  <1>6. FlowsBy(tree, env, a, s, z, w)
    BY ONLY <1>2, <1>4, <1>5, OpFlows(tree, env, a, op, z) DEF FlowsBy
  <1>7. Flows(tree, env, a, s, z)
    BY ONLY <1>2, <1>6 DEF Flows
  <1>. QED BY ONLY <1>1, <1>7

\* One sequence behind another.
LEMMA FlowsConcat ==
    ASSUME NEW tree, NEW env, NEW a, NEW s, NEW m, Flows(tree, env, a, s, m),
           NEW t, NEW z, Flows(tree, env, m, t, z)
    PROVE  Flows(tree, env, a, s \o t, z)
  <1>1. IsSeq(s) /\ IsSeq(t)
    BY DEF Flows
  <1>2. PICK v : FlowsBy(tree, env, a, s, m, v)
    BY DEF Flows
  <1>3. PICK w : FlowsBy(tree, env, m, t, z, w)
    BY DEF Flows
  <1>4. PICK S : s \in Seq(S) /\ t \in Seq(S)
    BY <1>1, SameUniverse
  <1>5. PICK all : all = s \o t
    OBVIOUS
  <1>6. PICK k \in Nat : k = Len(s)
    BY <1>4
  <1>7. PICK n \in Nat : n = Len(t)
    BY <1>4
  <1>8. /\ all \in Seq(S) /\ Len(all) = k + n
        /\ \A i \in 1..k : all[i] = s[i]
        /\ \A i \in 1..n : all[k + i] = t[i]
    BY ONLY <1>4, <1>5, <1>6, <1>7, ConcatAt
  <1>9. PICK u : u = [i \in 1..(k + n + 1) |-> IF i <= k THEN v[i] ELSE w[i - k]]
    OBVIOUS
  <1>10. /\ \A i \in 1..k : u[i] = v[i]
         /\ \A i \in 1..(n + 1) : u[k + i] = w[i]
    <2>1. ASSUME NEW i \in 1..k PROVE u[i] = v[i]
      <3>1. i \in 1..(k + n + 1) /\ i <= k
        BY <1>6, <1>7
      <3>. QED BY ONLY <1>9, <3>1
    <2>2. ASSUME NEW i \in 1..(n + 1) PROVE u[k + i] = w[i]
      <3>1. k + i \in 1..(k + n + 1) /\ ~(k + i <= k) /\ (k + i) - k = i
        BY <1>6, <1>7
      <3>. QED BY ONLY <1>9, <3>1
    <2>. QED BY <2>1, <2>2
  <1>11. w[1] \subseteq m /\ m \subseteq v[k + 1] /\ v[1] \subseteq a /\ z \subseteq w[n + 1]
    BY ONLY <1>2, <1>3, <1>6, <1>7 DEF FlowsBy
  <1>12. u[1] \subseteq a
    <2>1. CASE k = 0
      <3>1. 1 \in 1..(n + 1) /\ k + 1 = 1
        BY <1>7, <2>1
      <3>. QED BY ONLY <1>10, <1>11, <3>1
    <2>2. CASE k # 0
      <3>1. 1 \in 1..k
        BY <1>6, <2>2
      <3>. QED BY ONLY <1>10, <1>11, <3>1
    <2>. QED BY <2>1, <2>2
  <1>13. z \subseteq u[(k + n) + 1]
    <2>1. n + 1 \in 1..(n + 1) /\ k + (n + 1) = (k + n) + 1
      BY <1>6, <1>7
    <2>. QED BY ONLY <1>10, <1>11, <2>1
  <1>14. ASSUME NEW i \in 1..(k + n)
         PROVE  OpFlows(tree, env, u[i], all[i], u[i + 1])
    <2>1. CASE i \in 1..k
      <3>1. OpFlows(tree, env, v[i], s[i], v[i + 1])
        BY ONLY <1>2, <1>6, <2>1 DEF FlowsBy
      <3>2. u[i + 1] \subseteq v[i + 1]
        <4>1. CASE i = k
          <5>1. 1 \in 1..(n + 1)
            BY <1>7
          <5>2. u[k + 1] = w[1]
            BY ONLY <1>10, <5>1
          <5>. QED BY ONLY <1>11, <4>1, <5>2
        <4>2. CASE i # k
          <5>1. i + 1 \in 1..k
            BY <1>6, <2>1, <4>2
          <5>. QED BY ONLY <1>10, <5>1
        <4>. QED BY <4>1, <4>2
      <3>3. OpFlows(tree, env, v[i], s[i], u[i + 1])
        BY ONLY <3>1, <3>2, OpFlowsWeaker
      <3>4. u[i] = v[i] /\ all[i] = s[i]
        BY ONLY <1>8, <1>10, <2>1
      <3>. QED BY ONLY <3>3, <3>4
    <2>2. CASE i \notin 1..k
      <3>1. PICK j : j = i - k
        OBVIOUS
      <3>2. j \in 1..n /\ j \in 1..(n + 1) /\ j + 1 \in 1..(n + 1) /\ k + j = i /\ k + (j + 1) = i + 1
        BY <1>6, <1>7, <2>2, <3>1
      <3>3. OpFlows(tree, env, w[j], t[j], w[j + 1])
        BY ONLY <1>3, <1>7, <3>2 DEF FlowsBy
      <3>4. u[i] = w[j] /\ all[i] = t[j]
        BY ONLY <1>8, <1>10, <3>2
      <3>5. u[i + 1] = w[j + 1]
        BY ONLY <1>10, <3>2
      <3>. QED BY ONLY <3>3, <3>4, <3>5
    <2>. QED BY <2>1, <2>2
  <1>15. FlowsBy(tree, env, a, all, z, u)
    BY ONLY <1>8, <1>12, <1>13, <1>14 DEF FlowsBy
  <1>16. Flows(tree, env, a, all, z)
    <2>1. IsSeq(all)
      BY ONLY <1>8 DEF IsSeq
    <2>. QED BY ONLY <1>15, <2>1 DEF Flows
  <1>. QED BY ONLY <1>5, <1>16

\* What is left of a block when its last operations are erased.
LEMMA FlowsPrefix ==
    ASSUME NEW tree, NEW env, NEW a, NEW s, NEW z, Flows(tree, env, a, s, z),
           NEW k \in Nat, k <= Len(s), NEW t, t = SubSeq(s, 1, k)
    PROVE  Flows(tree, env, a, t, {})
  <1>1. IsSeq(s)
    BY DEF Flows
  <1>2. PICK w : FlowsBy(tree, env, a, s, z, w)
    BY DEF Flows
  <1>3. PICK S : s \in Seq(S)
    BY <1>1 DEF IsSeq
  <1>4. PICK n \in Nat : n = Len(s)
    BY <1>3
  <1>5. t \in Seq(S) /\ Len(t) = k /\ \A i \in 1..k : t[i] = s[i]
    BY <1>3, <1>4
  <1>6. ASSUME NEW i \in 1..Len(t) PROVE OpFlows(tree, env, w[i], t[i], w[i + 1])
    <2>1. i \in 1..k /\ i \in 1..n
      BY <1>4, <1>5
    <2>2. OpFlows(tree, env, w[i], s[i], w[i + 1])
      BY ONLY <1>2, <1>4, <2>1 DEF FlowsBy
    <2>. QED BY ONLY <1>5, <2>1, <2>2
  <1>7. w[1] \subseteq a
    BY ONLY <1>2 DEF FlowsBy
  <1>8. FlowsBy(tree, env, a, t, {}, w)
    BY ONLY <1>6, <1>7 DEF FlowsBy
  <1>9. IsSeq(t)
    BY ONLY <1>5 DEF IsSeq
  <1>. QED BY ONLY <1>8, <1>9 DEF Flows

\* The clean-up of a block.
LEMMA FlowsCleaned ==
    ASSUME NEW tree, NEW env, NEW a, NEW s, Flows(tree, env, a, s, {}), NEW by_loop
    PROVE  Flows(tree, env, a, Cleaned(s, by_loop), {})
  <1>1. ASSUME NEW t, Flows(tree, env, a, t, {}), NEW n \in {1, 2}
        PROVE  Flows(tree, env, a, CleanOnce(t, n), {})
    <2>1. CASE Doubled(t, n)
      <3>1. IsSeq(t)
        BY <1>1 DEF Flows
      <3>2. PICK m \in Nat : m = Len(t)
        BY <3>1, SeqProps
      <3>3. m > n
        BY <2>1, <3>2 DEF Doubled
      <3>4. m - n \in Nat /\ m - n <= m
        BY <3>3
      <3>5. PICK u : u = SubSeq(t, 1, m - n)
        OBVIOUS
      <3>6. Flows(tree, env, a, u, {})
        BY ONLY <1>1, <3>2, <3>4, <3>5, FlowsPrefix
      <3>7. CleanOnce(t, n) = u
        BY ONLY <2>1, <3>2, <3>5 DEF CleanOnce, Erase
      <3>. QED BY ONLY <3>6, <3>7
    <2>2. CASE ~Doubled(t, n)
      BY <1>1, <2>2 DEF CleanOnce
    <2>. QED BY <2>1, <2>2
  <1>2. Flows(tree, env, a, CleanOnce(s, 2), {})
    BY <1>1
  <1>3. Flows(tree, env, a, CleanOnce(CleanOnce(s, 2), 1), {})
    BY <1>1, <1>2
  <1>. QED BY <1>3 DEF Cleaned

\* They leave a block as it is.
LEMMA FlowsGrow ==
    ASSUME NEW tree, NEW env, NEW env2, MoreLabels(env, env2),
           NEW a, NEW s, NEW z, Flows(tree, env, a, s, z)
    PROVE  Flows(tree, env2, a, s, z)
  <1>1. PICK w : FlowsBy(tree, env, a, s, z, w)
    BY DEF Flows
  <1>2. \A i \in 1..Len(s) : OpFlows(tree, env2, w[i], s[i], w[i + 1])
    BY <1>1 DEF FlowsBy, OpFlows, MoreLabels
  <1>3. FlowsBy(tree, env2, a, s, z, w)
    BY <1>1, <1>2 DEF FlowsBy
  <1>. QED BY <1>3 DEF Flows

-----------------------------------------------------------------------------
(* The block of the insertion point: what is behind the insertion point    *)
(* comes from elsewhere than what is in front of it.                       *)

PointFlows(tree, env, a, s, d, cur, dl) ==
    \E x, y : /\ s = x \o y /\ d = Len(y)
              /\ Flows(tree, env, a, x, cur) /\ Flows(tree, env, dl, y, {})

\* Something is emitted, and it is not a terminator.
LEMMA PointEmits ==
    ASSUME NEW tree, NEW env, NEW a, NEW s, NEW d, NEW cur, NEW dl,
           PointFlows(tree, env, a, s, d, cur, dl),
           NEW new, NEW cur2, Flows(tree, env, cur, new, cur2)
    PROVE  PointFlows(tree, env, a, Put(s, d, new), d, cur2, dl)
  <1>1. PICK x, y : /\ s = x \o y /\ d = Len(y)
                    /\ Flows(tree, env, a, x, cur) /\ Flows(tree, env, dl, y, {})
    BY DEF PointFlows
  <1>2. IsSeq(x) /\ IsSeq(y) /\ IsSeq(new)
    BY <1>1 DEF Flows
  <1>3. Put(s, d, new) = (x \o new) \o y
    BY ONLY <1>1, <1>2, PutParts
  <1>4. Flows(tree, env, a, x \o new, cur2)
    BY <1>1, FlowsConcat
  <1>. QED BY ONLY <1>1, <1>3, <1>4 DEF PointFlows

\* The walk leaves the block.
LEMMA PointCloses ==
    ASSUME NEW tree, NEW env, NEW a, NEW s, NEW d, NEW cur, NEW dl,
           PointFlows(tree, env, a, s, d, cur, dl), dl \subseteq cur
    PROVE  Flows(tree, env, a, s, {})
  <1>1. PICK x, y : /\ s = x \o y /\ d = Len(y)
                    /\ Flows(tree, env, a, x, cur) /\ Flows(tree, env, dl, y, {})
    BY DEF PointFlows
  <1>2. Flows(tree, env, cur, y, {})
    BY ONLY <1>1, dl \subseteq cur, FlowsWeaker
  <1>3. Flows(tree, env, a, x \o y, {})
    BY ONLY <1>1, <1>2, FlowsConcat
  <1>. QED BY ONLY <1>1, <1>3

\* The walk leaves the block with something emitted.
LEMMA PointEnds ==
    ASSUME NEW tree, NEW env, NEW a, NEW s, NEW d, NEW cur, NEW dl,
           PointFlows(tree, env, a, s, d, cur, dl),
           NEW new, Flows(tree, env, cur, new, dl)
    PROVE  Flows(tree, env, a, Put(s, d, new), {})
  <1>1. PointFlows(tree, env, a, Put(s, d, new), d, dl, dl)
    BY PointEmits
  <1>. QED BY <1>1, PointCloses

\* The walk goes on without emitting anything.
LEMMA PointMoves ==
    ASSUME NEW tree, NEW env, NEW a, NEW s, NEW d, NEW cur, NEW dl,
           PointFlows(tree, env, a, s, d, cur, dl), NEW cur2, cur2 \subseteq cur
    PROVE  PointFlows(tree, env, a, s, d, cur2, dl)
  <1>1. PICK x, y : /\ s = x \o y /\ d = Len(y)
                    /\ Flows(tree, env, a, x, cur) /\ Flows(tree, env, dl, y, {})
    BY DEF PointFlows
  <1>2. Flows(tree, env, a, x, cur2)
    BY ONLY <1>1, cur2 \subseteq cur, FlowsWeaker
  <1>. QED BY ONLY <1>1, <1>2 DEF PointFlows

\* The walk starts a block, empty or with something emitted.
LEMMA PointStarts ==
    ASSUME NEW tree, NEW env, NEW a, NEW s, NEW cur, NEW dl, Flows(tree, env, a, s, cur)
    PROVE  PointFlows(tree, env, a, s, 0, cur, dl)
  <1>1. PICK y : y = <<>>
    OBVIOUS
  <1>2. Len(y) = 0 /\ IsSeq(s)
    BY ONLY <1>1, Tuples, Flows(tree, env, a, s, cur) DEF Flows
  <1>3. s \o y = s
    <2>1. PICK S : s \in Seq(S)
      BY <1>2 DEF IsSeq
    <2>. QED BY <1>1, <2>1
  <1>4. {} \subseteq dl
    OBVIOUS
  <1>5. Flows(tree, env, dl, y, {})
    BY ONLY <1>1, <1>4, FlowsNothing
  <1>. QED BY ONLY <1>2, <1>3, <1>5, Flows(tree, env, a, s, cur) DEF PointFlows

\* More blocks.
LEMMA PointGrows ==
    ASSUME NEW tree, NEW env, NEW env2, MoreLabels(env, env2), NEW a, NEW s, NEW d, NEW cur, NEW dl,
           PointFlows(tree, env, a, s, d, cur, dl)
    PROVE  PointFlows(tree, env2, a, s, d, cur, dl)
  <1>1. PICK x, y : /\ s = x \o y /\ d = Len(y)
                    /\ Flows(tree, env, a, x, cur) /\ Flows(tree, env, dl, y, {})
    BY DEF PointFlows
  <1>2. Flows(tree, env2, a, x, cur) /\ Flows(tree, env2, dl, y, {})
    BY ONLY <1>1, MoreLabels(env, env2), FlowsGrow
  <1>. QED BY ONLY <1>1, <1>2 DEF PointFlows

-----------------------------------------------------------------------------
(* The inductive invariant: the labels say what may come, for the blocks,  *)
(* the insertion point, the frames and the entries.                        *)

\* What may come where the walk is.
CurFrom(tree, f) ==
    IF f.visiting = 0 THEN Ahead(tree, Visible, f.block, f.pc)
                      ELSE AtEnd(tree, Visible, Child(tree, f))

TableFlows(tree, env, table, c, open_blocks) ==
    /\ DOMAIN table = 1..c
    /\ \A b \in 1..c : b \notin open_blocks => Flows(tree, env, env[b], table[b], {})

FrameFlows(tree, env, f) ==
    /\ env[f.cont] = Ahead(tree, Visible, f.block, f.pc + 1)
    /\ f.visiting = 1 /\ StatAt(tree, f).alt # NoBlock =>
         env[f.els] = Ahead(tree, Visible, StatAt(tree, f).alt, 1)

EntryFlows(tree, env, e) ==
    /\ e.cont \in DOMAIN env
    /\ e.back # Null =>
         /\ e.back \in DOMAIN env
         /\ \E c, j : /\ LoopAt(tree, c, j, e.loop)
                      /\ env[e.cont] \subseteq Ahead(tree, Visible, c, j + 1)
                      /\ env[e.back] \subseteq AtEnd(tree, Visible, e.loop)

Flowing(tree, env, fs, table, c, p, ne) ==
    /\ Shape(tree) /\ DOMAIN env = 1..c /\ env[1] \subseteq Ahead(tree, Visible, Root, 1)
    /\ TableFlows(tree, env, table, c, {p.block})
    /\ PointFlows(tree, env, env[p.block], table[p.block], p.behind,
                  CurFrom(tree, Top(fs)), Default(env, ne))
    /\ \A k \in OwnersOf(tree, fs) : FrameFlows(tree, env, fs[k])
    /\ \A k \in 1..Len(ne) : EntryFlows(tree, env, ne[k])
    /\ Top(fs).visiting = 0 => Top(fs).pc <= Len(tree[Top(fs).block]) + 1

FlowsNow(env) == Flowing(stat_nodes, env, frames, ops, created, point, nested)

-----------------------------------------------------------------------------
(* What is emitted.                                                        *)

\* Two operations.
LEMMA FlowsTwo ==
    ASSUME NEW tree, NEW env, NEW a, NEW x, NEW m, OpFlows(tree, env, a, x, m),
           NEW y, NEW z, OpFlows(tree, env, m, y, z)
    PROVE  Flows(tree, env, a, <<x, y>>, z)
  <1>1. Flows(tree, env, a, <<x>>, m) /\ Flows(tree, env, m, <<y>>, z)
    BY FlowsOne
  <1>2. Flows(tree, env, a, <<x>> \o <<y>>, z)
    BY ONLY <1>1, FlowsConcat
  <1>3. <<x>> \o <<y>> = <<x, y>>
    <2>1. PICK S : x \in S /\ y \in S
      <3>1. x \in {x, y} /\ y \in {x, y}
        OBVIOUS
      <3>. QED BY ONLY <3>1
    <2>2. PICK s, t, u, v : s = <<x>> /\ t = <<y>> /\ u = s \o t /\ v = <<x, y>>
      OBVIOUS
    <2>3. s \in Seq(S) /\ t \in Seq(S) /\ Len(s) = 1 /\ Len(t) = 1 /\ s[1] = x /\ t[1] = y
      BY ONLY <2>1, <2>2
    <2>4. v \in Seq(S) /\ Len(v) = 2 /\ v[1] = x /\ v[2] = y
      BY ONLY <2>1, <2>2
    <2>5. /\ u \in Seq(S) /\ Len(u) = 1 + 1
          /\ \A i \in 1..1 : u[i] = s[i]
          /\ \A i \in 1..1 : u[1 + i] = t[i]
      BY ONLY <2>2, <2>3, ConcatAt
    <2>6. u[1] = x /\ u[1 + 1] = y /\ 1 + 1 = 2
      BY ONLY <2>3, <2>5
    <2>7. \A i \in 1..2 : u[i] = v[i]
      <3>1. \A i \in 1..2 : i = 1 \/ i = 2
        OBVIOUS
      <3>. QED BY ONLY <2>4, <2>6, <3>1
    <2>8. u = v
      BY ONLY <2>4, <2>5, <2>6, <2>7
    <2>. QED BY ONLY <2>2, <2>8
  <1>. QED BY ONLY <1>2, <1>3

\* An operation of no statement that is no terminator.
LEMMA SilentFlows ==
    ASSUME NEW tree, NEW env, NEW a, NEW z, z \subseteq a, NEW op, op.stat = NoStat, op.to = {}
    PROVE  OpFlows(tree, env, a, op, z)
  BY DEF OpFlows, Out

\* A branch, and what may be in front of it.
LEMMA BranchFlows ==
    ASSUME NEW tree, NEW env, NEW a, NEW B, \A c \in B : c \in DOMAIN env /\ env[c] \subseteq a,
           NEW z, NEW l
    PROVE  /\ OpFlows(tree, env, a, Br(B), z)
           /\ Flows(tree, env, a, <<Br(B)>>, z) /\ Flows(tree, env, a, <<Plain, Br(B)>>, z)
           /\ Flows(tree, env, a, <<Restore(l), Br(B)>>, z)
  <1>1. OpFlows(tree, env, a, Br(B), z)
    <2>1. PICK op : op = Br(B)
      OBVIOUS
    <2>2. op.to = B /\ op.stat = NoStat
      BY ONLY <2>1, OpStats, OpFields
    <2>3. IsTerminator(op)
      BY ONLY <2>1, OpProps
    <2>4. OpFlows(tree, env, a, op, z)
      BY ONLY <2>2, <2>3, \A c \in B : c \in DOMAIN env /\ env[c] \subseteq a DEF OpFlows
    <2>. QED BY ONLY <2>1, <2>4
  <1>2. OpFlows(tree, env, a, Plain, a) /\ OpFlows(tree, env, a, Restore(l), a)
    BY OpStats, OpFields, SilentFlows
  <1>. QED BY ONLY <1>1, <1>2, FlowsOne, FlowsTwo

\* Every leaf but a release that releases nothing can be seen.
LEMMA VisibleLeaves == Leaves(Visible) /\ ("free" \in Visible <=> Releases)
  BY DEF Leaves, Visible, LeafKind, ExitKind

\* Where the walk is at a statement.
Standing(tree, f, s) ==
    /\ f.block \in Parts(tree) /\ f.block \in Block /\ f.block # 0
    /\ f.pc \in DOMAIN tree[f.block] /\ s = tree[f.block][f.pc] /\ s \in Stat
    /\ f.pc + 1 <= Len(tree[f.block]) + 1
    /\ s.kind \in LeafKind => LeafPaths(tree, Visible, f.block, f.pc, s)
    /\ s.kind \notin LeafKind => OwnerPaths(tree, Visible, f.block, f.pc, s)

\* It is at the statement of the top frame.
LEMMA StandingHere ==
    ASSUME NEW R, NEW Y \in SUBSET Block, Walking(R, Y), Shape(stat_nodes), InRange(stat_nodes, F)
    PROVE  Standing(stat_nodes, F, StatAt(stat_nodes, F))
  <1>1. PICK f, n, tree, s : f = F /\ n = Len(frames) /\ tree = stat_nodes /\ s = StatAt(stat_nodes, F)
    OBVIOUS
  <1>2. Place(R, Y, f, n)
    BY <1>1, Position
  <1>3. tree \in Tree /\ ChainOK(tree, Y, frames) /\ Shape(tree)
    BY <1>1 DEF Walking, WalkOK
  <1>4. f.block \in Parts(tree)
    <2>1. f = frames[n] /\ n \in 1..Len(frames)
      BY ONLY <1>1, <1>2 DEF Place
    <2>. QED BY ONLY <1>3, <2>1, FramesInParts
  <1>5. f.block \in Block /\ f.block # 0
    <2>1. f.block \in Block
      BY <1>2 DEF Place
    <2>. QED BY <2>1, MaxBlocksAssumption DEF Block
  <1>6. s = tree[f.block][f.pc] /\ f.pc \in 1..Len(tree[f.block])
    BY <1>1, <1>2 DEF Place, StatAt
  <1>7. tree[f.block] \in Seq(Stat)
    BY <1>3, <1>5 DEF Tree
  <1>8. f.pc \in DOMAIN tree[f.block] /\ s \in Stat /\ f.pc + 1 <= Len(tree[f.block]) + 1
    BY <1>6, <1>7
  <1>9. s.kind \in LeafKind => LeafPaths(tree, Visible, f.block, f.pc, s)
    BY ONLY <1>3, <1>4, <1>6, <1>8, VisibleLeaves, LeafHasPaths
  <1>10. s.kind \notin LeafKind => OwnerPaths(tree, Visible, f.block, f.pc, s)
    BY ONLY <1>3, <1>5, <1>6, <1>8, VisibleLeaves, OwnerHasPaths
  <1>11. Standing(tree, f, s)
    BY ONLY <1>4, <1>5, <1>6, <1>8, <1>9, <1>10 DEF Standing
  <1>. QED BY ONLY <1>1, <1>11

\* The targets of an exit.
LEMMA ExitFlows ==
    ASSUME NEW R, NEW Y \in SUBSET Block, Walking(R, Y), InRange(stat_nodes, F),
           NEW E, NEW Z, NEW env, NEW mid, NEW lv, NEW dp, Fitting(E, Z, env, mid, lv, dp),
           NEW fl, FlowsNow(fl), NEW s, s = StatAt(stat_nodes, F), IsExit(s), NEW q, q = Pos
    PROVE  LET next == NextStatements(stat_nodes, q, Visible)
               e    == InnermostLoop
           IN /\ s.kind = "break" => e.cont \in DOMAIN fl /\ fl[e.cont] \subseteq next
              /\ s.kind = "continue" => e.back \in DOMAIN fl /\ fl[e.back] \subseteq next
  <1>1. PICK f, n, m, d : f = F /\ n = Len(frames) /\ m = Len(nested) /\ d = dp[n]
    OBVIOUS
  <1>2. PICK tree : tree = stat_nodes
    OBVIOUS
  <1>3. Place(R, Y, f, n) /\ Level(E, Z, env, lv, d, m, f)
    BY <1>1, Position, Levels
  <1>4. s.kind \in LeafKind /\ s.kind \in ExitKind
    BY DEF IsExit, LeafKind
  <1>5. InRange(tree, f) /\ s = StatAt(tree, f)
    BY <1>1, <1>2
  <1>6. ~Owns(tree, f)
    BY ONLY <1>2, <1>3, <1>4, <1>5 DEF Place, Inside, Owns
  <1>7. lv[m] = E[f.block] /\ E[f.block] # {}
    BY ONLY <1>2, <1>3, <1>5, <1>6, IsExit(s) DEF Level, LoopFactsAt, StatAt
  <1>8. PICK e : e = InnermostLoop
    OBVIOUS
  <1>9. E[f.block] = Turn(tree, e.loop) /\ \E k \in 1..Len(nested) : e = nested[k] /\ e.back # Null
    <2>1. NestFits(tree, env, nested, lv)
      BY <1>2 DEF Fitting, Fits
    <2>2. lv[Len(nested)] # {}
      BY ONLY <1>1, <1>7
    <2>3. /\ lv[Len(nested)] = Turn(tree, e.loop)
          /\ \E k \in 1..Len(nested) : e = nested[k] /\ e.back # Null
      BY ONLY <1>8, <2>1, <2>2, InnermostFits
    <2>. QED BY ONLY <1>1, <1>7, <2>3
  <1>10. EntryFlows(tree, fl, e) /\ e.back # Null /\ Shape(tree)
    BY <1>2, <1>9 DEF FlowsNow, Flowing
  <1>11. PICK c, j : /\ LoopAt(tree, c, j, e.loop)
                     /\ fl[e.cont] \subseteq Ahead(tree, Visible, c, j + 1)
                     /\ fl[e.back] \subseteq AtEnd(tree, Visible, e.loop)
    BY ONLY <1>10 DEF EntryFlows
  <1>12. tree \in Tree /\ LoopFacts(tree, E, Z)
    BY <1>2 DEF Walking, WalkOK, Fitting, Fits
  <1>13. Standing(tree, f, s)
    BY <1>1, <1>2, <1>5, <1>10, StandingHere
  <1>14. e.loop \in SubBlocks(tree[c][j]) /\ e.loop \in Block
    <2>1. c \in Block
      BY ONLY <1>10, <1>11, <1>12, PartsProps DEF LoopAt
    <2>2. tree[c][j] \in Stat
      BY ONLY <1>11, <1>12, <2>1, StatsOfTree DEF LoopAt
    <2>3. tree[c][j].kind \notin LeafKind
      BY ONLY <1>11 DEF LoopAt, IsLoop, LoopKind, LeafKind, ExitKind
    <2>4. e.loop \in SubBlocks(tree[c][j])
      BY ONLY <1>11, <2>2, <2>3, BodyIsSubBlock DEF LoopAt
    <2>. QED BY ONLY <2>2, <2>4, StatProps
  <1>15. LoopAround(tree, f.block) = e.loop
    BY ONLY <1>9, <1>10, <1>12, <1>13, <1>14, LoopAroundIs DEF Standing
  <1>16. q = <<f.block, f.pc>>
    BY <1>1 DEF Pos
  <1>17. LeafPaths(tree, Visible, f.block, f.pc, s)
    BY ONLY <1>4, <1>13 DEF Standing
  <1>18. PICK next : next = NextStatements(tree, q, Visible)
    OBVIOUS
  <1>19. /\ s.kind = "break" => Ahead(tree, Visible, c, j + 1) \subseteq next
         /\ s.kind = "continue" => AtEnd(tree, Visible, e.loop) \subseteq next
    BY ONLY <1>4, <1>11, <1>14, <1>15, <1>16, <1>17, <1>18 DEF LeafPaths, LoopAt
  <1>20. e.cont \in DOMAIN fl /\ e.back \in DOMAIN fl
    BY ONLY <1>10 DEF EntryFlows
  <1>21. /\ s.kind = "break" => e.cont \in DOMAIN fl /\ fl[e.cont] \subseteq next
         /\ s.kind = "continue" => e.back \in DOMAIN fl /\ fl[e.back] \subseteq next
    BY ONLY <1>11, <1>19, <1>20
  <1>. QED BY ONLY <1>2, <1>8, <1>18, <1>21

\* The operations of a statement without blocks lead to the next statement.
LEMMA LeafFlows ==
    ASSUME NEW R, NEW Y \in SUBSET Block, Walking(R, Y), InRange(stat_nodes, F),
           NEW E, NEW Z, NEW env, NEW mid, NEW lv, NEW dp, Fitting(E, Z, env, mid, lv, dp),
           NEW fl, FlowsNow(fl), NEW s, s = StatAt(stat_nodes, F), s.kind \in LeafKind,
           NEW q, q = Pos, NEW new, new = LeafOps(s, q)
    PROVE  Flows(stat_nodes, fl, Ahead(stat_nodes, Visible, F.block, F.pc), new,
                 Ahead(stat_nodes, Visible, F.block, F.pc + 1))
  <1>1. PICK f, tree : f = F /\ tree = stat_nodes
    OBVIOUS
  <1>2. PICK a, z, next : /\ a = Ahead(tree, Visible, f.block, f.pc)
                          /\ z = Ahead(tree, Visible, f.block, f.pc + 1)
                          /\ next = NextStatements(tree, q, Visible)
    OBVIOUS
  <1>3. Shape(stat_nodes)
    BY DEF FlowsNow, Flowing
  <1>4. Standing(tree, f, s)
    BY <1>1, <1>3, StandingHere
  <1>5. q = <<f.block, f.pc>> /\ q # NoStat
    BY <1>1, <1>4 DEF Pos, NoStat, Standing
  <1>6. LeafPaths(tree, Visible, f.block, f.pc, s)
    BY ONLY <1>4, s.kind \in LeafKind DEF Standing
  <1>7. /\ s.kind \in Visible => q \in a
        /\ s.kind \notin Visible => z \subseteq a
        /\ s.kind \in {"decl", "plain", "free"} => z \subseteq next
    BY ONLY <1>2, <1>5, <1>6 DEF LeafPaths
  <1>8. CASE s.kind \in {"decl", "plain", "free"}
    <2>1. CASE s.kind \in Visible
      <3>1. new = <<OpOf(q)>>
        BY <1>8, <2>1, VisibleLeaves DEF LeafOps
      <3>2. OpFlows(tree, fl, a, OpOf(q), z)
        BY <1>2, <1>5, <1>7, <1>8, <2>1, OpStats, OpFields DEF OpFlows, Out
      <3>3. Flows(tree, fl, a, new, z)
        BY ONLY <3>1, <3>2, FlowsOne
      <3>. QED BY ONLY <1>1, <1>2, <3>3
    <2>2. CASE s.kind \notin Visible
      <3>1. new = <<>>
        BY <1>8, <2>2, VisibleLeaves DEF LeafOps, Leaves
      <3>2. Flows(tree, fl, a, new, z)
        BY ONLY <1>7, <2>2, <3>1, FlowsNothing
      <3>. QED BY ONLY <1>1, <1>2, <3>2
    <2>. QED BY <2>1, <2>2
  <1>9. CASE s.kind = "return"
    <2>1. q \in a
      BY <1>7, <1>9, VisibleLeaves DEF Leaves
    <2>2. OpFlows(tree, fl, a, Return(q), z)
      <3>1. PICK op : op = Return(q)
        OBVIOUS
      <3>2. op.to = {} /\ op.stat = q
        BY ONLY <3>1, OpStats, OpFields
      <3>3. IsTerminator(op)
        BY ONLY <3>1, OpProps
      <3>4. OpFlows(tree, fl, a, op, z)
        BY ONLY <2>1, <3>2, <3>3 DEF OpFlows
      <3>. QED BY ONLY <3>1, <3>4
    <2>3. OpFlows(tree, fl, a, Plain, a)
      BY OpStats, OpFields, SilentFlows
    <2>4. Flows(tree, fl, a, <<Return(q)>>, z) /\ Flows(tree, fl, a, <<Plain, Return(q)>>, z)
      BY ONLY <2>2, <2>3, FlowsOne, FlowsTwo
    <2>5. new = <<Return(q)>> \/ new = <<Plain, Return(q)>>
      BY <1>9 DEF LeafOps
    <2>6. Flows(tree, fl, a, new, z)
      BY ONLY <2>4, <2>5
    <2>. QED BY ONLY <1>1, <1>2, <2>6
  <1>10. CASE s.kind \in ExitKind
    <2>1. PICK e : e = InnermostLoop
      OBVIOUS
    <2>2. PICK t : t = IF s.kind = "break" THEN e.cont ELSE e.back
      OBVIOUS
    <2>3. t \in DOMAIN fl /\ fl[t] \subseteq next
      <3>1. IsExit(s)
        BY <1>10 DEF IsExit
      <3>2. /\ s.kind = "break" => e.cont \in DOMAIN fl /\ fl[e.cont] \subseteq next
            /\ s.kind = "continue" => e.back \in DOMAIN fl /\ fl[e.back] \subseteq next
        BY <1>1, <1>2, <2>1, <3>1, ExitFlows
      <3>. QED BY ONLY <1>10, <2>2, <3>2 DEF ExitKind
    <2>4. PICK x : x = [Restore(e.loop) EXCEPT !.stat = q]
      OBVIOUS
    <2>5. new = <<x, Br({t})>>
      BY <1>10, <2>1, <2>2, <2>4 DEF LeafOps, ExitKind
    <2>6. q \in a
      BY <1>7, <1>10, VisibleLeaves DEF Leaves
    <2>7. x.stat = q /\ x.to = {}
      BY ONLY <2>4, OpStats, OpFields
    <2>8. OpFlows(tree, fl, a, x, next)
      BY ONLY <1>2, <1>5, <2>6, <2>7 DEF OpFlows, Out
    <2>9. OpFlows(tree, fl, next, Br({t}), z)
      BY <2>3, BranchFlows
    <2>10. Flows(tree, fl, a, new, z)
      BY ONLY <2>5, <2>8, <2>9, FlowsTwo
    <2>. QED BY ONLY <1>1, <1>2, <2>10
  <1>. QED BY <1>8, <1>9, <1>10, s.kind \in LeafKind DEF LeafKind

-----------------------------------------------------------------------------
(* The steps of the walk keep it.                                          *)

\* The frames when the walk goes on to the next statement.
Proceeds(tree, fl, b, i, fs) ==
    /\ Top(fs).visiting = 0 /\ CurFrom(tree, Top(fs)) = Ahead(tree, Visible, b, i)
    /\ Top(fs).pc <= Len(tree[Top(fs).block]) + 1
    /\ \A k \in OwnersOf(tree, fs) : FrameFlows(tree, fl, fs[k])

\* It goes on to the next statement.
LEMMA NextProceeds ==
    ASSUME NEW R, NEW Y \in SUBSET Block, Walking(R, Y), InRange(stat_nodes, F), NextStat,
           NEW fl, FlowsNow(fl)
    PROVE  Proceeds(stat_nodes, fl, F.block, F.pc + 1, frames')
  <1>1. PICK f, n, tree, fs : f = F /\ n = Len(frames) /\ tree = stat_nodes /\ fs = frames'
    OBVIOUS
  <1>2. /\ OwnersOf(tree, fs) = OwnersOf(tree, frames) \ {n}
        /\ \A k \in OwnersOf(tree, fs) : fs[k] = frames[k]
        /\ Top(fs).block = f.block /\ Top(fs).pc = f.pc + 1 /\ Top(fs).visiting = 0
    BY <1>1, StepOn
  <1>3. \A k \in OwnersOf(tree, frames) : FrameFlows(tree, fl, frames[k])
    BY <1>1 DEF FlowsNow, Flowing
  <1>4. Shape(stat_nodes)
    BY DEF FlowsNow, Flowing
  <1>5. f.pc + 1 <= Len(tree[f.block]) + 1
    BY <1>1, <1>4, StandingHere DEF Standing
  <1>6. Proceeds(tree, fl, f.block, f.pc + 1, fs)
    BY ONLY <1>2, <1>3, <1>5 DEF Proceeds, CurFrom
  <1>. QED BY ONLY <1>1, <1>6

\* A statement without a block.
LEMMA LeafKeepsFlowing ==
    ASSUME NEW R, NEW Y \in SUBSET Block, Walking(R, Y), EmitLeaf,
           NEW E, NEW Z, NEW env, NEW mid, NEW lv, NEW dp, Fitting(E, Z, env, mid, lv, dp),
           NEW fl, FlowsNow(fl)
    PROVE  FlowsNow(fl)'
  <1>1. PICK f, tree, s, ne, fs, table, c, p :
            /\ f = F /\ tree = stat_nodes /\ s = Here /\ ne = nested /\ fs = frames'
            /\ table = ops /\ c = created /\ p = point
    OBVIOUS
  <1>2. InRange(stat_nodes, F) /\ s = StatAt(stat_nodes, F) /\ s.kind \in LeafKind /\ NextStat
    BY <1>1 DEF EmitLeaf, AtStat, Here
  <1>3. Proceeds(tree, fl, f.block, f.pc + 1, fs)
    BY <1>1, <1>2, NextProceeds
  <1>4. PICK q, new : q = Pos /\ new = LeafOps(s, q)
    OBVIOUS
  <1>5. PICK a, z : a = Ahead(tree, Visible, f.block, f.pc) /\ z = Ahead(tree, Visible, f.block, f.pc + 1)
    OBVIOUS
  <1>6. Flows(tree, fl, a, new, z)
    BY <1>1, <1>2, <1>4, <1>5, LeafFlows
  <1>7. PICK table2 : table2 = With(table, p.block, Put(table[p.block], p.behind, new))
    OBVIOUS
  <1>8. /\ stat_nodes' = tree /\ frames' = fs /\ ops' = table2 /\ created' = c /\ point' = p
        /\ nested' = ne
    BY <1>1, <1>4, <1>7 DEF EmitLeaf, EmitUnchanged, builderVars, Insert, Put, With
  <1>9. /\ Shape(tree) /\ DOMAIN fl = 1..c /\ fl[1] \subseteq Ahead(tree, Visible, Root, 1)
        /\ TableFlows(tree, fl, table, c, {p.block})
        /\ PointFlows(tree, fl, fl[p.block], table[p.block], p.behind, CurFrom(tree, f), Default(fl, ne))
        /\ \A k \in 1..Len(ne) : EntryFlows(tree, fl, ne[k])
    BY <1>1 DEF FlowsNow, Flowing, F
  <1>10. CurFrom(tree, f) = a
    <2>1. Place(R, Y, F, Len(frames))
      BY Position
    <2>2. f.visiting = 0
      BY ONLY <1>1, <1>2, <2>1 DEF Place, Inside
    <2>. QED BY ONLY <1>5, <2>2 DEF CurFrom
  <1>11. p.block \in 1..c
    BY <1>1, Position DEF Place
  <1>12. table2[p.block] = Put(table[p.block], p.behind, new) /\ DOMAIN table2 = 1..c
         /\ \A b \in 1..c : b # p.block => table2[b] = table[b]
    BY ONLY <1>7, <1>9, <1>11 DEF With, TableFlows
  <1>13. TableFlows(tree, fl, table2, c, {p.block})
    BY ONLY <1>9, <1>12 DEF TableFlows
  <1>14. PointFlows(tree, fl, fl[p.block], table2[p.block], p.behind, z, Default(fl, ne))
    <2>1. PointFlows(tree, fl, fl[p.block], table[p.block], p.behind, a, Default(fl, ne))
      BY ONLY <1>9, <1>10
    <2>. QED BY ONLY <1>6, <1>12, <2>1, PointEmits
  <1>15. Flowing(tree, fl, fs, table2, c, p, ne)
    BY ONLY <1>3, <1>5, <1>9, <1>13, <1>14 DEF Flowing, Proceeds
  <1>. QED BY ONLY <1>8, <1>15 DEF FlowsNow

\* When nothing is emitted the walk may only move to where less may come.
LEMMA MovesFlowing ==
    ASSUME NEW tree, NEW fl, NEW fs, NEW table, NEW c, NEW p, NEW ne,
           Flowing(tree, fl, fs, table, c, p, ne),
           NEW fs2, CurFrom(tree, Top(fs2)) \subseteq CurFrom(tree, Top(fs)),
           \A k \in OwnersOf(tree, fs2) : FrameFlows(tree, fl, fs2[k]),
           Top(fs2).visiting = 0 => Top(fs2).pc <= Len(tree[Top(fs2).block]) + 1
    PROVE  Flowing(tree, fl, fs2, table, c, p, ne)
  <1>1. PointFlows(tree, fl, fl[p.block], table[p.block], p.behind, CurFrom(tree, Top(fs2)), Default(fl, ne))
    BY PointMoves DEF Flowing
  <1>. QED BY <1>1 DEF Flowing

\* The first statement of a block.
LEMMA VisitFlows ==
    ASSUME NEW tree \in Tree, NEW y \in Block
    PROVE  /\ Visit(y).visiting = 0 /\ Visit(y).pc <= Len(tree[Visit(y).block]) + 1
           /\ CurFrom(tree, Visit(y)) = Ahead(tree, Visible, y, 1)
  <1>1. Visit(y).visiting = 0 /\ Visit(y).block = y /\ Visit(y).pc = 1
    BY DEF Visit
  <1>2. Len(tree[y]) \in Nat
    BY DEF Tree
  <1>3. 1 <= Len(tree[y]) + 1
    BY <1>2
  <1>. QED BY ONLY <1>1, <1>3 DEF CurFrom

\* Entering a nested block and leaving it.
LEMMA BlockKeepsFlowing ==
    ASSUME NEW R, NEW Y \in SUBSET Block, Walking(R, Y), EmitBlock, NEW fl, FlowsNow(fl)
    PROVE  FlowsNow(fl)'
  <1>1. PICK f, tree, s, fs, fs2, n : /\ f = F /\ tree = stat_nodes /\ s = Here /\ fs = frames
                                     /\ fs2 = frames' /\ n = Len(frames)
    OBVIOUS
  <1>2. InRange(stat_nodes, F) /\ s = StatAt(stat_nodes, F) /\ s.kind = "block"
    BY <1>1 DEF EmitBlock, AtStat, Here
  <1>3. Shape(stat_nodes) /\ \A k \in OwnersOf(tree, fs) : FrameFlows(tree, fl, fs[k])
    BY <1>1 DEF FlowsNow, Flowing
  <1>4. Standing(tree, f, s)
    BY <1>1, <1>2, <1>3, StandingHere
  <1>5. s.kind \notin LeafKind /\ ~IsLoop(s) /\ s.body \in SubBlocks(s)
    <2>1. s.kind \notin LeafKind /\ ~IsLoop(s)
      BY ONLY <1>2 DEF IsLoop, LoopKind, LeafKind, ExitKind
    <2>. QED BY ONLY <1>4, <2>1, BodyIsSubBlock DEF Standing
  <1>6. OwnerPaths(tree, Visible, f.block, f.pc, s)
    BY ONLY <1>4, <1>5 DEF Standing
  <1>7. tree \in Tree /\ ChainOK(tree, Y, fs) /\ f = Top(fs)
    BY <1>1 DEF Walking, WalkOK, F
  <1>8. SUFFICES /\ CurFrom(tree, Top(fs2)) \subseteq CurFrom(tree, Top(fs))
                 /\ \A k \in OwnersOf(tree, fs2) : FrameFlows(tree, fl, fs2[k])
                 /\ Top(fs2).visiting = 0 => Top(fs2).pc <= Len(tree[Top(fs2).block]) + 1
    <2>1. Flowing(tree, fl, fs, ops, created, point, nested)
      BY <1>1 DEF FlowsNow
    <2>2. Flowing(tree, fl, fs2, ops, created, point, nested)
      BY ONLY <1>8, <2>1, MovesFlowing
    <2>3. /\ stat_nodes' = tree /\ frames' = fs2 /\ ops' = ops /\ created' = created
          /\ point' = point /\ nested' = nested
      BY <1>1 DEF EmitBlock, EmitUnchanged, builderVars
    <2>. QED BY ONLY <2>2, <2>3 DEF FlowsNow
  <1>9. CASE f.visiting = 0
    <2>1. PICK g, y : g = [f EXCEPT !.visiting = 1] /\ y = s.body
      OBVIOUS
    <2>2. fs2 = Append(SetTop(fs, g), Visit(y))
      BY <1>1, <1>9, <2>1 DEF EmitBlock
    <2>3. g \in CFrame /\ g.block = f.block /\ g.pc = f.pc /\ g.visiting = 1
      <3>1. f \in CFrame
        BY <1>1, Position DEF Place
      <3>. QED BY <2>1, <3>1 DEF CFrame
    <2>4. y \in Y \ {Root} /\ Descended(tree, Y, fs, g, y, fs2)
      <3>1. s = StatAt(stat_nodes, F) /\ s.kind \notin LeafKind /\ g.block = F.block /\ g.pc = F.pc
        BY ONLY <1>1, <1>2, <1>5, <2>3
      <3>2. fs2 = Append(SetTop(frames, g), Visit(y)) /\ (g.visiting = 1 /\ y = s.body)
        BY ONLY <1>1, <2>1, <2>2, <2>3
      <3>3. y \in Y \ {Root} /\ Descended(stat_nodes, Y, frames, g, y, fs2)
        BY <1>2, <2>3, <3>1, <3>2, StepIn
      <3>. QED BY ONLY <1>1, <3>3
    <2>5. ~Owns(tree, g)
      <3>1. StatAt(tree, g) = s
        BY ONLY <1>4, <2>3 DEF StatAt, Standing
      <3>. QED BY ONLY <1>2, <3>1 DEF Owns
    <2>6. y \in Block /\ Top(fs2) = Visit(y)
      BY <2>4 DEF Descended
    <2>7. /\ Visit(y).visiting = 0 /\ Visit(y).pc <= Len(tree[Visit(y).block]) + 1
          /\ CurFrom(tree, Visit(y)) = Ahead(tree, Visible, y, 1)
      BY ONLY <1>7, <2>6, VisitFlows
    <2>8. Ahead(tree, Visible, y, 1) \subseteq Ahead(tree, Visible, f.block, f.pc)
      BY ONLY <1>5, <1>6, <2>1 DEF OwnerPaths
    <2>9. CurFrom(tree, Top(fs2)) \subseteq CurFrom(tree, Top(fs))
      BY ONLY <1>7, <1>9, <2>6, <2>7, <2>8 DEF CurFrom
    <2>10. \A k \in OwnersOf(tree, fs2) : FrameFlows(tree, fl, fs2[k])
      BY ONLY <1>3, <2>4, <2>5 DEF Descended
    <2>. QED BY ONLY <2>6, <2>7, <2>9, <2>10
  <1>10. CASE f.visiting # 0
    <2>1. NextStat
      BY <1>1, <1>10 DEF EmitBlock
    <2>2. Proceeds(tree, fl, f.block, f.pc + 1, fs2)
      BY <1>1, <1>2, <2>1, NextProceeds
    <2>3. Child(tree, f) = s.body
      <3>1. StatAt(tree, f) = s
        BY ONLY <1>1, <1>2
      <3>2. s.alt = NoBlock
        <4>1. s \in Stat /\ s.kind # "cond"
          BY ONLY <1>2, <1>4 DEF Standing
        <4>. QED BY ONLY <4>1 DEF Stat
      <3>3. Place(R, Y, f, n) /\ tree = stat_nodes
        BY <1>1, Position
      <3>4. Inside(tree, f)
        BY ONLY <1>10, <3>3 DEF Place
      <3>5. f.visiting # 2
        BY ONLY <3>1, <3>2, <3>4 DEF Inside
      <3>. QED BY ONLY <3>1, <3>5 DEF Child
    <2>4. Ahead(tree, Visible, f.block, f.pc + 1) \subseteq AtEnd(tree, Visible, s.body)
      BY ONLY <1>5, <1>6 DEF OwnerPaths
    <2>5. CurFrom(tree, Top(fs)) = AtEnd(tree, Visible, s.body)
      BY ONLY <1>7, <1>10, <2>3 DEF CurFrom
    <2>. QED BY ONLY <2>2, <2>4, <2>5 DEF Proceeds
  <1>. QED BY <1>9, <1>10

\* The frame the walk comes back to, at the end of a block.
LEMMA AtEndOfBlock ==
    ASSUME NEW R, NEW Y \in SUBSET Block, Walking(R, Y), ~InRange(stat_nodes, F), NEW fl, FlowsNow(fl)
    PROVE  F.visiting = 0 /\ CurFrom(stat_nodes, F) = AtEnd(stat_nodes, Visible, F.block)
  <1>1. PICK f, tree : f = F /\ tree = stat_nodes
    OBVIOUS
  <1>2. f.visiting = 0 /\ f.block \in Block /\ f.pc \in Nat
    BY <1>1, Position DEF Place, Inside
  <1>3. f.pc <= Len(tree[f.block]) + 1
    BY <1>1, <1>2 DEF FlowsNow, Flowing, F
  <1>4. Len(tree[f.block]) \in Nat
    BY <1>1, <1>2 DEF Walking, WalkOK, Tree
  <1>5. f.pc = Len(tree[f.block]) + 1
    BY <1>1, <1>2, <1>3, <1>4 DEF InRange
  <1>6. CurFrom(tree, f) = AtEnd(tree, Visible, f.block)
    BY ONLY <1>2, <1>5 DEF CurFrom, AtEnd, Ahead
  <1>. QED BY ONLY <1>1, <1>2, <1>6

\* And there the walk goes on as before.
LEMMA LeaveKeepsFlowing ==
    ASSUME NEW R, NEW Y \in SUBSET Block, Walking(R, Y), LeaveBlock, Len(frames) # 1,
           NEW fl, FlowsNow(fl)
    PROVE  FlowsNow(fl)'
  <1>1. PICK tree, fs, fs2 : tree = stat_nodes /\ fs = frames /\ fs2 = frames'
    OBVIOUS
  <1>2. ~InRange(stat_nodes, F) /\ fs2 = Pop(fs) /\ Len(fs) # 1
    BY <1>1 DEF LeaveBlock
  <1>3. CurFrom(tree, Top(fs)) = AtEnd(tree, Visible, Top(fs).block) /\ ~InRange(tree, Top(fs))
    BY <1>1, <1>2, AtEndOfBlock DEF F
  <1>4. tree \in Tree /\ ChainOK(tree, Y, fs)
    BY <1>1 DEF Walking, WalkOK
  <1>5. Popped(tree, Y, fs, fs2)
    BY ONLY <1>2, <1>3, <1>4, PopFrames
  <1>6. \A k \in OwnersOf(tree, fs) : FrameFlows(tree, fl, fs[k])
    BY <1>1 DEF FlowsNow, Flowing
  <1>7. \A k \in OwnersOf(tree, fs2) : FrameFlows(tree, fl, fs2[k])
    BY ONLY <1>5, <1>6 DEF Popped
  <1>8. CurFrom(tree, Top(fs2)) = CurFrom(tree, Top(fs)) /\ Top(fs2).visiting # 0
    BY ONLY <1>3, <1>5 DEF Popped, CurFrom
  <1>9. Flowing(tree, fl, fs, ops, created, point, nested)
    BY <1>1 DEF FlowsNow
  <1>10. CurFrom(tree, Top(fs2)) \subseteq CurFrom(tree, Top(fs))
    BY ONLY <1>8
  <1>11. Flowing(tree, fl, fs2, ops, created, point, nested)
    BY ONLY <1>7, <1>8, <1>9, <1>10, MovesFlowing
  <1>12. /\ stat_nodes' = tree /\ frames' = fs2 /\ ops' = ops /\ created' = created
         /\ point' = point /\ nested' = nested
    BY <1>1 DEF LeaveBlock, builderVars
  <1>. QED BY ONLY <1>11, <1>12 DEF FlowsNow

-----------------------------------------------------------------------------
(* The start of a loop or a conditional.                                   *)

\* More blocks leave the frames and the entries as they are.
LEMMA FrameGrows ==
    ASSUME NEW tree, NEW fl, NEW fl2, MoreLabels(fl, fl2), NEW c, DOMAIN fl = 1..c,
           NEW f, FrameOK(tree, f, c), FrameFlows(tree, fl, f)
    PROVE  FrameFlows(tree, fl2, f)
  <1>1. Waits(tree, f) \subseteq DOMAIN fl
    BY DEF FrameOK
  <1>2. f.cont \in DOMAIN fl
    BY ONLY <1>1 DEF Waits
  <1>3. f.visiting = 1 /\ StatAt(tree, f).alt # NoBlock => f.els \in DOMAIN fl
    BY ONLY <1>1 DEF Waits
  <1>. QED BY ONLY <1>2, <1>3, MoreLabels(fl, fl2), FrameFlows(tree, fl, f) DEF FrameFlows, MoreLabels

\* And the entries.
LEMMA EntryGrows ==
    ASSUME NEW tree, NEW fl, NEW fl2, MoreLabels(fl, fl2), NEW e, EntryFlows(tree, fl, e)
    PROVE  EntryFlows(tree, fl2, e)
  <1>1. e.cont \in DOMAIN fl2 /\ fl2[e.cont] = fl[e.cont]
    BY DEF EntryFlows, MoreLabels
  <1>2. e.back # Null => e.back \in DOMAIN fl2 /\ fl2[e.back] = fl[e.back]
    BY DEF EntryFlows, MoreLabels
  <1>. QED BY ONLY <1>1, <1>2, EntryFlows(tree, fl, e) DEF EntryFlows

(***************************************************************************)
(* The start of a loop or a conditional s at frame f: "begin" is emitted   *)
(* where it stands, blocks are made up to c2, e is its entry, g the frame. *)
(***************************************************************************)
Opening(tree, fl, f, s, table, c, p, fl2, g, begin, table2, c2, e, p2) ==
    /\ g \in CFrame /\ g.block = f.block /\ g.pc = f.pc /\ g.visiting = 1 /\ s.kind \notin LeafKind
    /\ \A z : Flows(tree, fl2, Ahead(tree, Visible, f.block, f.pc), begin, z)
    /\ c2 \in Nat /\ c <= c2 /\ DOMAIN fl2 = 1..c2 /\ MoreLabels(fl, fl2)
    /\ DOMAIN table2 = 1..c2
    /\ table2[p.block] = Put(table[p.block], p.behind, begin)
    /\ \A b \in 1..c : b # p.block => table2[b] = table[b]
    /\ \A b \in (c + 1)..c2 : b # p2.block => Flows(tree, fl2, fl2[b], table2[b], {})
    /\ p2.block \in (c + 1)..c2 /\ p2.behind = 0
    /\ Flows(tree, fl2, fl2[p2.block], table2[p2.block], Ahead(tree, Visible, s.body, 1))
    /\ FrameFlows(tree, fl2, g) /\ EntryFlows(tree, fl2, e)

\* After it the walk is in the body, with the blocks made for it.
LEMMA StartFlows ==
    ASSUME NEW R, NEW Y \in SUBSET Block, Walking(R, Y), InRange(stat_nodes, F), F.visiting = 0,
           NEW fl, FlowsNow(fl), IsSeq(nested), NEW s, s = StatAt(stat_nodes, F), NEW fl2, NEW g, NEW begin,
           NEW table2, NEW c2, NEW e, NEW p2,
           Opening(stat_nodes, fl, F, s, ops, created, point, fl2, g, begin, table2, c2, e, p2),
           NEW fs, fs = Append(SetTop(frames, g), Visit(s.body)), NEW ne, ne = Append(nested, e)
    PROVE  Flowing(stat_nodes, fl2, fs, table2, c2, p2, ne)
  <1>1. PICK tree, f, n, table, c, p : /\ tree = stat_nodes /\ f = F /\ n = Len(frames)
                                       /\ table = ops /\ c = created /\ p = point
    OBVIOUS
  <1>2. Opening(tree, fl, f, s, table, c, p, fl2, g, begin, table2, c2, e, p2)
    BY <1>1
  <1>3. /\ Shape(tree) /\ DOMAIN fl = 1..c /\ fl[1] \subseteq Ahead(tree, Visible, Root, 1)
        /\ TableFlows(tree, fl, table, c, {p.block})
        /\ PointFlows(tree, fl, fl[p.block], table[p.block], p.behind, CurFrom(tree, f), Default(fl, nested))
        /\ \A k \in OwnersOf(tree, frames) : FrameFlows(tree, fl, frames[k])
        /\ \A k \in 1..Len(nested) : EntryFlows(tree, fl, nested[k])
    BY <1>1 DEF FlowsNow, Flowing, F
  <1>4. tree \in Tree /\ ChainOK(tree, Y, frames) /\ FramesOK(tree, frames, c)
    BY <1>1 DEF Walking, WalkOK
  <1>5. Place(R, Y, f, n)
    BY <1>1, Position
  <1>6. c \in Nat /\ p.block \in 1..c /\ 1 \in 1..c
    <2>1. c \in Nat /\ p.block \in 1..c
      BY <1>1, <1>5 DEF Place
    <2>. QED BY <2>1
  <1>7. s.body \in Y \ {Root} /\ Descended(tree, Y, frames, g, s.body, fs)
    <2>1. /\ g \in CFrame /\ g.block = F.block /\ g.pc = F.pc /\ g.visiting = 1 /\ s.kind \notin LeafKind
      BY ONLY <1>1, <1>2 DEF Opening
    <2>2. PICK y : y = s.body
      OBVIOUS
    <2>3. fs = Append(SetTop(frames, g), Visit(y)) /\ g.visiting = 1 /\ y = s.body
      BY <2>1, <2>2
    <2>4. y \in Y \ {Root} /\ Descended(stat_nodes, Y, frames, g, y, fs)
      BY <2>1, <2>3, StepIn
    <2>. QED BY ONLY <1>1, <2>2, <2>4
  <1>8. /\ c2 \in Nat /\ c <= c2 /\ DOMAIN fl2 = 1..c2 /\ MoreLabels(fl, fl2) /\ DOMAIN table2 = 1..c2
        /\ table2[p.block] = Put(table[p.block], p.behind, begin)
        /\ \A b \in 1..c : b # p.block => table2[b] = table[b]
        /\ \A b \in (c + 1)..c2 : b # p2.block => Flows(tree, fl2, fl2[b], table2[b], {})
        /\ p2.block \in (c + 1)..c2 /\ p2.behind = 0
    BY ONLY <1>2 DEF Opening
  <1>9. \A b \in 1..c : fl2[b] = fl[b]
    BY ONLY <1>3, <1>8 DEF MoreLabels
  <1>10. fl2[1] \subseteq Ahead(tree, Visible, Root, 1)
    BY ONLY <1>3, <1>6, <1>9
  <1>11. TableFlows(tree, fl2, table2, c2, {p2.block})
    <2>1. ASSUME NEW b \in 1..c2, b # p2.block PROVE Flows(tree, fl2, fl2[b], table2[b], {})
      <3>1. CASE b \in (c + 1)..c2
        BY ONLY <1>8, <2>1, <3>1
      <3>2. CASE b \in 1..c /\ b # p.block
        <4>1. Flows(tree, fl, fl[b], table[b], {})
          BY ONLY <1>3, <3>2 DEF TableFlows
        <4>2. Flows(tree, fl2, fl[b], table[b], {})
          BY ONLY <1>8, <4>1, FlowsGrow
        <4>. QED BY ONLY <1>8, <1>9, <3>2, <4>2
      <3>3. CASE b = p.block
        <4>1. PointFlows(tree, fl2, fl[p.block], table[p.block], p.behind, CurFrom(tree, f), Default(fl, nested))
          BY ONLY <1>3, <1>8, PointGrows
        <4>2. CurFrom(tree, f) = Ahead(tree, Visible, f.block, f.pc)
          BY <1>1 DEF CurFrom
        <4>3. Flows(tree, fl2, CurFrom(tree, f), begin, Default(fl, nested))
          BY ONLY <1>2, <4>2 DEF Opening
        <4>4. Flows(tree, fl2, fl[p.block], Put(table[p.block], p.behind, begin), {})
          BY ONLY <4>1, <4>3, PointEnds
        <4>. QED BY ONLY <1>6, <1>8, <1>9, <3>3, <4>4
      <3>4. b \in 1..c \/ b \in (c + 1)..c2
        BY ONLY <1>6, <1>8, b \in 1..c2
      <3>. QED BY ONLY <3>1, <3>2, <3>3, <3>4
    <2>. QED BY ONLY <1>8, <2>1 DEF TableFlows
  <1>12. s.body \in Block /\ Top(fs) = Visit(s.body) /\ fs[n] = g
    BY ONLY <1>1, <1>7, Y \in SUBSET Block DEF Descended
  <1>13. /\ Top(fs).visiting = 0 /\ Top(fs).pc <= Len(tree[Top(fs).block]) + 1
         /\ CurFrom(tree, Top(fs)) = Ahead(tree, Visible, s.body, 1)
    BY ONLY <1>4, <1>12, VisitFlows
  <1>14. PointFlows(tree, fl2, fl2[p2.block], table2[p2.block], p2.behind, CurFrom(tree, Top(fs)),
                    Default(fl2, ne))
    <2>1. Flows(tree, fl2, fl2[p2.block], table2[p2.block], Ahead(tree, Visible, s.body, 1))
      BY ONLY <1>2 DEF Opening
    <2>. QED BY ONLY <1>8, <1>13, <2>1, PointStarts
  <1>15. \A k \in OwnersOf(tree, fs) : FrameFlows(tree, fl2, fs[k])
    <2>1. ASSUME NEW k \in OwnersOf(tree, fs), k # n PROVE FrameFlows(tree, fl2, fs[k])
      <3>1. k \in OwnersOf(tree, frames) /\ fs[k] = frames[k]
        BY ONLY <1>1, <1>7, <2>1 DEF Descended
      <3>2. FrameOK(tree, frames[k], c) /\ FrameFlows(tree, fl, frames[k])
        BY ONLY <1>3, <1>4, <3>1 DEF FramesOK
      <3>. QED BY ONLY <1>3, <1>8, <3>1, <3>2, FrameGrows
    <2>2. FrameFlows(tree, fl2, g)
      BY ONLY <1>2 DEF Opening
    <2>. QED BY ONLY <1>12, <2>1, <2>2
  <1>16. \A k \in 1..Len(ne) : EntryFlows(tree, fl2, ne[k])
    <2>1. PICK m \in Nat : m = Len(nested)
      BY SeqProps
    <2>2. Len(ne) = m + 1 /\ (\A k \in 1..m : ne[k] = nested[k]) /\ ne[m + 1] = e
      BY ONLY <2>1, AppendAt, IsSeq(nested), ne = Append(nested, e)
    <2>3. EntryFlows(tree, fl2, e)
      BY ONLY <1>2 DEF Opening
    <2>4. \A k \in 1..m : EntryFlows(tree, fl2, nested[k])
      BY ONLY <1>3, <1>8, <2>1, EntryGrows
    <2>5. \A k \in 1..(m + 1) : k \in 1..m \/ k = m + 1
      BY <2>1
    <2>. QED BY ONLY <2>2, <2>3, <2>4, <2>5
  <1>17. Flowing(tree, fl2, fs, table2, c2, p2, ne)
    BY ONLY <1>3, <1>8, <1>10, <1>11, <1>13, <1>14, <1>15, <1>16 DEF Flowing
  <1>. QED BY ONLY <1>1, <1>17

\* The head of a loop branches to where the loop starts.
LEMMA HeadFlows ==
    ASSUME NEW tree, NEW fl, NEW a, NEW s, s.kind \in LoopKind, NEW control, NEW loop, NEW cont,
           loop \in DOMAIN fl, fl[loop] \subseteq a,
           s.kind \in {"pre_loop", "iter_loop"} => control \in DOMAIN fl /\ fl[control] \subseteq a,
           NEW z
    PROVE  Flows(tree, fl, a, LoopHead(s, control, loop, cont), z)
  <1>1. PICK t : t = IF s.kind \in {"pre_loop", "iter_loop"} THEN control ELSE loop
    OBVIOUS
  <1>2. t \in DOMAIN fl /\ fl[t] \subseteq a
    BY <1>1
  <1>3. \A b \in {t} : b \in DOMAIN fl /\ fl[b] \subseteq a
    BY ONLY <1>2
  <1>4. Flows(tree, fl, a, <<Br({t})>>, z) /\ Flows(tree, fl, a, <<Plain, Br({t})>>, z)
    BY ONLY <1>3, BranchFlows
  <1>5. PICK begin : begin = LoopHead(s, control, loop, cont)
    OBVIOUS
  <1>6. begin = <<Br({t})>> \/ begin = <<Plain, Br({t})>>
    BY <1>1, <1>5 DEF LoopHead, LoopKind
  <1>7. Flows(tree, fl, a, begin, z)
    BY ONLY <1>4, <1>6
  <1>. QED BY ONLY <1>5, <1>7

\* The beginning of a loop.
LEMMA LoopStartKeepsFlowing ==
    ASSUME NEW R, NEW Y \in SUBSET Block, Walking(R, Y), EmitLoopStart, IsSeq(nested),
           NEW fl, FlowsNow(fl)
    PROVE  \E fl2 : FlowsNow(fl2)'
  <1>1. PICK s, f, tree, table, c, p : /\ s = Here /\ f = F /\ tree = stat_nodes /\ table = ops
                                       /\ c = created /\ p = point
    OBVIOUS
  <1>2. PICK loop, cont, control, begin, g, e :
           /\ LoopMakes(F, Here, ops, created, point, loop, cont, control, begin, g, ops', e, point')
           /\ created' = cont /\ nested' = Append(nested, e)
           /\ frames' = Append(SetTop(frames, g), Visit(Here.body))
    BY LoopStartMakes
  <1>3. PICK table2, p2 : table2 = ops' /\ p2 = point'
    OBVIOUS
  <1>4. LoopMakes(f, s, table, c, p, loop, cont, control, begin, g, table2, e, p2)
    BY ONLY <1>1, <1>2, <1>3
  <1>5. InRange(stat_nodes, F) /\ F.visiting = 0 /\ s = StatAt(stat_nodes, F) /\ IsLoop(s) /\ s.kind \in LoopKind
    BY <1>1 DEF EmitLoopStart, AtStat, Here, IsLoop
  <1>6. Shape(stat_nodes) /\ DOMAIN fl = 1..c
    BY <1>1 DEF FlowsNow, Flowing
  <1>7. Standing(tree, f, s)
    BY <1>1, <1>5, <1>6, StandingHere
  <1>8. s.kind \notin LeafKind /\ s.kind # "cond"
    BY ONLY <1>5 DEF LoopKind, LeafKind, ExitKind
  <1>9. s.body \in SubBlocks(s) /\ s.alt = NoBlock
    <2>1. s \in Stat
      BY ONLY <1>7 DEF Standing
    <2>. QED BY ONLY <1>8, <2>1, BodyIsSubBlock DEF Stat
  <1>10. PICK a, y, z, t : /\ a = Ahead(tree, Visible, f.block, f.pc) /\ y = Ahead(tree, Visible, s.body, 1)
                           /\ z = Ahead(tree, Visible, f.block, f.pc + 1)
                           /\ t = AtEnd(tree, Visible, s.body)
    OBVIOUS
  <1>11. y \subseteq a /\ (MaySkip(s) => z \subseteq a) /\ y \subseteq t /\ (MayExit(s) => z \subseteq t)
    BY ONLY <1>5, <1>7, <1>8, <1>9, <1>10 DEF Standing, OwnerPaths
  <1>12. PICK fl2 : fl2 = [b \in 1..cont |-> IF b <= c THEN fl[b] ELSE
                             IF b = loop THEN y ELSE IF b = cont THEN z ELSE y \cup z]
    OBVIOUS
  <1>13. c \in Nat
    BY <1>1, Position DEF Place
  <1>14. /\ DOMAIN fl2 = 1..cont /\ \A b \in 1..c : fl2[b] = fl[b]
    BY ONLY <1>4, <1>12, <1>13 DEF LoopMakes
  <1>15. fl2[loop] = y /\ fl2[cont] = z /\ (control # loop => fl2[control] = y \cup z)
    <2>1. \A b \in (c + 1)..cont : ~(b <= c)
      BY ONLY <1>4, <1>13 DEF LoopMakes
    <2>. QED BY ONLY <1>4, <1>12, <2>1 DEF LoopMakes
  <1>16. MoreLabels(fl, fl2)
    BY ONLY <1>4, <1>6, <1>14 DEF MoreLabels, LoopMakes
  <1>17. loop \in DOMAIN fl2 /\ cont \in DOMAIN fl2 /\ control \in DOMAIN fl2
    BY ONLY <1>4, <1>14 DEF LoopMakes
  <1>18. \A w : Flows(tree, fl2, a, begin, w)
    <2>1. s.kind \in {"pre_loop", "iter_loop"} => control \in DOMAIN fl2 /\ fl2[control] \subseteq a
      BY ONLY <1>4, <1>11, <1>15, <1>17 DEF MaySkip, LoopMakes
    <2>2. fl2[loop] \subseteq a
      BY ONLY <1>11, <1>15
    <2>3. \A w : Flows(tree, fl2, a, LoopHead(s, control, loop, cont), w)
      BY ONLY <1>5, <1>17, <2>1, <2>2, HeadFlows
    <2>. QED BY ONLY <1>4, <2>3 DEF LoopMakes
  <1>19. Flows(tree, fl2, fl2[p2.block], table2[p2.block], y) /\ p2.block = loop /\ p2.behind = 0
    <2>1. p2.block = loop /\ p2.behind = 0
      BY ONLY <1>4 DEF LoopMakes
    <2>2. PICK op : op = Save(s.body)
      OBVIOUS
    <2>3. op.stat = NoStat /\ op.to = {}
      BY ONLY <2>2, OpStats, OpFields
    <2>4. OpFlows(tree, fl2, y, op, y)
      BY ONLY <2>3, SilentFlows
    <2>5. Flows(tree, fl2, y, <<op>>, y)
      BY ONLY <2>4, FlowsOne
    <2>6. table2[loop] = <<op>>
      BY ONLY <1>4, <2>2 DEF LoopMakes
    <2>. QED BY ONLY <1>15, <2>1, <2>5, <2>6
  <1>20. ASSUME NEW b \in (c + 1)..cont, b # p2.block PROVE Flows(tree, fl2, fl2[b], table2[b], {})
    <2>1. CASE b = cont
      <3>1. Flows(tree, fl2, z, <<>>, {})
        <4>1. {} \subseteq z
          OBVIOUS
        <4>. QED BY ONLY <4>1, FlowsNothing
      <3>2. table2[cont] = <<>>
        BY ONLY <1>4 DEF LoopMakes
      <3>. QED BY ONLY <1>15, <2>1, <3>1, <3>2
    <2>2. CASE b = control
      <3>1. \A d \in {loop, cont} : d \in DOMAIN fl2 /\ fl2[d] \subseteq (y \cup z)
        BY ONLY <1>15, <1>17
      <3>2. Flows(tree, fl2, y \cup z, <<Plain, Br({loop, cont})>>, {})
        BY ONLY <3>1, BranchFlows
      <3>3. control # loop /\ table2[control] = <<Plain, Br({loop, cont})>>
        BY ONLY <1>4, <1>19, <1>20, <2>2 DEF LoopMakes
      <3>. QED BY ONLY <1>15, <2>2, <3>2, <3>3
    <2>3. b = loop \/ b = control \/ b = cont
      BY ONLY <1>4, b \in (c + 1)..cont DEF LoopMakes
    <2>. QED BY ONLY <1>19, <1>20, <2>1, <2>2, <2>3
  <1>21. FrameFlows(tree, fl2, g)
    <2>1. g.block = f.block /\ g.pc = f.pc /\ g.cont = cont
      BY ONLY <1>4 DEF LoopMakes
    <2>2. StatAt(tree, g) = s
      BY ONLY <1>7, <2>1 DEF StatAt, Standing
    <2>. QED BY ONLY <1>9, <1>10, <1>15, <2>1, <2>2 DEF FrameFlows
  <1>22. EntryFlows(tree, fl2, e)
    <2>1. e.cont = cont /\ e.back = control /\ e.loop = s.body
      BY ONLY <1>4 DEF LoopMakes
    <2>2. LoopAt(tree, f.block, f.pc, e.loop)
      BY ONLY <1>5, <1>7, <2>1 DEF LoopAt, Standing
    <2>3. fl2[e.cont] \subseteq Ahead(tree, Visible, f.block, f.pc + 1)
      BY ONLY <1>10, <1>15, <2>1
    <2>4. fl2[control] \subseteq t
      <3>1. CASE control = loop
        BY ONLY <1>11, <1>15, <3>1
      <3>2. CASE control # loop
        <4>1. MayExit(s)
          BY ONLY <1>4, <3>2 DEF MayExit, LoopMakes
        <4>. QED BY ONLY <1>11, <1>15, <3>2, <4>1
      <3>. QED BY <3>1, <3>2
    <2>. QED BY ONLY <1>10, <1>17, <2>1, <2>2, <2>3, <2>4 DEF EntryFlows
  <1>23. Opening(tree, fl, f, s, table, c, p, fl2, g, begin, table2, cont, e, p2)
    <2>1. cont \in Nat /\ c <= cont /\ DOMAIN table2 = 1..cont
          /\ table2[p.block] = Put(table[p.block], p.behind, begin)
          /\ \A b \in 1..c : b # p.block => table2[b] = table[b]
      BY ONLY <1>4 DEF LoopMakes
    <2>2. /\ g \in CFrame /\ g.block = f.block /\ g.pc = f.pc /\ g.visiting = 1
          /\ loop \in (c + 1)..cont
      BY ONLY <1>4 DEF LoopMakes
    <2>3. \A b \in (c + 1)..cont : b # p2.block => Flows(tree, fl2, fl2[b], table2[b], {})
      BY ONLY <1>20
    <2>4. \A w : Flows(tree, fl2, Ahead(tree, Visible, f.block, f.pc), begin, w)
      BY ONLY <1>10, <1>18
    <2>5. Flows(tree, fl2, fl2[p2.block], table2[p2.block], Ahead(tree, Visible, s.body, 1))
      BY ONLY <1>10, <1>19
    <2>6. p2.block \in (c + 1)..cont /\ p2.behind = 0
      BY ONLY <1>19, <2>2
    <2>. QED BY ONLY <1>8, <1>14, <1>16, <1>21, <1>22, <2>1, <2>2, <2>3, <2>4, <2>5, <2>6 DEF Opening
  <1>24. PICK fs, ne : fs = Append(SetTop(frames, g), Visit(s.body)) /\ ne = Append(nested, e)
    OBVIOUS
  <1>25. Opening(stat_nodes, fl, F, s, ops, created, point, fl2, g, begin, table2, cont, e, p2)
    BY ONLY <1>1, <1>23
  <1>26. Flowing(stat_nodes, fl2, fs, table2, cont, p2, ne)
    BY ONLY <1>5, <1>24, <1>25, StartFlows, Walking(R, Y), Y \in SUBSET Block, FlowsNow(fl), IsSeq(nested)
  <1>27. stat_nodes' = stat_nodes
    BY DEF EmitLoopStart, EmitUnchanged, builderVars
  <1>28. FlowsNow(fl2)'
    BY ONLY <1>1, <1>2, <1>3, <1>24, <1>26, <1>27 DEF FlowsNow
  <1>. QED BY ONLY <1>28

\* The beginning of a conditional.
LEMMA CondStartKeepsFlowing ==
    ASSUME NEW R, NEW Y \in SUBSET Block, Walking(R, Y), EmitCondStart, IsSeq(nested),
           NEW fl, FlowsNow(fl)
    PROVE  \E fl2 : FlowsNow(fl2)'
  <1>1. PICK s, f, tree, table, c, p : /\ s = Here /\ f = F /\ tree = stat_nodes /\ table = ops
                                       /\ c = created /\ p = point
    OBVIOUS
  <1>2. PICK then, els, cont, other, begin, g, e :
           /\ CondMakes(F, Here, ops, created, point, then, els, cont, other, begin, g, ops', e, point')
           /\ created' = cont /\ nested' = Append(nested, e)
           /\ frames' = Append(SetTop(frames, g), Visit(Here.body))
    BY CondStartMakes
  <1>3. PICK table2, p2 : table2 = ops' /\ p2 = point'
    OBVIOUS
  <1>4. CondMakes(f, s, table, c, p, then, els, cont, other, begin, g, table2, e, p2)
    BY ONLY <1>1, <1>2, <1>3
  <1>5. InRange(stat_nodes, F) /\ F.visiting = 0 /\ s = StatAt(stat_nodes, F) /\ s.kind = "cond"
    BY <1>1 DEF EmitCondStart, AtStat, Here
  <1>6. Shape(stat_nodes) /\ DOMAIN fl = 1..c
    BY <1>1 DEF FlowsNow, Flowing
  <1>7. Standing(tree, f, s)
    BY <1>1, <1>5, <1>6, StandingHere
  <1>8. s.kind \notin LeafKind
    BY ONLY <1>5 DEF LeafKind, ExitKind
  <1>9. s.body \in SubBlocks(s) /\ (s.alt # NoBlock => s.alt \in SubBlocks(s))
    <2>1. s \in Stat
      BY ONLY <1>7 DEF Standing
    <2>. QED BY ONLY <1>8, <2>1, BodyIsSubBlock DEF SubBlocks
  <1>10. PICK a, y, z, x : /\ a = Ahead(tree, Visible, f.block, f.pc) /\ y = Ahead(tree, Visible, s.body, 1)
                           /\ z = Ahead(tree, Visible, f.block, f.pc + 1)
                           /\ x = Ahead(tree, Visible, s.alt, 1)
    OBVIOUS
  <1>11. y \subseteq a /\ (s.alt = NoBlock => z \subseteq a) /\ (s.alt # NoBlock => x \subseteq a)
    BY ONLY <1>5, <1>7, <1>8, <1>9, <1>10 DEF Standing, OwnerPaths, MaySkip
  <1>12. PICK fl2 : fl2 = [b \in 1..cont |-> IF b <= c THEN fl[b] ELSE
                             IF b = then THEN y ELSE IF b = cont THEN z ELSE x]
    OBVIOUS
  <1>13. DOMAIN fl2 = 1..cont /\ \A b \in 1..c : fl2[b] = fl[b]
    BY ONLY <1>4, <1>12 DEF CondMakes
  <1>14. fl2[then] = y /\ fl2[cont] = z /\ (s.alt # NoBlock => fl2[els] = x)
    BY ONLY <1>4, <1>12 DEF CondMakes
  <1>15. MoreLabels(fl, fl2)
    BY ONLY <1>4, <1>6, <1>13 DEF MoreLabels, CondMakes
  <1>16. \A b \in {then, other} : b \in DOMAIN fl2 /\ fl2[b] \subseteq a
    BY ONLY <1>4, <1>11, <1>13, <1>14 DEF CondMakes
  <1>17. \A w : Flows(tree, fl2, a, begin, w)
    <2>1. \A w : Flows(tree, fl2, a, <<Plain, Br({then, other})>>, w)
      BY ONLY <1>16, BranchFlows
    <2>. QED BY ONLY <1>4, <2>1 DEF CondMakes
  <1>18. \A b \in (c + 1)..cont : \A w : w \subseteq fl2[b] => Flows(tree, fl2, fl2[b], table2[b], w)
    <2>1. \A b \in (c + 1)..cont : table2[b] = <<>>
      BY ONLY <1>4 DEF CondMakes
    <2>. QED BY ONLY <2>1, FlowsNothing
  <1>19. FrameFlows(tree, fl2, g)
    <2>1. g.block = f.block /\ g.pc = f.pc /\ g.cont = cont /\ g.els = els
      BY ONLY <1>4 DEF CondMakes
    <2>2. StatAt(tree, g) = s
      BY ONLY <1>7, <2>1 DEF StatAt, Standing
    <2>. QED BY ONLY <1>10, <1>14, <2>1, <2>2 DEF FrameFlows
  <1>20. EntryFlows(tree, fl2, e)
    <2>1. e.cont = cont /\ e.back = Null
      BY ONLY <1>4 DEF CondMakes, CondEntry
    <2>2. cont \in DOMAIN fl2
      BY ONLY <1>4, <1>13 DEF CondMakes
    <2>. QED BY ONLY <2>1, <2>2 DEF EntryFlows
  <1>21. Opening(tree, fl, f, s, table, c, p, fl2, g, begin, table2, cont, e, p2)
    <2>1. cont \in Nat /\ c <= cont /\ DOMAIN table2 = 1..cont
          /\ table2[p.block] = Put(table[p.block], p.behind, begin)
          /\ \A b \in 1..c : b # p.block => table2[b] = table[b]
      BY ONLY <1>4 DEF CondMakes
    <2>2. /\ g \in CFrame /\ g.block = f.block /\ g.pc = f.pc /\ g.visiting = 1
          /\ then \in (c + 1)..cont /\ p2.block = then /\ p2.behind = 0
      BY ONLY <1>4 DEF CondMakes
    <2>3. \A b \in (c + 1)..cont : b # p2.block => Flows(tree, fl2, fl2[b], table2[b], {})
      BY ONLY <1>18
    <2>4. \A w : Flows(tree, fl2, Ahead(tree, Visible, f.block, f.pc), begin, w)
      BY ONLY <1>10, <1>17
    <2>5. Flows(tree, fl2, fl2[p2.block], table2[p2.block], Ahead(tree, Visible, s.body, 1))
      <3>1. y \subseteq fl2[then]
        BY ONLY <1>14
      <3>. QED BY ONLY <1>10, <1>18, <2>2, <3>1
    <2>6. p2.block \in (c + 1)..cont /\ p2.behind = 0
      BY ONLY <2>2
    <2>. QED BY ONLY <1>8, <1>13, <1>15, <1>19, <1>20, <2>1, <2>2, <2>3, <2>4, <2>5, <2>6 DEF Opening
  <1>22. PICK fs, ne : fs = Append(SetTop(frames, g), Visit(s.body)) /\ ne = Append(nested, e)
    OBVIOUS
  <1>23. Opening(stat_nodes, fl, F, s, ops, created, point, fl2, g, begin, table2, cont, e, p2)
    BY ONLY <1>1, <1>21
  <1>24. Flowing(stat_nodes, fl2, fs, table2, cont, p2, ne)
    BY ONLY <1>5, <1>22, <1>23, StartFlows, Walking(R, Y), Y \in SUBSET Block, FlowsNow(fl), IsSeq(nested)
  <1>25. stat_nodes' = stat_nodes
    BY DEF EmitCondStart, EmitUnchanged, builderVars
  <1>26. FlowsNow(fl2)'
    BY ONLY <1>1, <1>2, <1>3, <1>22, <1>24, <1>25 DEF FlowsNow
  <1>. QED BY ONLY <1>26

-----------------------------------------------------------------------------
(* The end of a body or a branch.                                          *)

(***************************************************************************)
(* At the end of a body or a branch: what is behind the insertion point    *)
(* may come, and so may all that the statement branches to.                *)
(***************************************************************************)
Ending(tree, fl, f, s, e, ne, table, c, p, t, z) ==
    /\ Standing(tree, f, s) /\ s.kind \notin LeafKind
    /\ t = AtEnd(tree, Visible, Child(tree, f)) /\ z = Ahead(tree, Visible, f.block, f.pc + 1)
    /\ f.cont \in 1..c /\ DOMAIN fl = 1..c /\ fl[f.cont] = z
    /\ PointFlows(tree, fl, fl[p.block], table[p.block], p.behind, t, Default(fl, ne))
    /\ Default(fl, ne) \subseteq t
    /\ IsLoop(s) => e.back \in 1..c /\ fl[e.back] \subseteq t
    /\ ~IsLoop(s) => z \subseteq t
    /\ TableFlows(tree, fl, table, c, {})

\* This is so where a body or a branch ends.
LEMMA BodyEndFlows ==
    ASSUME NEW R, NEW Y \in SUBSET Block, Walking(R, Y), Owns(stat_nodes, F),
           NEW E, NEW Z, NEW env, NEW mid, NEW lv, NEW dp, Fitting(E, Z, env, mid, lv, dp),
           NEW fl, FlowsNow(fl), NEW s, s = StatAt(stat_nodes, F), NEW e, e = Last(nested),
           NEW t, t = AtEnd(stat_nodes, Visible, Child(stat_nodes, F)),
           NEW z, z = Ahead(stat_nodes, Visible, F.block, F.pc + 1)
    PROVE  Ending(stat_nodes, fl, F, s, e, nested, ops, created, point, t, z)
  <1>1. PICK tree, f, n, m, c, ne, table, p :
           /\ tree = stat_nodes /\ f = F /\ n = Len(frames) /\ m = Len(nested) /\ c = created
           /\ ne = nested /\ table = ops /\ p = point
    OBVIOUS
  <1>2. Place(R, Y, f, n)
    BY <1>1, Position
  <1>3. Owns(tree, f) /\ Inside(tree, f) /\ InRange(stat_nodes, F)
    BY <1>1, <1>2 DEF Place, Owns, Inside
  <1>4. /\ Shape(stat_nodes) /\ DOMAIN fl = 1..c
        /\ TableFlows(tree, fl, table, c, {p.block})
        /\ PointFlows(tree, fl, fl[p.block], table[p.block], p.behind, CurFrom(tree, f), Default(fl, ne))
        /\ \A k \in OwnersOf(tree, frames) : FrameFlows(tree, fl, frames[k])
        /\ \A k \in 1..Len(ne) : EntryFlows(tree, fl, ne[k])
    BY <1>1 DEF FlowsNow, Flowing, F
  <1>5. Standing(tree, f, s)
    BY <1>1, <1>3, <1>4, StandingHere
  <1>6. s.kind \notin LeafKind /\ s = StatAt(tree, f)
    BY <1>1, <1>3 DEF Inside
  <1>7. FrameFlows(tree, fl, f) /\ f.cont \in 1..c
    <2>1. n \in OwnersOf(tree, frames) /\ f = frames[n]
      BY <1>1, <1>2, <1>3 DEF Place
    <2>2. FrameOK(tree, f, c)
      <3>1. FramesOK(tree, frames, c)
        BY <1>1 DEF Walking, WalkOK
      <3>. QED BY ONLY <2>1, <3>1 DEF FramesOK
    <2>. QED BY ONLY <1>4, <2>1, <2>2 DEF FrameOK, Waits
  <1>8. fl[f.cont] = z
    BY <1>1, <1>7 DEF FrameFlows
  <1>9. CurFrom(tree, f) = t
    BY <1>1, <1>3 DEF CurFrom, Owns
  <1>10. /\ m \in Nat /\ m > 0 /\ EntryOf(tree, env, lv[m - 1], e, f) /\ e = ne[m]
    <2>1. /\ m \in Nat /\ m > 0 /\ EntryOf(tree, env, lv[m - 1], e, f)
      BY <1>1, TopEntry
    <2>. QED BY <1>1, <2>1 DEF Last
  <1>11. EntryFlows(tree, fl, e)
    <2>1. m \in 1..Len(ne)
      BY <1>1, <1>10
    <2>. QED BY ONLY <1>4, <1>10, <2>1
  <1>12. Default(fl, ne) = IF e.back # Null THEN fl[e.back] ELSE fl[e.cont]
    <2>1. ne # <<>>
      <3>1. PICK S : ne \in Seq(S)
        BY <1>1 DEF Fitting, Fits, NestFits, IsSeq
      <3>. QED BY <1>1, <1>10, <3>1
    <2>2. Last(ne) = e
      BY <1>1
    <2>. QED BY ONLY <2>1, <2>2 DEF Default
  <1>13. OwnerPaths(tree, Visible, f.block, f.pc, s)
    BY ONLY <1>5, <1>6 DEF Standing
  <1>14. Child(tree, f) \in SubBlocks(s) /\ s.body \in SubBlocks(s) /\ (s.alt = NoBlock => Child(tree, f) = s.body)
    <2>1. s \in Stat
      BY ONLY <1>5 DEF Standing
    <2>2. s.body \in SubBlocks(s)
      BY ONLY <1>6, <2>1, BodyIsSubBlock
    <2>. QED BY <1>3, <1>6, <2>2 DEF Child, Inside, SubBlocks
  <1>15. CASE IsLoop(s)
    <2>1. e.back # Null /\ e.loop = s.body
      BY ONLY <1>6, <1>10, <1>15 DEF EntryOf
    <2>2. e.back \in 1..c /\ fl[e.back] \subseteq AtEnd(tree, Visible, s.body)
      BY ONLY <1>4, <1>11, <2>1 DEF EntryFlows
    <2>3. s.alt = NoBlock
      <3>1. s \in Stat /\ s.kind # "cond"
        BY ONLY <1>5, <1>15 DEF Standing, IsLoop, LoopKind
      <3>. QED BY ONLY <3>1 DEF Stat
    <2>4. t = AtEnd(tree, Visible, s.body)
      BY <1>1, <1>14, <2>3
    <2>5. Default(fl, ne) \subseteq t
      BY ONLY <1>12, <2>1, <2>2, <2>4
    <2>6. Flows(tree, fl, fl[p.block], table[p.block], {})
      BY ONLY <1>4, <1>9, <2>5, PointCloses
    <2>7. TableFlows(tree, fl, table, c, {})
      BY ONLY <1>4, <2>6 DEF TableFlows
    <2>8. Ending(tree, fl, f, s, e, ne, table, c, p, t, z)
      <3>1. PointFlows(tree, fl, fl[p.block], table[p.block], p.behind, t, Default(fl, ne))
        BY ONLY <1>4, <1>9
      <3>2. t = AtEnd(tree, Visible, Child(tree, f)) /\ z = Ahead(tree, Visible, f.block, f.pc + 1)
        BY <1>1
      <3>. QED BY ONLY <1>4, <1>5, <1>6, <1>7, <1>8, <1>15, <2>2, <2>4, <2>5, <2>7, <3>1, <3>2 DEF Ending
    <2>. QED BY ONLY <1>1, <2>8
  <1>16. CASE ~IsLoop(s)
    <2>1. e.back = Null /\ e.cont = f.cont
      BY ONLY <1>6, <1>10, <1>16 DEF EntryOf
    <2>2. z \subseteq t
      BY <1>1, <1>13, <1>14, <1>16 DEF OwnerPaths
    <2>3. Default(fl, ne) \subseteq t
      BY ONLY <1>8, <1>12, <2>1, <2>2
    <2>4. Flows(tree, fl, fl[p.block], table[p.block], {})
      BY ONLY <1>4, <1>9, <2>3, PointCloses
    <2>5. TableFlows(tree, fl, table, c, {})
      BY ONLY <1>4, <2>4 DEF TableFlows
    <2>6. Ending(tree, fl, f, s, e, ne, table, c, p, t, z)
      <3>1. PointFlows(tree, fl, fl[p.block], table[p.block], p.behind, t, Default(fl, ne))
        BY ONLY <1>4, <1>9
      <3>2. t = AtEnd(tree, Visible, Child(tree, f)) /\ z = Ahead(tree, Visible, f.block, f.pc + 1)
        BY <1>1
      <3>. QED BY ONLY <1>4, <1>5, <1>6, <1>7, <1>8, <1>16, <2>2, <2>3, <2>5, <3>1, <3>2 DEF Ending
    <2>. QED BY ONLY <1>1, <2>6
  <1>. QED BY ONLY <1>15, <1>16

\* A block is replaced, or cleaned up.
LEMMA TableFlowsWith ==
    ASSUME NEW tree, NEW fl, NEW table, NEW c, NEW X, TableFlows(tree, fl, table, c, X),
           NEW b \in 1..c, NEW s, Flows(tree, fl, fl[b], s, {}) \/ b \in X
    PROVE  TableFlows(tree, fl, With(table, b, s), c, X) /\ With(table, b, s)[b] = s
  <1>1. PICK table2 : table2 = With(table, b, s)
    OBVIOUS
  <1>2. DOMAIN table2 = 1..c /\ table2[b] = s /\ \A a \in 1..c : a # b => table2[a] = table[a]
    BY <1>1 DEF With, TableFlows
  <1>3. TableFlows(tree, fl, table2, c, X)
    BY ONLY <1>2, TableFlows(tree, fl, table, c, X), Flows(tree, fl, fl[b], s, {}) \/ b \in X DEF TableFlows
  <1>. QED BY ONLY <1>1, <1>2, <1>3

\* The clean-up of the last continue block.
LEMMA CleanFlows ==
    ASSUME NEW R, NEW Y \in SUBSET Block, Walking(R, Y), NEW fl, NEW table,
           TableFlows(stat_nodes, fl, table, created, {}), NEW by_loop
    PROVE  TableFlows(stat_nodes, fl, Clean(table, by_loop), created, {})
  <1>1. PICK l, c, tree : l = last /\ c = created /\ tree = stat_nodes
    OBVIOUS
  <1>2. l = Null \/ l \in 1..c
    <2>1. l \in 0..c /\ c \in Nat
      BY <1>1 DEF Walking, WalkOK, BlocksOK
    <2>. QED BY <2>1 DEF Null
  <1>3. PICK table2 : table2 = Clean(table, by_loop)
    OBVIOUS
  <1>4. table2 = IF l = Null THEN table ELSE With(table, l, Cleaned(table[l], by_loop))
    BY ONLY <1>1, <1>3, CleanIs
  <1>5. TableFlows(tree, fl, table, c, {})
    BY <1>1
  <1>6. CASE l \in 1..c /\ l # Null
    <2>1. Flows(tree, fl, fl[l], table[l], {})
      BY ONLY <1>5, <1>6 DEF TableFlows
    <2>2. Flows(tree, fl, fl[l], Cleaned(table[l], by_loop), {})
      BY ONLY <2>1, FlowsCleaned
    <2>3. TableFlows(tree, fl, With(table, l, Cleaned(table[l], by_loop)), c, {})
      BY ONLY <1>5, <1>6, <2>2, TableFlowsWith
    <2>. QED BY ONLY <1>1, <1>3, <1>4, <1>6, <2>3
  <1>7. CASE l = Null
    BY ONLY <1>1, <1>3, <1>4, <1>5, <1>7
  <1>. QED BY ONLY <1>2, <1>6, <1>7

\* The branch "in case".
LEMMA DefaultFlows ==
    ASSUME NEW tree, NEW fl, NEW ne, IsSeq(ne), \A k \in 1..Len(ne) : EntryFlows(tree, fl, ne[k])
    PROVE  /\ Flows(tree, fl, Default(fl, ne), DefaultBranch(ne), {})
           /\ \A a : Flows(tree, fl, a, <<Unreachable>>, {})
  <1>1. ASSUME ne = <<>> PROVE Flows(tree, fl, Default(fl, ne), DefaultBranch(ne), {})
    <2>1. DefaultBranch(ne) = <<>> /\ {} \subseteq Default(fl, ne)
      BY <1>1 DEF DefaultBranch
    <2>. QED BY ONLY <2>1, FlowsNothing
  <1>2. ASSUME ne # <<>> PROVE Flows(tree, fl, Default(fl, ne), DefaultBranch(ne), {})
    <2>1. PICK e : e = Last(ne)
      OBVIOUS
    <2>2. EntryFlows(tree, fl, e)
      <3>1. PICK m \in Nat : m = Len(ne) /\ m > 0
        BY <1>2, SeqProps
      <3>2. m \in 1..m /\ e = ne[m]
        BY <2>1, <3>1 DEF Last
      <3>. QED BY ONLY <3>1, <3>2, \A k \in 1..Len(ne) : EntryFlows(tree, fl, ne[k])
    <2>3. PICK t : t = IF e.back # Null THEN e.back ELSE e.cont
      OBVIOUS
    <2>4. Default(fl, ne) = fl[t] /\ t \in DOMAIN fl
      BY <1>2, <2>1, <2>2, <2>3 DEF Default, EntryFlows
    <2>5. \A b \in {t} : b \in DOMAIN fl /\ fl[b] \subseteq fl[t]
      BY ONLY <2>4
    <2>6. Flows(tree, fl, fl[t], <<Br({t})>>, {}) /\ Flows(tree, fl, fl[t], <<Restore(e.loop), Br({t})>>, {})
      BY ONLY <2>5, BranchFlows
    <2>7. DefaultBranch(ne) = <<Br({t})>> \/ DefaultBranch(ne) = <<Restore(e.loop), Br({t})>>
      BY <1>2, <2>1, <2>3 DEF DefaultBranch
    <2>. QED BY ONLY <2>4, <2>6, <2>7
  <1>3. \A a : Flows(tree, fl, a, <<Unreachable>>, {})
    <2>1. PICK op : op = Unreachable
      OBVIOUS
    <2>2. op.stat = NoStat /\ op.to = {}
      BY ONLY <2>1, OpStats DEF Unreachable, Plain
    <2>3. \A a : OpFlows(tree, fl, a, op, {})
      BY ONLY <2>2, SilentFlows
    <2>. QED BY ONLY <2>1, <2>3, FlowsOne
  <1>. QED BY ONLY <1>1, <1>2, <1>3

(***************************************************************************)
(* The walk goes on in the continue block, which gets "new": a release and *)
(* a branch behind it.                                                     *)
(***************************************************************************)
LEMMA EndFlows ==
    ASSUME NEW R, NEW Y \in SUBSET Block, Walking(R, Y), Owns(stat_nodes, F), NextStat,
           NEW E, NEW Z, NEW env, NEW mid, NEW lv, NEW dp, Fitting(E, Z, env, mid, lv, dp),
           NEW fl, FlowsNow(fl),
           NEW table, TableFlows(stat_nodes, fl, table, created, {}),
           NEW release, release \in {<<>>, <<Plain>>},
           NEW default, default \in {DefaultBranch(Front(nested)), <<Unreachable>>},
           NEW table2, table2 = With(table, F.cont, release \o default),
           NEW p2, p2.block = F.cont, p2.behind = Len(default)
    PROVE  Flowing(stat_nodes, fl, frames', table2, created, p2, Front(nested))
  <1>1. PICK tree, f, c, old, ne, fs, s, e, t, z :
           /\ tree = stat_nodes /\ f = F /\ c = created /\ old = nested /\ ne = Front(nested) /\ fs = frames'
           /\ s = StatAt(stat_nodes, F) /\ e = Last(nested)
           /\ t = AtEnd(stat_nodes, Visible, Child(stat_nodes, F))
           /\ z = Ahead(stat_nodes, Visible, F.block, F.pc + 1)
    OBVIOUS
  <1>2. Ending(tree, fl, f, s, e, old, ops, c, point, t, z)
    BY <1>1, BodyEndFlows
  <1>3. /\ Shape(tree) /\ DOMAIN fl = 1..c /\ fl[1] \subseteq Ahead(tree, Visible, Root, 1)
        /\ \A k \in 1..Len(old) : EntryFlows(tree, fl, old[k])
    BY <1>1 DEF FlowsNow, Flowing
  <1>4. Proceeds(tree, fl, f.block, f.pc + 1, fs)
    <2>1. InRange(stat_nodes, F)
      <3>1. Place(R, Y, F, Len(frames))
        BY Position
      <3>. QED BY ONLY <3>1, Owns(stat_nodes, F) DEF Place, Inside, Owns
    <2>. QED BY <1>1, <2>1, NextProceeds
  <1>5. IsSeq(ne) /\ \A k \in 1..Len(ne) : EntryFlows(tree, fl, ne[k])
    <2>1. IsSeq(old)
      BY <1>1 DEF Fitting, Fits, NestFits
    <2>2. PICK m \in Nat : m = Len(old) /\ m > 0
      <3>1. Len(nested) \in Nat /\ Len(nested) > 0
        BY <1>1, TopEntry
      <3>. QED BY <1>1, <3>1
    <2>3. IsSeq(ne) /\ Len(ne) = m - 1 /\ \A i \in 1..(m - 1) : ne[i] = old[i]
      BY ONLY <1>1, <2>1, <2>2, FrontProps
    <2>4. \A i \in 1..(m - 1) : i \in 1..m
      BY <2>2
    <2>. QED BY ONLY <1>3, <2>2, <2>3, <2>4
  <1>6. Flows(tree, fl, Default(fl, ne), default, {})
    <2>1. /\ Flows(tree, fl, Default(fl, ne), DefaultBranch(ne), {})
          /\ Flows(tree, fl, Default(fl, ne), <<Unreachable>>, {})
      BY ONLY <1>5, DefaultFlows
    <2>2. default = DefaultBranch(ne) \/ default = <<Unreachable>>
      BY <1>1
    <2>. QED BY ONLY <2>1, <2>2
  <1>7. Flows(tree, fl, z, release, z)
    <2>1. Flows(tree, fl, z, <<>>, z)
      BY FlowsNothing
    <2>2. OpFlows(tree, fl, z, Plain, z)
      BY OpStats, OpFields, SilentFlows
    <2>3. Flows(tree, fl, z, <<Plain>>, z)
      BY <2>2, FlowsOne
    <2>. QED BY <2>1, <2>3
  <1>8. f.cont \in 1..c /\ fl[f.cont] = z
    BY ONLY <1>2 DEF Ending
  <1>9. PICK new : new = release \o default
    OBVIOUS
  <1>10. PointFlows(tree, fl, fl[f.cont], new, Len(default), z, Default(fl, ne))
    BY ONLY <1>6, <1>7, <1>8, <1>9 DEF PointFlows
  <1>11. TableFlows(tree, fl, table2, c, {p2.block}) /\ table2[p2.block] = new
    <2>1. TableFlows(tree, fl, table, c, {p2.block})
      BY <1>1 DEF TableFlows
    <2>2. p2.block = f.cont /\ table2 = With(table, f.cont, new) /\ f.cont \in {p2.block}
      BY <1>1, <1>9
    <2>3. TableFlows(tree, fl, With(table, f.cont, new), c, {p2.block}) /\ With(table, f.cont, new)[f.cont] = new
      BY ONLY <1>8, <2>1, <2>2, TableFlowsWith
    <2>. QED BY ONLY <2>2, <2>3
  <1>12. PointFlows(tree, fl, fl[p2.block], table2[p2.block], p2.behind, CurFrom(tree, Top(fs)), Default(fl, ne))
    <2>1. p2.block = f.cont /\ p2.behind = Len(default)
      BY <1>1
    <2>2. CurFrom(tree, Top(fs)) = z
      BY <1>1, <1>4 DEF Proceeds
    <2>. QED BY ONLY <1>10, <1>11, <2>1, <2>2
  <1>13. Flowing(tree, fl, fs, table2, c, p2, ne)
    BY ONLY <1>3, <1>4, <1>5, <1>11, <1>12 DEF Flowing, Proceeds
  <1>. QED BY ONLY <1>1, <1>13

\* The end of a loop.
LEMMA LoopEndKeepsFlowing ==
    ASSUME NEW R, NEW Y \in SUBSET Block, Walking(R, Y), EmitLoopEnd,
           NEW E, NEW Z, NEW env, NEW mid, NEW lv, NEW dp, Fitting(E, Z, env, mid, lv, dp),
           NEW fl, FlowsNow(fl)
    PROVE  FlowsNow(fl)'
  <1>1. PICK tree, f, c, s, e, t, z, ne, p :
           /\ tree = stat_nodes /\ f = F /\ c = created /\ s = StatAt(stat_nodes, F) /\ e = Last(nested)
           /\ t = AtEnd(stat_nodes, Visible, Child(stat_nodes, F))
           /\ z = Ahead(stat_nodes, Visible, F.block, F.pc + 1) /\ ne = Front(nested) /\ p = point
    OBVIOUS
  <1>2. PICK cur, cont : cur = f.inner /\ cont = f.cont
    OBVIOUS
  <1>3. PICK default : default = DefaultBranch(ne)
    OBVIOUS
  <1>4. PICK release : release = IF s.kind = "iter_loop" THEN <<Plain>> ELSE <<>>
    OBVIOUS
  <1>5. PICK back : back = <<Restore(s.body), Br({e.back})>>
    OBVIOUS
  <1>6. PICK looped : looped = IF HasTerminator(ops[cur]) THEN ops
                               ELSE With(ops, cur, ops[cur] \o back)
    OBVIOUS
  <1>7. PICK cleaned : cleaned = Clean(looped, TRUE)
    OBVIOUS
  <1>8. PICK table2 : table2 = With(cleaned, cont, release \o default)
    OBVIOUS
  <1>9. PICK p2 : p2 = [block |-> cont, behind |-> Len(default)]
    OBVIOUS
  <1>10. /\ f.visiting = 1 /\ s.kind \in LoopKind /\ IsLoop(s) /\ NextStat
    BY <1>1 DEF EmitLoopEnd, AtStat, Here, IsLoop
  <1>11. Owns(stat_nodes, F) /\ cur = Cur(F)
    <2>1. s.kind # "block"
      BY ONLY <1>10 DEF LoopKind
    <2>2. cur = Cur(f)
      BY ONLY <1>2, <1>10 DEF Cur
    <2>. QED BY <1>1, <1>10, <2>1, <2>2 DEF Owns
  <1>12. ops' = table2 /\ nested' = ne /\ point' = p2
    BY <1>1, <1>2, <1>3, <1>4, <1>5, <1>6, <1>7, <1>8, <1>9 DEF EmitLoopEnd, With, Here
  <1>13. Ending(tree, fl, f, s, e, nested, ops, c, p, t, z)
    BY <1>1, <1>11, BodyEndFlows
  <1>14. TableFlows(tree, fl, looped, c, {})
    <2>1. CASE HasTerminator(ops[cur])
      BY ONLY <1>6, <1>13, <2>1 DEF Ending
    <2>2. CASE ~HasTerminator(ops[cur])
      <3>1. cur \in 1..c /\ p.block = cur /\ p.behind = 0 /\ IsSeq(ops[cur])
        BY <1>1, <1>11, <2>2, BodyEnd
      <3>2. e.back \in DOMAIN fl /\ fl[e.back] \subseteq t
        BY ONLY <1>10, <1>13 DEF Ending
      <3>3. \A b \in {e.back} : b \in DOMAIN fl /\ fl[b] \subseteq t
        BY ONLY <3>2
      <3>4. Flows(tree, fl, t, back, Default(fl, nested))
        BY ONLY <1>5, <3>3, BranchFlows
      <3>5. PICK old : old = ops[cur]
        OBVIOUS
      <3>6. PointFlows(tree, fl, fl[cur], old, 0, t, Default(fl, nested))
        BY ONLY <1>13, <3>1, <3>5 DEF Ending
      <3>7. Flows(tree, fl, fl[cur], Put(old, 0, back), {})
        BY ONLY <3>4, <3>6, PointEnds
      <3>8. IsSeq(back) /\ IsSeq(old)
        BY ONLY <3>1, <3>4, <3>5 DEF Flows
      <3>9. Put(old, 0, back) = old \o back
        BY ONLY <3>8, PutLast
      <3>10. Flows(tree, fl, fl[cur], old \o back, {})
        BY ONLY <3>7, <3>9
      <3>11. TableFlows(tree, fl, ops, c, {})
        BY ONLY <1>13 DEF Ending
      <3>12. looped = With(ops, cur, old \o back)
        BY <1>6, <2>2, <3>5
      <3>13. TableFlows(tree, fl, With(ops, cur, old \o back), c, {})
        BY ONLY <3>1, <3>10, <3>11, TableFlowsWith
      <3>. QED BY ONLY <3>12, <3>13
    <2>. QED BY <2>1, <2>2
  <1>15. TableFlows(stat_nodes, fl, cleaned, created, {})
    BY <1>1, <1>7, <1>14, CleanFlows
  <1>16. /\ release \in {<<>>, <<Plain>>} /\ default \in {DefaultBranch(Front(nested)), <<Unreachable>>}
         /\ table2 = With(cleaned, F.cont, release \o default)
         /\ p2.block = F.cont /\ p2.behind = Len(default)
    BY <1>1, <1>2, <1>3, <1>4, <1>8, <1>9
  <1>17. Flowing(stat_nodes, fl, frames', table2, created, p2, Front(nested))
    BY ONLY <1>10, <1>11, <1>15, <1>16, EndFlows, Walking(R, Y), Y \in SUBSET Block,
            Fitting(E, Z, env, mid, lv, dp), FlowsNow(fl)
  <1>18. stat_nodes' = stat_nodes /\ created' = created
    BY DEF EmitLoopEnd, EmitUnchanged, builderVars
  <1>. QED BY ONLY <1>1, <1>12, <1>17, <1>18 DEF FlowsNow

\* The branch behind the statements of a branch of a conditional.
LEMMA ClosedFlows ==
    ASSUME NEW fl, NEW f, f = F, NEW s, ~IsLoop(s), NEW e, NEW t, NEW z, NEW p, p = point, p.block \in 1..created,
           Ending(stat_nodes, fl, f, s, e, nested, ops, created, p, t, z), NEW cur
    PROVE  TableFlows(stat_nodes, fl, Closed(cur), created, {})
  <1>1. PICK tree, c, table : tree = stat_nodes /\ c = created /\ table = ops
    OBVIOUS
  <1>2. Ending(tree, fl, f, s, e, nested, table, c, p, t, z)
    BY <1>1
  <1>3. PICK new : new = <<Br({f.cont})>>
    OBVIOUS
  <1>4. f.cont \in DOMAIN fl /\ fl[f.cont] \subseteq t
    BY ONLY <1>2, ~IsLoop(s) DEF Ending
  <1>5. \A b \in {f.cont} : b \in DOMAIN fl /\ fl[b] \subseteq t
    BY ONLY <1>4
  <1>6. Flows(tree, fl, t, new, Default(fl, nested))
    BY ONLY <1>3, <1>5, BranchFlows
  <1>7. Flows(tree, fl, fl[p.block], Put(table[p.block], p.behind, new), {})
    BY ONLY <1>2, <1>6, PointEnds DEF Ending
  <1>8. PICK table2 : table2 = With(table, p.block, Put(table[p.block], p.behind, new))
    OBVIOUS
  <1>9. TableFlows(tree, fl, table2, c, {})
    <2>1. TableFlows(tree, fl, table, c, {})
      BY ONLY <1>2 DEF Ending
    <2>2. p.block \in 1..c
      BY <1>1
    <2>3. TableFlows(tree, fl, With(table, p.block, Put(table[p.block], p.behind, new)), c, {})
      BY ONLY <1>7, <2>1, <2>2, TableFlowsWith
    <2>. QED BY ONLY <1>8, <2>3
  <1>10. Closed(cur) = IF HasTerminator(table[cur]) THEN table ELSE table2
    BY <1>1, <1>3, <1>8 DEF Closed, Insert, Put, With
  <1>11. TableFlows(tree, fl, table, c, {})
    BY ONLY <1>2 DEF Ending
  <1>12. TableFlows(tree, fl, Closed(cur), c, {})
    BY ONLY <1>9, <1>10, <1>11
  <1>. QED BY ONLY <1>1, <1>12

\* The end of a conditional.
LEMMA CondEndKeepsFlowing ==
    ASSUME NEW R, NEW Y \in SUBSET Block, Walking(R, Y), EmitCondEnd,
           NEW E, NEW Z, NEW env, NEW mid, NEW lv, NEW dp, Fitting(E, Z, env, mid, lv, dp),
           NEW fl, FlowsNow(fl)
    PROVE  FlowsNow(fl)'
  <1>1. PICK tree, f, c, s, e, t, z, ne, p :
           /\ tree = stat_nodes /\ f = F /\ c = created /\ s = StatAt(stat_nodes, F) /\ e = Last(nested)
           /\ t = AtEnd(stat_nodes, Visible, Child(stat_nodes, F))
           /\ z = Ahead(stat_nodes, Visible, F.block, F.pc + 1) /\ ne = Front(nested) /\ p = point
    OBVIOUS
  <1>2. PICK cur, cont : cur = (IF s.alt = NoBlock THEN f.inner ELSE f.els) /\ cont = f.cont
    OBVIOUS
  <1>3. PICK default : default = IF IsTerminal THEN <<Unreachable>> ELSE DefaultBranch(ne)
    OBVIOUS
  <1>4. PICK cleaned : cleaned = Clean(Closed(cur), FALSE)
    OBVIOUS
  <1>5. PICK table2 : table2 = With(cleaned, cont, default)
    OBVIOUS
  <1>6. PICK p2 : p2 = [block |-> cont, behind |-> Len(default)]
    OBVIOUS
  <1>7. f.visiting # 0 /\ s.kind = "cond" /\ ~IsLoop(s) /\ NextStat
    BY <1>1 DEF EmitCondEnd, AtStat, Here, IsLoop, LoopKind
  <1>8. Owns(stat_nodes, F)
    BY <1>1, <1>7 DEF Owns
  <1>9. ops' = table2 /\ nested' = ne /\ point' = p2
    BY <1>1, <1>2, <1>3, <1>4, <1>5, <1>6 DEF EmitCondEnd, With, Here
  <1>10. Ending(stat_nodes, fl, f, s, e, nested, ops, created, p, t, z)
    BY <1>1, <1>8, BodyEndFlows
  <1>11. p.block \in 1..created
    BY <1>1, Position DEF Place
  <1>12. TableFlows(stat_nodes, fl, Closed(cur), created, {})
    BY ONLY <1>1, <1>7, <1>10, <1>11, ClosedFlows
  <1>13. TableFlows(stat_nodes, fl, cleaned, created, {})
    BY <1>4, <1>12, CleanFlows
  <1>14. PICK release : release = <<>>
    OBVIOUS
  <1>15. release \o default = default
    <2>1. IsSeq(default)
      <3>1. Flows(tree, fl, t, <<Unreachable>>, {})
        <4>0. PICK no : no = <<>>
          OBVIOUS
        <4>1. IsSeq(no) /\ \A k \in 1..Len(no) : EntryFlows(tree, fl, no[k])
          <5>1. IsSeq(no) /\ Len(no) = 0
            BY ONLY <4>0, Tuples
          <5>2. \A k : k \notin 1..0
            OBVIOUS
          <5>. QED BY ONLY <5>1, <5>2
        <4>. QED BY ONLY <4>1, DefaultFlows
      <3>2. IsSeq(DefaultBranch(ne))
        <4>1. NestFits(stat_nodes, env, nested, lv)
          BY DEF Fitting, Fits
        <4>2. Len(nested) > 0
          BY <1>8, <1>1, TopEntry
        <4>3. NestFits(stat_nodes, env, ne, lv)
          BY ONLY <1>1, <4>1, <4>2, NestFitsPop
        <4>4. PICK S, d : S = lv[Len(ne)] /\ d = DefaultBranch(ne)
          OBVIOUS
        <4>5. Insertable(stat_nodes, env, S, d)
          BY ONLY <4>3, <4>4, DefaultFits
        <4>. QED BY ONLY <4>4, <4>5 DEF Insertable, SeqFits
      <3>. QED BY ONLY <1>3, <3>1, <3>2 DEF Flows
    <2>2. PICK S : default \in Seq(S)
      BY <2>1 DEF IsSeq
    <2>. QED BY ONLY <1>14, <2>2
  <1>16. /\ release \in {<<>>, <<Plain>>} /\ default \in {DefaultBranch(Front(nested)), <<Unreachable>>}
         /\ table2 = With(cleaned, F.cont, release \o default)
         /\ p2.block = F.cont /\ p2.behind = Len(default)
    BY <1>1, <1>2, <1>3, <1>5, <1>6, <1>14, <1>15
  <1>17. Flowing(stat_nodes, fl, frames', table2, created, p2, Front(nested))
    BY ONLY <1>7, <1>8, <1>13, <1>16, EndFlows, Walking(R, Y), Y \in SUBSET Block,
            Fitting(E, Z, env, mid, lv, dp), FlowsNow(fl)
  <1>18. stat_nodes' = stat_nodes /\ created' = created
    BY DEF EmitCondEnd, EmitUnchanged, builderVars
  <1>. QED BY ONLY <1>1, <1>9, <1>17, <1>18 DEF FlowsNow

\* From the if-part to the else-part.
LEMMA CondElseKeepsFlowing ==
    ASSUME NEW R, NEW Y \in SUBSET Block, Walking(R, Y), EmitCondElse,
           NEW E, NEW Z, NEW env, NEW mid, NEW lv, NEW dp, Fitting(E, Z, env, mid, lv, dp),
           NEW fl, FlowsNow(fl)
    PROVE  FlowsNow(fl)'
  <1>1. PICK tree, f, c, s, e, t, z, p, n :
           /\ tree = stat_nodes /\ f = F /\ c = created /\ s = StatAt(stat_nodes, F) /\ e = Last(nested)
           /\ t = AtEnd(stat_nodes, Visible, Child(stat_nodes, F))
           /\ z = Ahead(stat_nodes, Visible, F.block, F.pc + 1) /\ p = point /\ n = Len(frames)
    OBVIOUS
  <1>2. PICK g, els, cont : g = [f EXCEPT !.visiting = 2] /\ els = f.els /\ cont = f.cont
    OBVIOUS
  <1>3. PICK table, p2 : table = Closed(f.inner) /\ p2 = [block |-> els, behind |-> 0]
    OBVIOUS
  <1>4. PICK old, less, e2 : old = nested /\ less = Front(old) /\ e2 = CondEntry(cont)
    OBVIOUS
  <1>5. PICK ne, y, stack, fs : /\ ne = Append(less, e2) /\ y = s.alt /\ stack = frames
                                /\ fs = Append(SetTop(stack, g), Visit(y))
    OBVIOUS
  <1>6. /\ InRange(tree, f) /\ f.visiting = 1 /\ s = StatAt(tree, f) /\ s.kind = "cond"
        /\ s.alt # NoBlock /\ ~IsLoop(s) /\ s.kind \notin LeafKind
    BY <1>1 DEF EmitCondElse, AtStat, Here, IsLoop, LoopKind, LeafKind, ExitKind
  <1>7. /\ ops' = table /\ point' = p2 /\ nested' = ne /\ frames' = fs
        /\ created' = c /\ stat_nodes' = tree
    BY <1>1, <1>2, <1>3, <1>4, <1>5 DEF EmitCondElse, EmitUnchanged, builderVars, Here
  <1>8. Owns(stat_nodes, F)
    BY <1>1, <1>6 DEF Owns
  <1>9. Ending(stat_nodes, fl, f, s, e, nested, ops, created, p, t, z)
    BY <1>1, <1>8, BodyEndFlows
  <1>10. Place(R, Y, f, n) /\ n \in OwnersOf(tree, stack) /\ f = stack[n] /\ f \in CFrame
    <2>1. Place(R, Y, f, n)
      BY <1>1, Position
    <2>. QED BY <1>1, <1>5, <1>8, <2>1 DEF Place
  <1>11. TableFlows(tree, fl, table, c, {})
    <2>1. p.block \in 1..created
      BY <1>1, <1>10 DEF Place
    <2>2. TableFlows(stat_nodes, fl, Closed(f.inner), created, {})
      BY ONLY <1>1, <1>6, <1>9, <2>1, ClosedFlows
    <2>. QED BY ONLY <1>1, <1>3, <2>2
  <1>12. els \in Waits(stat_nodes, F) /\ els \in 1..c /\ ops[els] = <<>>
    <2>1. els \in Waits(stat_nodes, F)
      BY <1>1, <1>2, <1>6 DEF Waits
    <2>. QED BY <1>1, <1>8, <2>1, AwaitedFits
  <1>13. table[els] = <<>>
    <2>1. CASE HasTerminator(ops[f.inner])
      BY <1>3, <1>12, <2>1 DEF Closed
    <2>2. CASE ~HasTerminator(ops[f.inner])
      <3>1. f.inner = Cur(F)
        BY <1>1, <1>6 DEF Cur
      <3>2. p.block = f.inner
        BY <1>1, <1>8, <2>2, <3>1, BodyEnd
      <3>3. els # f.inner
        <4>1. FramesOK(tree, stack, c)
          BY <1>1, <1>5 DEF Walking, WalkOK
        <4>2. Cur(f) \notin Waits(tree, f)
          BY ONLY <1>10, <4>1 DEF FramesOK, FrameOK
        <4>. QED BY <1>1, <1>12, <3>1, <4>2
      <3>4. table = Insert(ops, point, <<Br({F.cont})>>)
        BY <1>3, <2>2 DEF Closed
      <3>5. table[els] = ops[els]
        BY <1>1, <3>2, <3>3, <3>4 DEF Insert
      <3>. QED BY ONLY <1>12, <3>5
    <2>. QED BY <2>1, <2>2
  <1>14. /\ Shape(tree) /\ DOMAIN fl = 1..c /\ fl[1] \subseteq Ahead(tree, Visible, Root, 1)
         /\ \A k \in 1..Len(old) : EntryFlows(tree, fl, old[k])
         /\ \A k \in OwnersOf(tree, stack) : FrameFlows(tree, fl, stack[k])
    BY <1>1, <1>4, <1>5 DEF FlowsNow, Flowing
  <1>15. fl[els] = Ahead(tree, Visible, y, 1) /\ fl[cont] = Ahead(tree, Visible, f.block, f.pc + 1)
    BY ONLY <1>2, <1>5, <1>6, <1>10, <1>14 DEF FrameFlows
  <1>16. g \in CFrame /\ g.block = f.block /\ g.pc = f.pc /\ g.visiting = 2 /\ g.cont = cont
    BY ONLY <1>2, <1>10 DEF CFrame
  <1>17. Descended(tree, Y, stack, g, y, fs) /\ y \in Y
    <2>1. /\ g \in CFrame /\ g.block = F.block /\ g.pc = F.pc /\ s.kind \notin LeafKind
          /\ g.visiting = 2 /\ s.alt # NoBlock /\ y = s.alt /\ InRange(stat_nodes, F)
      BY ONLY <1>1, <1>5, <1>6, <1>16
    <2>2. fs = Append(SetTop(frames, g), Visit(y))
      BY ONLY <1>5
    <2>3. y \in Y \ {Root} /\ Descended(stat_nodes, Y, frames, g, y, fs)
      BY <1>1, <2>1, <2>2, StepIn
    <2>. QED BY ONLY <1>1, <1>5, <2>3
  <1>18. y \in Block /\ Top(fs) = Visit(y) /\ fs[n] = g
    BY ONLY <1>1, <1>5, <1>17, Y \in SUBSET Block DEF Descended
  <1>19. tree \in Tree
    BY <1>1 DEF Walking, WalkOK
  <1>20. /\ Top(fs).visiting = 0 /\ Top(fs).pc <= Len(tree[Top(fs).block]) + 1
         /\ CurFrom(tree, Top(fs)) = Ahead(tree, Visible, y, 1)
    BY ONLY <1>18, <1>19, VisitFlows
  <1>21. PointFlows(tree, fl, fl[p2.block], table[p2.block], p2.behind, CurFrom(tree, Top(fs)), Default(fl, ne))
    <2>1. PICK a : a = Ahead(tree, Visible, y, 1)
      OBVIOUS
    <2>2. Flows(tree, fl, a, <<>>, a)
      BY FlowsNothing
    <2>3. p2.block = els /\ p2.behind = 0
      BY <1>3
    <2>4. Flows(tree, fl, fl[els], table[els], a)
      BY ONLY <1>13, <1>15, <2>1, <2>2
    <2>5. PointFlows(tree, fl, fl[els], table[els], 0, a, Default(fl, ne))
      BY ONLY <2>4, PointStarts
    <2>. QED BY ONLY <1>20, <2>1, <2>3, <2>5
  <1>22. \A k \in OwnersOf(tree, fs) : FrameFlows(tree, fl, fs[k])
    <2>1. ASSUME NEW k \in OwnersOf(tree, fs), k # n PROVE FrameFlows(tree, fl, fs[k])
      <3>1. k \in OwnersOf(tree, stack) /\ fs[k] = stack[k]
        BY ONLY <1>1, <1>5, <1>17, <2>1 DEF Descended
      <3>. QED BY ONLY <1>14, <3>1
    <2>2. FrameFlows(tree, fl, g)
      BY ONLY <1>15, <1>16 DEF FrameFlows
    <2>. QED BY ONLY <1>18, <2>1, <2>2
  <1>23. \A k \in 1..Len(ne) : EntryFlows(tree, fl, ne[k])
    <2>1. IsSeq(old)
      BY <1>4 DEF Fitting, Fits, NestFits
    <2>2. PICK m \in Nat : m = Len(old) /\ m > 0
      <3>1. Len(nested) \in Nat /\ Len(nested) > 0
        BY <1>1, <1>8, TopEntry
      <3>. QED BY <1>4, <3>1
    <2>3. IsSeq(less) /\ Len(less) = m - 1 /\ \A i \in 1..(m - 1) : less[i] = old[i]
      BY ONLY <1>4, <2>1, <2>2, FrontProps
    <2>4. Len(ne) = (m - 1) + 1 /\ (\A k \in 1..(m - 1) : ne[k] = less[k]) /\ ne[(m - 1) + 1] = e2
      BY ONLY <1>5, <2>3, AppendAt
    <2>5. EntryFlows(tree, fl, e2)
      <3>1. cont \in DOMAIN fl
        BY ONLY <1>1, <1>2, <1>9, <1>14 DEF Ending
      <3>2. e2.cont = cont /\ e2.back = Null
        BY ONLY <1>4 DEF CondEntry
      <3>. QED BY ONLY <3>1, <3>2 DEF EntryFlows
    <2>6. \A k \in 1..((m - 1) + 1) : (k \in 1..(m - 1) /\ k \in 1..m) \/ k = (m - 1) + 1
      BY <2>2
    <2>. QED BY ONLY <1>14, <2>2, <2>3, <2>4, <2>5, <2>6
  <1>24. TableFlows(tree, fl, table, c, {p2.block})
    BY ONLY <1>11 DEF TableFlows
  <1>25. Flowing(tree, fl, fs, table, c, p2, ne)
    BY ONLY <1>14, <1>20, <1>21, <1>22, <1>23, <1>24 DEF Flowing
  <1>. QED BY ONLY <1>7, <1>25 DEF FlowsNow

-----------------------------------------------------------------------------
(* The walk keeps the labels, and the execution follows them.              *)

\* The one block there is when the walk starts.
LEMMA EmissionFlows ==
    ASSUME NEW tree \in Tree, Shape(tree), NEW fs, fs = <<Visit(Root)>>,
           NEW table, table = [b \in 1..1 |-> <<>>], NEW p, p = [block |-> 1, behind |-> 0],
           NEW c, c = 1, NEW ne, ne = <<>>
    PROVE  \E fl : Flowing(tree, fl, fs, table, c, p, ne)
  <1>1. PICK a : a = Ahead(tree, Visible, Root, 1)
    OBVIOUS
  <1>2. PICK fl : fl = [b \in 1..1 |-> a]
    OBVIOUS
  <1>3. DOMAIN fl = 1..c /\ fl[1] = a /\ 1 \in 1..c /\ \A b \in 1..c : b = 1
    BY <1>2
  <1>4. DOMAIN table = 1..c /\ table[1] = <<>>
    OBVIOUS
  <1>5. p.block = 1 /\ p.behind = 0
    OBVIOUS
  <1>6. TableFlows(tree, fl, table, c, {p.block})
    BY ONLY <1>3, <1>4, <1>5 DEF TableFlows
  <1>7. Root \in Block
    BY RootIsBlock
  <1>8. PICK f : f = Visit(Root)
    OBVIOUS
  <1>9. fs \in Seq({f}) /\ Len(fs) = 1 /\ fs[1] = f
    BY <1>8
  <1>10. Top(fs) = f
    BY ONLY <1>9 DEF Top
  <1>11. f.visiting = 0 /\ f.pc <= Len(tree[f.block]) + 1 /\ CurFrom(tree, f) = a
    BY ONLY <1>1, <1>7, <1>8, VisitFlows, tree \in Tree
  <1>12. PointFlows(tree, fl, fl[p.block], table[p.block], p.behind, CurFrom(tree, Top(fs)), Default(fl, ne))
    <2>1. Flows(tree, fl, a, <<>>, a)
      BY FlowsNothing
    <2>2. PointFlows(tree, fl, a, <<>>, 0, a, Default(fl, ne))
      BY ONLY <2>1, PointStarts
    <2>. QED BY ONLY <1>3, <1>4, <1>5, <1>10, <1>11, <2>2
  <1>13. OwnersOf(tree, fs) = {}
    <2>1. \A k \in 1..1 : k = 1
      OBVIOUS
    <2>. QED BY ONLY <1>9, <1>11, <2>1 DEF OwnersOf, Owns
  <1>14. \A k : k \notin 1..Len(ne)
    <2>1. Len(ne) = 0
      BY ONLY Tuples, ne = <<>>
    <2>2. \A k : k \notin 1..0
      OBVIOUS
    <2>. QED BY ONLY <2>1, <2>2
  <1>15. Flowing(tree, fl, fs, table, c, p, ne)
    BY ONLY <1>1, <1>3, <1>6, <1>10, <1>11, <1>12, <1>13, <1>14, Shape(tree) DEF Flowing
  <1>. QED BY ONLY <1>15

\* Where the execution is in the blocks, after statement x.
Following(tree, fl, table, c, p, x) ==
    /\ p \in [block: Nat, pc: Nat]
    /\ p.block \in 1..c /\ p.pc \in 1..Len(table[p.block])
    /\ \E w : /\ FlowsBy(tree, fl, fl[p.block], table[p.block], {}, w)
              /\ w[p.pc] \subseteq NextStatements(tree, x, Visible)

PathInv ==
    /\ pass \in {"build", "emit"} => executed = NoStat
    /\ pass = "emit" => \E fl : FlowsNow(fl)
    /\ pass = "run" =>
         \E fl : /\ DOMAIN fl = 1..created
                 /\ TableFlows(stat_nodes, fl, ops, created, {})
                 /\ at # Stopped => Following(stat_nodes, fl, ops, created, at, executed)

\* The start of a block.
LEMMA FollowsBlock ==
    ASSUME NEW tree, NEW fl, NEW table, NEW c \in Nat, TableFlows(tree, fl, table, c, {}),
           NEW b \in 1..c, HasTerminator(table[b]), NEW x, fl[b] \subseteq NextStatements(tree, x, Visible),
           NEW p, p = [block |-> b, pc |-> 1]
    PROVE  Following(tree, fl, table, c, p, x)
  <1>1. p \in [block: Nat, pc: Nat] /\ p.block = b /\ p.pc = 1
    OBVIOUS
  <1>2. Flows(tree, fl, fl[b], table[b], {})
    BY ONLY TableFlows(tree, fl, table, c, {}), b \in 1..c DEF TableFlows
  <1>3. PICK w : FlowsBy(tree, fl, fl[b], table[b], {}, w)
    BY ONLY <1>2 DEF Flows
  <1>4. w[1] \subseteq NextStatements(tree, x, Visible)
    BY ONLY <1>3, fl[b] \subseteq NextStatements(tree, x, Visible) DEF FlowsBy
  <1>5. 1 \in 1..Len(table[b])
    BY ONLY <1>2, HasTerminator(table[b]), BlocksGoOn DEF Flows
  <1>. QED BY ONLY <1>1, <1>3, <1>4, <1>5, b \in 1..c DEF Following

\* The end of the walk.
LEMMA WalkEndFlows ==
    ASSUME NEW R, NEW Y \in SUBSET Block, Walking(R, Y), LeaveBlock, Len(frames) = 1,
           NEW fl, FlowsNow(fl), executed = NoStat, Verified
    PROVE  /\ DOMAIN fl = 1..created /\ TableFlows(stat_nodes, fl, ops, created, {})
           /\ Following(stat_nodes, fl, ops, created, [block |-> 1, pc |-> 1], NoStat)
  <1>1. PICK tree, f, c, table, p, ne : /\ tree = stat_nodes /\ f = F /\ c = created /\ table = ops
                                        /\ p = point /\ ne = nested
    OBVIOUS
  <1>2. /\ tree \in Tree /\ ChainOK(tree, Y, frames) /\ NestedOK(ne, OwnersOf(tree, frames), last)
    BY <1>1 DEF Walking, WalkOK
  <1>3. ~InRange(stat_nodes, F) /\ F.visiting = 0
    <2>1. ~InRange(stat_nodes, F)
      BY DEF LeaveBlock
    <2>. QED BY <2>1, AtEndOfBlock
  <1>4. ne = <<>>
    <2>1. OwnersOf(tree, frames) = {}
      <3>1. \A k \in 1..1 : k = 1
        OBVIOUS
      <3>2. Top(frames) = frames[1]
        BY ONLY <1>2, StackTop, Len(frames) = 1
      <3>3. ~Owns(tree, frames[1])
        BY ONLY <1>3, <3>2 DEF Owns, F
      <3>. QED BY ONLY <3>1, <3>3, Len(frames) = 1 DEF OwnersOf
    <2>2. IsSeq(ne) /\ Len(ne) = 0
      BY ONLY <1>2, <2>1, FS_EmptySet DEF NestedOK
    <2>. QED BY ONLY <2>2, SeqProps
  <1>5. /\ Shape(tree) /\ DOMAIN fl = 1..c /\ fl[1] \subseteq Ahead(tree, Visible, Root, 1)
        /\ TableFlows(tree, fl, table, c, {p.block})
        /\ PointFlows(tree, fl, fl[p.block], table[p.block], p.behind, CurFrom(tree, f), Default(fl, ne))
    BY <1>1 DEF FlowsNow, Flowing, F
  <1>6. Default(fl, ne) \subseteq CurFrom(tree, f)
    BY ONLY <1>4 DEF Default
  <1>7. Flows(tree, fl, fl[p.block], table[p.block], {})
    BY ONLY <1>5, <1>6, PointCloses
  <1>8. TableFlows(tree, fl, table, c, {})
    BY ONLY <1>5, <1>7 DEF TableFlows
  <1>9. c \in Nat /\ 1 \in 1..c
    <2>1. c \in Nat /\ p.block \in 1..c
      BY <1>1, Position DEF Place
    <2>. QED BY <2>1
  <1>10. HasTerminator(table[1])
    BY ONLY <1>1, <1>9, Verified DEF Verified, WellFormed
  <1>11. fl[1] \subseteq NextStatements(tree, NoStat, Visible)
    BY ONLY <1>2, <1>5, StartHasPaths
  <1>12. PICK q : q = [block |-> 1, pc |-> 1]
    OBVIOUS
  <1>13. Following(tree, fl, table, c, q, NoStat)
    BY ONLY <1>8, <1>9, <1>10, <1>11, <1>12, FollowsBlock
  <1>. QED BY ONLY <1>1, <1>5, <1>8, <1>12, <1>13

\* An execution of an operation follows the program.
LEMMA ExecuteFollows ==
    ASSUME SavedInv, PathInv, Execute
    PROVE  /\ PathInv'
           /\ executed' = executed \/ executed' \in NextStatements(stat_nodes, executed, Visible)
  <1>0. CanStep /\ pass = "run" /\ at # Stopped
    BY DEF Execute, ExecuteOp, ExecuteBranch, ExecuteReturn, CanStep
  <1>1. /\ stat_nodes' = stat_nodes /\ ops' = ops /\ created' = created /\ pass' = "run"
    BY <1>0 DEF Execute, ExecuteOp, ExecuteBranch, ExecuteReturn, ExecUnchanged, builderVars, emitVars
  <1>2. PICK fl : /\ DOMAIN fl = 1..created /\ TableFlows(stat_nodes, fl, ops, created, {})
                  /\ Following(stat_nodes, fl, ops, created, at, executed)
    BY <1>0 DEF PathInv
  <1>3. PICK env, mid : Labels(env, mid, created)
    BY <1>0 DEF SavedInv, RunInv, Running
  <1>4. PICK table, p, c, tree, x, x2 : /\ table = ops /\ p = at /\ c = created
                                        /\ tree = stat_nodes /\ x = executed /\ x2 = executed'
    OBVIOUS
  <1>5. PICK s : s = table[p.block]
    OBVIOUS
  <1>6. PICK op : op = s[p.pc]
    OBVIOUS
  <1>7. /\ p \in [block: Nat, pc: Nat] /\ p.block \in 1..c /\ p.pc \in 1..Len(s) /\ OpAt(at) = op
    BY ONLY <1>2, <1>4, <1>5, <1>6 DEF Following, OpAt
  <1>8. PICK w : /\ FlowsBy(tree, fl, fl[p.block], s, {}, w)
                 /\ w[p.pc] \subseteq NextStatements(tree, x, Visible)
    BY ONLY <1>2, <1>4, <1>5 DEF Following
  <1>9. PICK a : a = w[p.pc]
    OBVIOUS
  <1>10. PICK z : z = w[p.pc + 1]
    OBVIOUS
  <1>11. OpFlows(tree, fl, a, op, z) /\ a \subseteq NextStatements(tree, x, Visible)
    BY ONLY <1>6, <1>7, <1>8, <1>9, <1>10 DEF FlowsBy
  <1>12. TableFlows(tree, fl, table, c, {}) /\ DOMAIN fl = 1..c
    BY ONLY <1>2, <1>4
  <1>13. c \in Nat
    BY ONLY <1>3, <1>4 DEF Labels
  <1>14. \A b \in 1..c : HasTerminator(table[b])
    BY ONLY <1>0, <1>4 DEF CanStep, Verified, WellFormed
  <1>15. IsSeq(s)
    BY ONLY <1>5, <1>7, <1>12 DEF TableFlows, Flows
  <1>16. PICK q : q = at'
    OBVIOUS
  <1>17. ASSUME q # Stopped => Following(tree, fl, table, c, q, x2)
         PROVE  PathInv'
    <2>1. \E fl2 : /\ DOMAIN fl2 = 1..created' /\ TableFlows(stat_nodes', fl2, ops', created', {})
                   /\ at' # Stopped => Following(stat_nodes', fl2, ops', created', at', executed')
      BY ONLY <1>1, <1>4, <1>12, <1>16, <1>17
    <2>. QED BY ONLY <1>1, <2>1 DEF PathInv
  <1>18. op.stat # NoStat => op.stat \in NextStatements(tree, x, Visible)
    BY ONLY <1>11 DEF OpFlows
  <1>19. CASE ExecuteOp
    <2>1. op.kind \in {"op", "save", "restore"} /\ at' = Advance(at)
          /\ x2 = IF op.stat = NoStat THEN x ELSE op.stat
      BY <1>4, <1>7, <1>19 DEF ExecuteOp, Labelled
    <2>2. ~IsTerminator(op)
      BY ONLY <2>1 DEF IsTerminator, TerminatorKind
    <2>3. HasTerminator(s)
      BY ONLY <1>5, <1>7, <1>14
    <2>4. p.pc + 1 \in 1..Len(s)
      BY ONLY <1>6, <1>7, <1>15, <2>2, <2>3, BlocksGoOn
    <2>5. q = [p EXCEPT !.pc = p.pc + 1]
      BY ONLY <1>4, <1>16, <2>1 DEF Advance
    <2>6. q \in [block: Nat, pc: Nat] /\ q.block = p.block /\ q.pc = p.pc + 1
      BY ONLY <1>7, <2>5
    <2>7. z \subseteq Out(tree, a, op)
      BY ONLY <1>11, <2>2 DEF OpFlows
    <2>8. Out(tree, a, op) \subseteq NextStatements(tree, x2, Visible)
      <3>1. CASE op.stat = NoStat
        BY ONLY <1>11, <2>1, <3>1 DEF Out
      <3>2. CASE op.stat # NoStat
        BY ONLY <2>1, <3>2 DEF Out
      <3>. QED BY ONLY <3>1, <3>2
    <2>9. w[q.pc] \subseteq NextStatements(tree, x2, Visible)
      BY ONLY <1>10, <2>6, <2>7, <2>8
    <2>10. Following(tree, fl, table, c, q, x2)
      BY ONLY <1>5, <1>7, <1>8, <2>4, <2>6, <2>9 DEF Following
    <2>11. x2 = x \/ x2 \in NextStatements(tree, x, Visible)
      BY ONLY <1>18, <2>1
    <2>. QED BY ONLY <1>4, <1>17, <2>10, <2>11
  <1>20. CASE ExecuteBranch
    <2>1. PICK b \in op.to : at' = [block |-> b, pc |-> 1]
      BY <1>7, <1>20 DEF ExecuteBranch
    <2>2. x2 = x
      BY <1>4, <1>20 DEF ExecuteBranch
    <2>3. b \in 1..c /\ fl[b] \subseteq a
      BY ONLY <1>11, <1>12, <2>1 DEF OpFlows
    <2>4. fl[b] \subseteq NextStatements(tree, x2, Visible)
      BY ONLY <1>11, <2>2, <2>3
    <2>5. HasTerminator(table[b])
      BY ONLY <1>14, <2>3
    <2>6. Following(tree, fl, table, c, q, x2)
      BY ONLY <1>12, <1>13, <1>16, <2>1, <2>3, <2>4, <2>5, FollowsBlock
    <2>. QED BY ONLY <1>4, <1>17, <2>2, <2>6
  <1>21. CASE ExecuteReturn
    <2>1. q = Stopped /\ x2 = IF op.stat = NoStat THEN x ELSE op.stat
      BY <1>4, <1>7, <1>16, <1>21 DEF ExecuteReturn, Labelled
    <2>2. x2 = x \/ x2 \in NextStatements(tree, x, Visible)
      BY ONLY <1>18, <2>1
    <2>. QED BY ONLY <1>4, <1>17, <2>1, <2>2
  <1>. QED BY <1>19, <1>20, <1>21 DEF Execute

\* A step that leaves the last executed statement and does not end the walk.
LEMMA StillEmitting ==
    ASSUME NEW fl, FlowsNow(fl)', pass' = "emit", executed' = NoStat
    PROVE  PathInv'
  <1>1. \E fl2 : FlowsNow(fl2)'
    OBVIOUS
  <1>. QED BY ONLY <1>1, pass' = "emit", executed' = NoStat DEF PathInv

\* The walk keeps the labels, and at its end the execution starts.
LEMMA EmitKeepsPathInv ==
    ASSUME EmitInv, EmitInv', SavedInv, PathInv, Emit
    PROVE  PathInv' /\ executed' = executed
  <1>1. pass = "emit"
    BY DEF Emit, EmitLeaf, EmitBlock, EmitLoopStart, EmitLoopEnd, EmitCondStart, EmitCondElse,
           EmitCondEnd, LeaveBlock, AtStat
  <1>2. PICK R \in SUBSET Block, Y \in SUBSET Block : Walking(R, Y)
    BY <1>1 DEF EmitInv
  <1>3. PICK E, Z, env, mid, lv, dp : Fitting(E, Z, env, mid, lv, dp)
    BY <1>1 DEF SavedInv, Fitted
  <1>4. PICK fl : FlowsNow(fl)
    BY <1>1 DEF PathInv
  <1>5. executed = NoStat
    BY <1>1 DEF PathInv
  <1>6. IsSeq(nested)
    BY ONLY <1>3 DEF Fitting, Fits, NestFits
  <1>7. ASSUME EmitUnchanged PROVE pass' = "emit" /\ executed' = NoStat /\ executed' = executed
    BY <1>1, <1>5, <1>7 DEF EmitUnchanged, execVars
  <1>8. CASE EmitLeaf
    <2>1. FlowsNow(fl)'
      BY <1>2, <1>3, <1>4, <1>8, LeafKeepsFlowing
    <2>2. EmitUnchanged
      BY <1>8 DEF EmitLeaf
    <2>. QED BY ONLY <1>7, <2>1, <2>2, StillEmitting
  <1>9. CASE EmitBlock
    <2>1. FlowsNow(fl)'
      BY <1>2, <1>4, <1>9, BlockKeepsFlowing
    <2>2. EmitUnchanged
      BY <1>9 DEF EmitBlock
    <2>. QED BY ONLY <1>7, <2>1, <2>2, StillEmitting
  <1>10. CASE EmitLoopStart
    <2>1. PICK fl2 : FlowsNow(fl2)'
      BY <1>2, <1>4, <1>6, <1>10, LoopStartKeepsFlowing
    <2>2. EmitUnchanged
      BY <1>10 DEF EmitLoopStart
    <2>. QED BY ONLY <1>7, <2>1, <2>2, StillEmitting
  <1>11. CASE EmitLoopEnd
    <2>1. FlowsNow(fl)'
      BY <1>2, <1>3, <1>4, <1>11, LoopEndKeepsFlowing
    <2>2. EmitUnchanged
      BY <1>11 DEF EmitLoopEnd
    <2>. QED BY ONLY <1>7, <2>1, <2>2, StillEmitting
  <1>12. CASE EmitCondStart
    <2>1. PICK fl2 : FlowsNow(fl2)'
      BY <1>2, <1>4, <1>6, <1>12, CondStartKeepsFlowing
    <2>2. EmitUnchanged
      BY <1>12 DEF EmitCondStart
    <2>. QED BY ONLY <1>7, <2>1, <2>2, StillEmitting
  <1>13. CASE EmitCondElse
    <2>1. FlowsNow(fl)'
      BY <1>2, <1>3, <1>4, <1>13, CondElseKeepsFlowing
    <2>2. EmitUnchanged
      BY <1>13 DEF EmitCondElse
    <2>. QED BY ONLY <1>7, <2>1, <2>2, StillEmitting
  <1>14. CASE EmitCondEnd
    <2>1. FlowsNow(fl)'
      BY <1>2, <1>3, <1>4, <1>14, CondEndKeepsFlowing
    <2>2. EmitUnchanged
      BY <1>14 DEF EmitCondEnd
    <2>. QED BY ONLY <1>7, <2>1, <2>2, StillEmitting
  <1>15. CASE LeaveBlock /\ Len(frames) # 1
    <2>1. FlowsNow(fl)'
      BY <1>2, <1>4, <1>15, LeaveKeepsFlowing
    <2>2. pass' = "emit" /\ executed' = NoStat /\ executed' = executed
      BY <1>1, <1>5, <1>15 DEF LeaveBlock
    <2>. QED BY ONLY <2>1, <2>2, StillEmitting
  <1>16. CASE LeaveBlock /\ Len(frames) = 1
    <2>1. /\ pass' = "run" /\ at' = [block |-> 1, pc |-> 1]
          /\ executed' = NoStat /\ executed' = executed
          /\ stat_nodes' = stat_nodes /\ ops' = ops /\ created' = created
      BY <1>5, <1>16 DEF LeaveBlock, builderVars
    <2>2. Verified
      BY <1>2, <1>16, LeaveEnds
    <2>3. /\ DOMAIN fl = 1..created /\ TableFlows(stat_nodes, fl, ops, created, {})
          /\ Following(stat_nodes, fl, ops, created, [block |-> 1, pc |-> 1], NoStat)
      BY <1>2, <1>4, <1>5, <1>16, <2>2, WalkEndFlows
    <2>4. \E fl2 : /\ DOMAIN fl2 = 1..created' /\ TableFlows(stat_nodes', fl2, ops', created', {})
                   /\ at' # Stopped => Following(stat_nodes', fl2, ops', created', at', executed')
      BY ONLY <2>1, <2>3
    <2>. QED BY ONLY <2>1, <2>4 DEF PathInv
  <1>. QED BY <1>8, <1>9, <1>10, <1>11, <1>12, <1>13, <1>14, <1>15, <1>16 DEF Emit

\* When code generation starts, its one empty block leads to the program.
LEMMA PrepareFlows ==
    ASSUME EmitInv, Prepare, pass' = "emit"
    PROVE  \E fl : FlowsNow(fl)'
  <1>1. /\ pass = "build" /\ BuilderTypeOK /\ BuildInv /\ Fresh /\ Accepted(stat_nodes)
    BY DEF Prepare, EmitInv
  <1>2. PICK raw \in Tree : raw = stat_nodes
    BY <1>1 DEF BuilderTypeOK
  <1>3. PICK released : released = AddFreeNodes(raw, FALSE)
    OBVIOUS
  <1>4. PICK tree : tree = ExitPruned(ReturnPruned(released))
    OBVIOUS
  <1>5. Shape(raw) /\ Accepted(raw)
    BY <1>1, <1>2 DEF BuildInv
  <1>6. tree \in Tree /\ Shape(tree)
    BY <1>3, <1>4, <1>5, PassesKeepShape
  <1>7. /\ stat_nodes' = tree /\ frames' = <<Visit(Root)>> /\ ops' = ops /\ created' = created
        /\ point' = point /\ nested' = nested
    BY <1>1, <1>2, <1>3, <1>4, Prepared
  <1>8. /\ ops = [b \in 1..1 |-> <<>>] /\ created = 1 /\ point = [block |-> 1, behind |-> 0]
        /\ nested = <<>>
    BY <1>1 DEF Fresh
  <1>9. PICK fs, table, p, c, ne : /\ fs = frames' /\ table = ops /\ p = point
                                   /\ c = created /\ ne = nested
    OBVIOUS
  <1>10. PICK fl : Flowing(tree, fl, fs, table, c, p, ne)
    BY ONLY <1>6, <1>7, <1>8, <1>9, EmissionFlows
  <1>11. FlowsNow(fl)'
    BY ONLY <1>7, <1>9, <1>10 DEF FlowsNow
  <1>. QED BY <1>11

\* The steps of the passes before, and none at all.
LEMMA OthersKeepPathInv ==
    ASSUME EmitInv, PathInv, Building \/ Prepare \/ UNCHANGED vars
    PROVE  PathInv' /\ executed' = executed
  <1>1. CASE Building
    <2>1. pass = "build" /\ pass' = "build" /\ executed' = executed
      BY <1>1 DEF Building, execVars
    <2>. QED BY ONLY <2>1, PathInv DEF PathInv
  <1>2. CASE Prepare
    <2>1. pass = "build" /\ pass' \in {"emit", "rejected"} /\ executed' = executed
      BY <1>2, Prepared DEF Prepare, execVars
    <2>2. pass' = "emit" => \E fl : FlowsNow(fl)'
      BY <1>2, PrepareFlows
    <2>. QED BY ONLY <2>1, <2>2, PathInv DEF PathInv
  <1>3. CASE UNCHANGED vars
    <2>1. /\ stat_nodes' = stat_nodes /\ pass' = pass /\ frames' = frames /\ ops' = ops
          /\ created' = created /\ point' = point /\ nested' = nested /\ at' = at
          /\ executed' = executed
      BY <1>3 DEF vars, builderVars, emitVars, execVars
    <2>2. ASSUME NEW fl, FlowsNow(fl) PROVE FlowsNow(fl)'
      BY ONLY <2>1, <2>2 DEF FlowsNow
    <2>3. pass' = "emit" => \E fl : FlowsNow(fl)'
      BY <2>1, <2>2 DEF PathInv
    <2>. QED BY ONLY <2>1, <2>3, PathInv DEF PathInv
  <1>. QED BY <1>1, <1>2, <1>3

-----------------------------------------------------------------------------
(* The operators on trees of the abstract specification, which comes with  *)
(* its own instance of Paths, are those of the detailed one.               *)

\* The blocks and the kinds of a leaf.
LEMMA SameBlocks == Program!Block = Block /\ Program!Root = Root /\ Program!LeafKind = LeafKind
  BY DEF Program!Block, Block, Program!Root, Root, Program!LeafKind, LeafKind, Program!ExitKind, ExitKind

\* What of a program can be seen.
LEMMA SameVisible == Program!Visible = Visible
  BY DEF Program!Visible, Visible, Program!LeafKind, Program!ExitKind, ExitKind

\* Who owns a block.
LEMMA SameOwners ==
    ASSUME NEW tree, NEW b
    PROVE  Program!Owners(tree, b) = Owners(tree, b)
  BY DEF Program!Owners, Owners, Program!Block, Block, Program!SubBlocks, SubBlocks,
         Program!NoBlock, NoBlock

\* The one owner of a block.
LEMMA SameOwner ==
    ASSUME NEW tree, NEW b
    PROVE  Program!Owner(tree, b) = Owner(tree, b)
  BY SameOwners DEF Program!Owner, Owner

\* The loop around a block.
LEMMA SameLoopAround ==
    ASSUME NEW tree, NEW b
    PROVE  Program!LoopAround(tree, b) = LoopAround(tree, b)
  BY DEF Program!LoopAround, LoopAround, Program!Owners, Owners, Program!Block, Block,
         Program!SubBlocks, SubBlocks, Program!NoBlock, NoBlock, Program!IsLoop, IsLoop,
         Program!LoopKind, LoopKind

\* At the end of a block.
LEMMA SameAfterBlock ==
    ASSUME NEW tree, NEW b
    PROVE  Program!AfterBlock(tree, b) = AfterBlock(tree, b)
  BY SameOwner DEF Program!AfterBlock, AfterBlock, Program!Root, Root, Program!IsLoop, IsLoop,
                   Program!LoopKind, LoopKind, Program!MayExit, MayExit

\* Behind a leaf.
LEMMA SameAfterLeaf ==
    ASSUME NEW tree, NEW p
    PROVE  Program!AfterLeaf(tree, p) = AfterLeaf(tree, p)
  <1>1. Program!LoopAround(tree, p[1]) = LoopAround(tree, p[1])
    BY SameLoopAround
  <1>2. Program!Owner(tree, LoopAround(tree, p[1])) = Owner(tree, LoopAround(tree, p[1]))
    BY SameOwner
  <1>3. Program!AfterBlock(tree, LoopAround(tree, p[1])) = AfterBlock(tree, LoopAround(tree, p[1]))
    BY SameAfterBlock
  <1>. QED BY ONLY <1>1, <1>2, <1>3 DEF Program!AfterLeaf, AfterLeaf

\* Without executing anything that can be seen.
LEMMA SameSilently ==
    ASSUME NEW tree, NEW p, NEW v
    PROVE  Program!Silently(tree, p, v) = Silently(tree, p, v)
  <1>1. Program!AfterBlock(tree, p[1]) = AfterBlock(tree, p[1])
    BY SameAfterBlock
  <1>2. \A s : Program!SubBlocks(s) = SubBlocks(s) /\ (Program!MaySkip(s) <=> MaySkip(s))
    BY DEF Program!SubBlocks, SubBlocks, Program!MaySkip, MaySkip, Program!NoBlock, NoBlock
  <1>3. Program!LeafKind = LeafKind
    BY SameBlocks
  <1>. QED BY ONLY <1>1, <1>2, <1>3 DEF Program!Silently, Silently

\* How many positions there are.
LEMMA SameCardinality ==
    ASSUME NEW S
    PROVE  Program!Cardinality(S) = Cardinality(S)
  BY DEF Program!Cardinality, Cardinality

\* And so the paths.
LEMMA SameNextStatements ==
    ASSUME NEW tree, NEW p, NEW v
    PROVE  Program!NextStatements(tree, p, v) = NextStatements(tree, p, v)
  <1>1. Program!AfterLeaf(tree, p) = AfterLeaf(tree, p)
    BY SameAfterLeaf
  <1>2. \A q : Program!Silently(tree, q, v) = Silently(tree, q, v)
    BY SameSilently
  <1>3. Program!Block = Block /\ Program!Root = Root
    BY SameBlocks
  <1>. DEFINE positions == UNION {{b} \X (1..(Len(tree[b]) + 1)) : b \in Block}
  <1>4. PICK N : N = Cardinality(positions)
    OBVIOUS
  <1>5. Program!Cardinality(positions) = N
    BY ONLY <1>4, SameCardinality
  <1>. DEFINE first == IF p[1] = 0 THEN {<<Root, 1>>} ELSE AfterLeaf(tree, p)
  <1>. DEFINE Q(reached) == {q \in reached[N] :
            q[2] \in DOMAIN tree[q[1]] /\ tree[q[1]][q[2]].kind \in v}
  <1>. DEFINE R(reached) == [n \in 0..N |->
            IF n = 0 THEN first
            ELSE reached[n - 1] \cup UNION {Silently(tree, q, v) : q \in reached[n - 1]}]
  <1>. DEFINE PR(reached) == [n \in 0..N |->
            IF n = 0 THEN first
            ELSE reached[n - 1] \cup UNION {Program!Silently(tree, q, v) : q \in reached[n - 1]}]
  <1>6. NextStatements(tree, p, v) = Q(CHOOSE r : r = R(r))
    BY ONLY <1>4 DEF NextStatements
  <1>7. Program!NextStatements(tree, p, v) = Q(CHOOSE r : r = PR(r))
    BY ONLY <1>1, <1>3, <1>4, <1>5 DEF Program!NextStatements
  <1>8. \A r : R(r) = PR(r)
    BY ONLY <1>2
  <1>. HIDE DEF R, PR, Q
  <1>9. (CHOOSE r : r = R(r)) = (CHOOSE r : r = PR(r))
    BY ONLY <1>8
  <1>. QED BY ONLY <1>6, <1>7, <1>9

-----------------------------------------------------------------------------
(* The refinement.                                                         *)

\* A step of the code generator and of the execution is one of the program or
\* none: only an execution of an operation changes the last statement.
LEMMA StepFollows ==
    ASSUME Text = "separate", EmitInv, SavedInv, PathInv, [Next]_vars
    PROVE  /\ EmitInv' /\ SavedInv' /\ PathInv'
           /\ [Program!Next]_executed
  <1>1. EmitInv'
    BY NextKeepsEmitInv
  <1>2. CASE Emit
    <2>1. SavedInv' /\ PathInv' /\ executed' = executed
      BY <1>1, <1>2, EmitKeepsSavedInv, EmitKeepsPathInv
    <2>. QED BY <1>1, <2>1
  <1>3. CASE Execute
    <2>1. SavedInv'
      BY <1>3, OthersKeepSavedInv
    <2>2. PathInv'
      BY <1>3, ExecuteFollows
    <2>3. executed' = executed \/ executed' \in NextStatements(stat_nodes, executed, Visible)
      BY <1>3, ExecuteFollows
    <2>4. stat_nodes' = stat_nodes
      BY <1>3 DEF Execute, ExecuteOp, ExecuteBranch, ExecuteReturn, ExecUnchanged, builderVars
    <2>5. Program!NextStatements(stat_nodes, executed, Program!Visible)
            = NextStatements(stat_nodes, executed, Visible)
      BY SameVisible, SameNextStatements
    <2>6. [Program!Next]_executed
      BY ONLY <2>3, <2>4, <2>5 DEF Program!Next
    <2>. QED BY <1>1, <2>1, <2>2, <2>6
  <1>4. CASE Building \/ Prepare \/ Done \/ UNCHANGED vars
    <2>1. Building \/ Prepare \/ UNCHANGED vars
      BY <1>4 DEF Done
    <2>2. SavedInv' /\ PathInv' /\ executed' = executed
      BY <2>1, OthersKeepSavedInv, OthersKeepPathInv
    <2>. QED BY <1>1, <2>2
  <1>. QED BY <1>2, <1>3, <1>4 DEF Next

(***************************************************************************)
(* Whatever the statements of such a text, an execution of the blocks that *)
(* CodeGenASTWalker emits is an execution of the program: what it executes *)
(* next is always a statement that may come next on a path of the tree the *)
(* passes leave.  No branch of a loop, of a conditional, of a break or a   *)
(* continue, and none of those "in case" that are taken back or are not,   *)
(* leads elsewhere.  This holds for every bound on blocks and statements.  *)
(***************************************************************************)
THEOREM BlocksImplementProgram ==
    ASSUME Text = "separate"
    PROVE  Spec => ImplementsProgram
  <1>1. Init => EmitInv /\ SavedInv /\ PathInv /\ Program!Init
    <2>. SUFFICES ASSUME Init PROVE EmitInv /\ SavedInv /\ PathInv /\ Program!Init
      OBVIOUS
    <2>1. SavedInv
      BY DEF Init, SavedInv, RunInv
    <2>2. pass = "build" /\ executed = NoStat
      BY DEF Init
    <2>3. PathInv /\ Program!Init
      BY ONLY <2>2 DEF PathInv, Program!Init, NoStat
    <2>. QED BY <2>1, <2>3, EmitInvInit
  <1>2. EmitInv /\ SavedInv /\ PathInv /\ [Next]_vars
          => EmitInv' /\ SavedInv' /\ PathInv' /\ [Program!Next]_executed
    BY StepFollows
  <1>. QED BY <1>1, <1>2, PTL DEF Spec, ImplementsProgram, Program!Spec

=============================================================================
