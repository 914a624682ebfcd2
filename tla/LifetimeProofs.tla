--------------------------- MODULE LifetimeProofs ---------------------------
(***************************************************************************)
(* Proofs about Lifetime, for every bound and every choice of statement    *)
(* kinds: what is released is allocated, what has to be released is, and   *)
(* the code generator never meets a release before its declaration.        *)
(***************************************************************************)
EXTENDS Lifetime, PassLemmas

-----------------------------------------------------------------------------
(* The invariant of the passes: what is known of the tree after each.      *)

(***************************************************************************)
(* A release is the last statement of its block, for the block's own       *)
(* variables, or it stands before a break or continue and is for the loop. *)
(***************************************************************************)
FreesPlaced(tree) ==
    \A b \in Block : \A i \in DOMAIN tree[b] : tree[b][i].kind = "free" =>
        \/ tree[b][i].scope_id = CurrentScope /\ i = Len(tree[b])
        \/ tree[b][i].scope_id = LoopScope /\ i < Len(tree[b]) /\ IsExit(tree[b][i + 1])

\* The body of the subroutine ends with a return: its own release was pruned.
RootEndsReturning(tree) ==
    \A i \in DOMAIN tree[Root] :
        tree[Root][i].kind = "free" => tree[Root][i].scope_id # CurrentScope

(***************************************************************************)
(* No way out of the blocks Y avoids a release: each ends with the release *)
(* of its variables, unless it has a break or continue or a statement that *)
(* returns surely, given that the blocks R do; before a break or continue  *)
(* is a release.                                                           *)
(***************************************************************************)
EndsWell(tree, b, R) ==
    \/ \E i \in DOMAIN tree[b] : IsExit(tree[b][i])
    \/ ReturnsSurely(tree[b][Len(tree[b])], R)
    \/ tree[b][Len(tree[b])] = FreeNode(CurrentScope) /\ b \notin R

Sealed(tree, Y, R) ==
    /\ Root \in Y
    /\ \A b \in Y :
          /\ Len(tree[b]) > 0
          /\ EndsWell(tree, b, R)
          /\ \A i \in DOMAIN tree[b] : Early(tree, b, i) =>
                /\ SubBlocks(tree[b][i]) \subseteq Y
                /\ IsExit(tree[b][i]) => i > 1 /\ tree[b][i - 1] = FreeNode(LoopScope)

\* Nothing is left behind a break or continue.
ExitsLast(tree, Y) == \A b \in Y : \A i \in DOMAIN tree[b] : Early(tree, b, i)

Unpruned == {"define", "define_crashed", "return_check"}
Final    == {"scope_to_free", "codegen", "codegen_crashed", "run"}
ReleasedPasses == Unpruned \cup {"break_prune"} \cup Final
FirstPasses == {"build", "break_check", "decl_check", "add_free"}

TypeInv ==
    /\ BuilderTypeOK
    /\ source \in Tree /\ run \in Seq(Frame) /\ outcome \in Outcome
    /\ routine \in Routines
    /\ pass \in FirstPasses \cup ReleasedPasses \cup {"rejected"}
    /\ run # <<>> <=> pass = "run"
    /\ outcome = "returned" => pass = "run"

TreeInv ==
    /\ Shape(stat_nodes) /\ TextRule(stat_nodes)
    /\ pass = "build" => Opened(stat_nodes, used) /\ \A k \in DOMAIN open : open[k] <= used
    /\ pass \in FirstPasses => NoFrees(stat_nodes) /\ ReturnsNote(stat_nodes, {NoScope})
    /\ pass \in {"decl_check", "add_free"} \cup ReleasedPasses => NoLooseExit(stat_nodes)
    /\ pass \in ReleasedPasses =>
         FreesPlaced(stat_nodes) /\ ReturnsNote(stat_nodes, {NoScope, ReturnScope(InMain)})
    /\ pass \in {"return_check", "break_prune"} \cup Final =>
         ReturnsNote(stat_nodes, {ReturnScope(InMain)})
    /\ pass \in {"break_prune"} \cup Final => RootEndsReturning(stat_nodes)

SealInv ==
    /\ pass \in Unpruned => \E Y \in SUBSET Block : Sealed(stat_nodes, Y, {})
    /\ pass = "break_prune" => \E Y, R \in SUBSET Block : Sealed(stat_nodes, Y, R)
    /\ pass \in Final =>
         \E Y, R \in SUBSET Block : Sealed(stat_nodes, Y, R) /\ ExitsLast(stat_nodes, Y)

\* symbols_to_free as ScopeToFreeWalker leaves it.
FreeInv ==
    pass \in Final \ {"scope_to_free"} =>
        to_free = [SymbolsToFree(stat_nodes, InMain) EXCEPT
                     ![Root] = @ \cup (IF routine = "procedure" THEN {Parameter} ELSE {})]

PassInv == TypeInv /\ TreeInv /\ SealInv /\ FreeInv

-----------------------------------------------------------------------------
(* What the passes make of the tree.                                       *)

\* Shortening the blocks keeps every rule about statements and those before.
LEMMA ShortenedKeeps ==
    ASSUME NEW old \in Tree, NEW new, Shortened(old, new)
    PROVE  /\ Shape(old) => Shape(new)
           /\ DeclsFirst(old) => DeclsFirst(new)
           /\ DeclsNotInIfOrBlock(old) => DeclsNotInIfOrBlock(new)
           /\ NoLooseExit(old) => NoLooseExit(new)
           /\ \A S : ReturnsNote(old, S) => ReturnsNote(new, S)
           /\ RootEndsReturning(old) => RootEndsReturning(new)
  <1>1. new \in Tree
    BY DEF Shortened
  <1>2. \A b \in Block : \A i \in DOMAIN new[b] :
           i \in DOMAIN old[b] /\ new[b][i] = old[b][i] /\ \A j \in 1..(i - 1) : j \in DOMAIN new[b]
    <2>. TAKE b \in Block
    <2>. TAKE i \in DOMAIN new[b]
    <2>1. DOMAIN new[b] = 1..Len(new[b]) /\ Len(new[b]) \in Nat
      BY <1>1, StatsOfTree
    <2>. QED BY <2>1 DEF Shortened
  <1>3. (Shape(old) => Shape(new)) /\ (NoLooseExit(old) => NoLooseExit(new))
    BY ShortenedKeepsShape
  <1>4. DeclsFirst(old) => DeclsFirst(new)
    BY <1>2 DEF DeclsFirst
  <1>5. ASSUME DeclsNotInIfOrBlock(old), NEW b \in Block, NEW i \in DOMAIN new[b],
               new[b][i].kind \in {"block", "cond"}, NEW c, c = new[b][i].body,
               NEW j \in DOMAIN new[c]
        PROVE  new[c][j].kind # "decl"
    <2>1. i \in DOMAIN old[b] /\ new[b][i] = old[b][i] /\ new[b][i] \in Stat
      BY <1>1, <1>2, StatsOfTree
    <2>2. c \in Block /\ old[b][i].kind \in {"block", "cond"} /\ c = old[b][i].body
      BY <1>5, <2>1, BodiesAreBlocks
    <2>3. j \in DOMAIN old[c] /\ new[c][j] = old[c][j]
      BY <1>2, <2>2
    <2>. QED BY <1>5, <2>1, <2>2, <2>3 DEF DeclsNotInIfOrBlock
  <1>6. DeclsNotInIfOrBlock(old) => DeclsNotInIfOrBlock(new)
    BY <1>5 DEF DeclsNotInIfOrBlock
  <1>9. \A S : ReturnsNote(old, S) => ReturnsNote(new, S)
    BY <1>2 DEF ReturnsNote
  <1>10. RootEndsReturning(old) => RootEndsReturning(new)
    BY <1>2, RootIsBlock DEF RootEndsReturning
  <1>. QED BY <1>3, <1>4, <1>6, <1>9, <1>10

\* Pruning behind statements that are no releases leaves the releases where
\* they belong.
LEMMA PrunedKeepsFrees ==
    ASSUME NEW old \in Tree, NEW new, Shortened(old, new), NEW stops, NEW W,
           PrunedAt(old, new, stops, W), FreesPlaced(old),
           \A b \in Block : \A i \in stops[b] : i \in DOMAIN old[b] /\ old[b][i].kind # "free"
    PROVE  FreesPlaced(new)
  <1>1. new \in Tree
    BY DEF Shortened
  <1>2. SUFFICES ASSUME NEW b \in Block, NEW i \in DOMAIN new[b], new[b][i].kind = "free",
                        new[b] # old[b]
        PROVE  \/ new[b][i].scope_id = CurrentScope /\ i = Len(new[b])
               \/ new[b][i].scope_id = LoopScope /\ i < Len(new[b]) /\ IsExit(new[b][i + 1])
    BY DEF FreesPlaced
  <1>3. /\ Len(new[b]) \in Nat /\ DOMAIN new[b] = 1..Len(new[b])
        /\ Len(old[b]) \in Nat /\ DOMAIN old[b] = 1..Len(old[b])
    BY <1>1, StatsOfTree
  <1>4. /\ Len(new[b]) <= Len(old[b])
        /\ \A k \in DOMAIN new[b] : k \in DOMAIN old[b] /\ new[b][k] = old[b][k]
    BY DEF Shortened
  <1>5. Len(new[b]) \in stops[b]
    BY <1>2 DEF PrunedAt
  <1>6. old[b][Len(new[b])].kind # "free" /\ Len(new[b]) \in DOMAIN old[b]
    BY <1>5
  <1>7. i < Len(new[b]) /\ i + 1 \in DOMAIN new[b] /\ i < Len(old[b])
    BY <1>2, <1>3, <1>4, <1>6
  <1>8. old[b][i].scope_id = LoopScope /\ IsExit(old[b][i + 1])
    BY <1>2, <1>3, <1>4, <1>7 DEF FreesPlaced
  <1>. QED BY <1>4, <1>7, <1>8

\* What surely returns when some blocks do surely returns when more do.
LEMMA ReturnsMore ==
    ASSUME NEW s \in Stat, NEW R, ReturnsSurely(s, {})
    PROVE  ReturnsSurely(s, R)
  <1>1. ASSUME s.kind \in {"block", "cond"} PROVE s.body \in SubBlocks(s)
    BY <1>1, BodiesAreBlocks, MaxBlocksAssumption DEF Block, NoBlock, SubBlocks
  <1>. QED BY <1>1 DEF ReturnsSurely

\* Pruning a block keeps what is said of the statements before an exit.
LEMMA PrunedKeepsEarly ==
    ASSUME NEW old \in Tree, NEW new, Shortened(old, new), NEW stops, NEW W,
           PrunedAt(old, new, stops, W), NEW Y, NEW R, Sealed(old, Y, R),
           \A b \in Block : stops[b] \subseteq DOMAIN old[b],
           NEW b \in Block, b \in Y \cap W
    PROVE  /\ Len(new[b]) > 0
           /\ \A i \in DOMAIN new[b] : Early(new, b, i) =>
                /\ SubBlocks(new[b][i]) \subseteq Y \cap W
                /\ IsExit(new[b][i]) => i > 1 /\ new[b][i - 1] = FreeNode(LoopScope)
  <1>1. new \in Tree
    BY DEF Shortened
  <1>2. /\ Len(new[b]) \in Nat /\ DOMAIN new[b] = 1..Len(new[b])
        /\ Len(old[b]) \in Nat /\ DOMAIN old[b] = 1..Len(old[b])
    BY <1>1, StatsOfTree
  <1>3. \A k \in DOMAIN new[b] : k \in DOMAIN old[b] /\ new[b][k] = old[b][k]
    BY DEF Shortened
  <1>4. Len(new[b]) > 0
    <2>1. CASE stops[b] = {}
      BY <2>1 DEF PrunedAt, Sealed
    <2>2. CASE stops[b] # {}
      <3>1. Len(new[b]) \in DOMAIN old[b]
        BY <2>2 DEF PrunedAt
      <3>. QED BY <1>2, <3>1
    <2>. QED BY <2>1, <2>2
  <1>5. ASSUME NEW i \in DOMAIN new[b], Early(new, b, i)
        PROVE  /\ SubBlocks(new[b][i]) \subseteq Y \cap W
               /\ IsExit(new[b][i]) => i > 1 /\ new[b][i - 1] = FreeNode(LoopScope)
    <2>1. \A j \in 1..(i - 1) : j \in DOMAIN new[b]
      BY <1>2
    <2>2. Early(old, b, i)
      BY <1>3, <1>5, <2>1 DEF Early
    <2>3. i \in DOMAIN old[b] /\ new[b][i] = old[b][i]
      BY <1>3
    <2>4. /\ SubBlocks(old[b][i]) \subseteq Y
          /\ IsExit(old[b][i]) => i > 1 /\ old[b][i - 1] = FreeNode(LoopScope)
      BY <2>2, <2>3 DEF Sealed
    <2>5. SubBlocks(new[b][i]) \subseteq W
      BY DEF PrunedAt
    <2>6. i > 1 => i - 1 \in 1..(i - 1)
      BY <1>2
    <2>. QED BY <1>3, <2>1, <2>3, <2>4, <2>5, <2>6
  <1>. QED BY <1>4, <1>5

(***************************************************************************)
(* Pruning behind the statements that return surely: a block that loses    *)
(* the release at its end now ends with such a statement, and then the     *)
(* block itself returns surely.                                            *)
(***************************************************************************)
LEMMA ReturnPrunedSeals ==
    ASSUME NEW old \in Tree, ParentsFirst(old), FreesPlaced(old), Root \in Returning(old),
           NEW Y \in SUBSET Block, Sealed(old, Y, {})
    PROVE  /\ FreesPlaced(ReturnPruned(old)) /\ RootEndsReturning(ReturnPruned(old))
           /\ \E Z, R \in SUBSET Block : Sealed(ReturnPruned(old), Z, R)
  <1>1. PICK new : new = ReturnPruned(old)
    OBVIOUS
  <1>2. Shortened(old, new)
    BY <1>1, ReturnPrunedProps
  <1>3. PICK W \in SUBSET Block : PrunedAt(old, new, Returns(old), W)
    BY <1>1, ReturnPrunedProps
  <1>4. PICK R \in SUBSET Block : /\ R = Returning(old)
                                  /\ \A b \in Block : b \in R <=>
                                       \E i \in DOMAIN old[b] : ReturnsSurely(old[b][i], R)
    BY ReturningDef
  <1>5. PICK stops : /\ stops = Returns(old)
                     /\ \A b \in Block : stops[b] =
                          {i \in DOMAIN old[b] : ReturnsSurely(old[b][i], R)}
    <2>1. \A b \in Block : DOMAIN old[b] = 1..Len(old[b])
      BY StatsOfTree
    <2>2. \A b \in Block :
             Returns(old)[b] = {i \in 1..Len(old[b]) : ReturnsSurely(old[b][i], R)}
      BY <1>4 DEF Returns
    <2>. QED BY <2>1, <2>2
  <1>6. PrunedAt(old, new, stops, W) /\ \A b \in Block : stops[b] \subseteq DOMAIN old[b]
    BY <1>3, <1>5
  <1>7. \A b \in Block : stops[b] = {} <=> b \notin R
    BY <1>4, <1>5
  <1>8. \A b \in Block : \A i \in stops[b] :
           i \in DOMAIN old[b] /\ old[b][i].kind # "free" /\ ReturnsSurely(old[b][i], R)
    BY <1>5 DEF ReturnsSurely
  <1>9. FreesPlaced(new)
    BY ONLY <1>2, <1>6, <1>8, FreesPlaced(old), PrunedKeepsFrees, old \in Tree
  <1>10. new \in Tree /\ \A b \in Block : \A k \in DOMAIN new[b] :
            k \in DOMAIN old[b] /\ new[b][k] = old[b][k]
    BY <1>2 DEF Shortened
  <1>11. ASSUME NEW b \in Block, b \in W, b \in R
         PROVE  /\ Len(new[b]) \in DOMAIN new[b]
                /\ new[b][Len(new[b])].kind # "free"
                /\ ReturnsSurely(new[b][Len(new[b])], R)
    <2>1. Len(new[b]) \in stops[b]
      BY <1>6, <1>7, <1>11 DEF PrunedAt
    <2>2. Len(new[b]) \in DOMAIN old[b]
      BY <1>8, <2>1
    <2>3. Len(new[b]) \in DOMAIN new[b]
      BY <1>10, <2>2, StatsOfTree
    <2>. QED BY <1>8, <1>10, <2>1, <2>3
  <1>12. RootEndsReturning(new)
    <2>1. SUFFICES ASSUME NEW i \in DOMAIN new[Root], new[Root][i].kind = "free",
                          new[Root][i].scope_id = CurrentScope
          PROVE  FALSE
      BY DEF RootEndsReturning
    <2>2. i = Len(new[Root])
      BY <1>9, <2>1, RootIsBlock DEF FreesPlaced, CurrentScope, LoopScope
    <2>3. Root \in W
      BY <1>3 DEF PrunedAt
    <2>. QED BY <1>4, <1>11, <2>1, <2>2, <2>3, RootIsBlock
  <1>13. Sealed(new, Y \cap W, R)
    <2>1. Root \in Y \cap W
      BY <1>3 DEF PrunedAt, Sealed
    <2>2. ASSUME NEW b \in Block, b \in Y \cap W
          PROVE  /\ Len(new[b]) > 0
                 /\ \A i \in DOMAIN new[b] : Early(new, b, i) =>
                      /\ SubBlocks(new[b][i]) \subseteq Y \cap W
                      /\ IsExit(new[b][i]) => i > 1 /\ new[b][i - 1] = FreeNode(LoopScope)
      BY ONLY <1>2, <1>6, <2>2, Sealed(old, Y, {}), PrunedKeepsEarly, old \in Tree, b \in Block
    <2>3. ASSUME NEW b \in Block, b \in Y \cap W
          PROVE  EndsWell(new, b, R)
      <3>1. CASE b \in R
        BY <1>11, <2>3, <3>1 DEF EndsWell
      <3>2. CASE b \notin R
        <4>1. new[b] = old[b]
          BY <1>6, <1>7, <2>3, <3>2 DEF PrunedAt
        <4>2. EndsWell(old, b, {}) /\ Len(old[b]) > 0
          BY <2>3 DEF Sealed
        <4>3. old[b][Len(old[b])] \in Stat
          BY <4>2, StatsOfTree
        <4>4. ReturnsSurely(old[b][Len(old[b])], {}) => ReturnsSurely(old[b][Len(old[b])], R)
          BY <4>3, ReturnsMore
        <4>. QED BY <3>2, <4>1, <4>2, <4>4 DEF EndsWell
      <3>. QED BY <3>1, <3>2
    <2>. QED BY <2>1, <2>2, <2>3 DEF Sealed
  <1>14. Y \cap W \in SUBSET Block
    OBVIOUS
  <1>. QED BY <1>1, <1>9, <1>12, <1>13, <1>14

\* Pruning behind the breaks and continues leaves nothing behind them.
LEMMA ExitPrunedSeals ==
    ASSUME NEW old \in Tree, ParentsFirst(old), FreesPlaced(old),
           NEW Y \in SUBSET Block, NEW R \in SUBSET Block, Sealed(old, Y, R)
    PROVE  /\ FreesPlaced(ExitPruned(old))
           /\ \E Z \in SUBSET Block : Sealed(ExitPruned(old), Z, R) /\ ExitsLast(ExitPruned(old), Z)
  <1>1. PICK new : new = ExitPruned(old)
    OBVIOUS
  <1>2. Shortened(old, new)
    BY <1>1, ExitPrunedProps
  <1>3. PICK W \in SUBSET Block : PrunedAt(old, new, Exits(old), W)
    BY <1>1, ExitPrunedProps
  <1>5. PICK stops : /\ stops = Exits(old)
                     /\ \A b \in Block : stops[b] = {i \in DOMAIN old[b] : IsExit(old[b][i])}
    <2>1. \A b \in Block : DOMAIN old[b] = 1..Len(old[b])
      BY StatsOfTree
    <2>2. \A b \in Block : Exits(old)[b] = {i \in 1..Len(old[b]) : IsExit(old[b][i])}
      BY DEF Exits
    <2>. QED BY <2>1, <2>2
  <1>6. PrunedAt(old, new, stops, W) /\ \A b \in Block : stops[b] \subseteq DOMAIN old[b]
    BY <1>3, <1>5
  <1>8. \A b \in Block : \A i \in stops[b] : i \in DOMAIN old[b] /\ old[b][i].kind # "free"
    BY <1>5 DEF IsExit, ExitKind
  <1>9. FreesPlaced(new)
    BY ONLY <1>2, <1>6, <1>8, FreesPlaced(old), PrunedKeepsFrees, old \in Tree
  <1>10. new \in Tree /\ \A b \in Block : \A k \in DOMAIN new[b] :
            k \in DOMAIN old[b] /\ new[b][k] = old[b][k]
    BY <1>2 DEF Shortened
  <1>11. ASSUME NEW b \in Block, b \in W
         PROVE  /\ \A i \in DOMAIN new[b] : IsExit(new[b][i]) => i = Len(new[b])
                /\ stops[b] = {} => new[b] = old[b]
                /\ stops[b] # {} => \E i \in DOMAIN new[b] : IsExit(new[b][i])
    <2>1. \A i \in DOMAIN new[b] : i \in stops[b] => i = Len(new[b])
      BY <1>6, <1>11 DEF PrunedAt
    <2>2. \A i \in DOMAIN new[b] : IsExit(new[b][i]) => i \in stops[b]
      BY <1>5, <1>10
    <2>3. stops[b] = {} => new[b] = old[b]
      BY <1>6, <1>11 DEF PrunedAt
    <2>4. ASSUME stops[b] # {} PROVE \E i \in DOMAIN new[b] : IsExit(new[b][i])
      <3>1. Len(new[b]) \in stops[b]
        BY <1>6, <1>11, <2>4 DEF PrunedAt
      <3>2. Len(new[b]) \in DOMAIN old[b] /\ IsExit(old[b][Len(new[b])])
        BY <1>5, <3>1
      <3>3. Len(new[b]) \in DOMAIN new[b]
        BY <1>10, <3>2, StatsOfTree
      <3>. QED BY <1>10, <3>2, <3>3
    <2>. QED BY <2>1, <2>2, <2>3, <2>4
  <1>13. Sealed(new, Y \cap W, R)
    <2>1. Root \in Y \cap W
      BY <1>3 DEF PrunedAt, Sealed
    <2>2. ASSUME NEW b \in Block, b \in Y \cap W
          PROVE  /\ Len(new[b]) > 0
                 /\ \A i \in DOMAIN new[b] : Early(new, b, i) =>
                      /\ SubBlocks(new[b][i]) \subseteq Y \cap W
                      /\ IsExit(new[b][i]) => i > 1 /\ new[b][i - 1] = FreeNode(LoopScope)
      BY ONLY <1>2, <1>6, <2>2, Sealed(old, Y, R), PrunedKeepsEarly, old \in Tree, b \in Block
    <2>3. ASSUME NEW b \in Block, b \in Y \cap W
          PROVE  EndsWell(new, b, R)
      BY <1>11, <2>3 DEF EndsWell, Sealed
    <2>. QED BY <2>1, <2>2, <2>3 DEF Sealed
  <1>14. ExitsLast(new, Y \cap W)
    <2>1. SUFFICES ASSUME NEW b \in Block, b \in W, NEW i \in DOMAIN new[b], NEW j \in 1..(i - 1),
                          IsExit(new[b][j])
          PROVE  FALSE
      BY DEF ExitsLast, Early
    <2>2. Len(new[b]) \in Nat /\ DOMAIN new[b] = 1..Len(new[b])
      BY <1>10, StatsOfTree
    <2>3. j \in DOMAIN new[b] /\ j < i /\ i <= Len(new[b])
      BY <2>2
    <2>. QED BY <1>11, <2>1, <2>2, <2>3
  <1>15. Y \cap W \in SUBSET Block
    OBVIOUS
  <1>. QED BY <1>1, <1>9, <1>13, <1>14, <1>15

\* A tree with releases keeps every rule about statements and those before.
LEMMA ReleasesKeep ==
    ASSUME NEW old \in Tree, NEW new \in Tree, NEW W, NEW in_main,
           ReleasesAt(old, new, W, in_main)
    PROVE  /\ Shape(old) => Shape(new)
           /\ DeclsNotInIfOrBlock(old) => DeclsNotInIfOrBlock(new)
           /\ NoLooseExit(old) => NoLooseExit(new)
           /\ ReturnsNote(old, {NoScope}) => ReturnsNote(new, {NoScope, ReturnScope(in_main)})
  <1>1. PICK e \in [Block -> Nat] : \A b \in Block : OneMore(old, new, b, e[b], in_main)
    <2>1. \A b \in Block : \E n \in Nat : OneMore(old, new, b, n, in_main)
      BY ReleasesPlaced
    <2>2. [b \in Block |-> CHOOSE n \in Nat : OneMore(old, new, b, n, in_main)] \in [Block -> Nat]
      BY <2>1
    <2>. QED BY <2>1, <2>2
  <1>. DEFINE From(b, i) == IF i < e[b] THEN i ELSE i - 1
  <1>2. ASSUME NEW b \in Block, NEW i \in DOMAIN new[b]
        PROVE  /\ i \in Nat /\ e[b] \in Nat
               /\ i = e[b] => new[b][i].kind = "free" /\ SubBlocks(new[b][i]) = {}
               /\ i # e[b] => /\ From(b, i) \in DOMAIN old[b]
                              /\ Marked(old[b][From(b, i)], new[b][i], in_main)
    <2>1. i \in Nat /\ e[b] \in Nat
      BY StatsOfTree
    <2>2. CASE i = e[b]
      BY <1>1, <2>1, <2>2 DEF OneMore, CameFrom
    <2>3. CASE i # e[b]
      <3>1. PICK j : j = From(b, i)
        OBVIOUS
      <3>2. CameFrom(old, new, b, i, j, in_main)
        BY <1>1, <2>1, <2>3, <3>1 DEF OneMore
      <3>3. j \in DOMAIN old[b] /\ Marked(old[b][j], new[b][i], in_main)
        BY <3>2 DEF CameFrom
      <3>. QED BY <2>1, <2>3, <3>1, <3>3
    <2>. QED BY <2>1, <2>2, <2>3
  <1>. HIDE DEF From
  <1>7. \A s1, s2 : Marked(s1, s2, in_main) =>
           /\ s2.kind = s1.kind /\ s2.body = s1.body /\ SubBlocks(s2) = SubBlocks(s1)
           /\ s2.scope_id \in {s1.scope_id, ReturnScope(in_main)}
    BY DEF Marked, SubBlocks
  <1>9. \A b \in Block : \A i \in DOMAIN new[b] : new[b][i].kind # "free" =>
           /\ From(b, i) \in DOMAIN old[b]
           /\ new[b][i].kind = old[b][From(b, i)].kind
           /\ new[b][i].body = old[b][From(b, i)].body
           /\ SubBlocks(new[b][i]) = SubBlocks(old[b][From(b, i)])
           /\ new[b][i].scope_id \in {old[b][From(b, i)].scope_id, ReturnScope(in_main)}
    BY <1>2, <1>7
  <1>3. (Shape(old) => Shape(new)) /\ (NoLooseExit(old) => NoLooseExit(new))
    BY ReleasesKeepShape
  <1>4. ASSUME DeclsNotInIfOrBlock(old), NEW b \in Block, NEW i \in DOMAIN new[b],
               new[b][i].kind \in {"block", "cond"}, NEW c, c = new[b][i].body,
               NEW j \in DOMAIN new[c], new[c][j].kind = "decl"
        PROVE  FALSE
    <2>1. PICK k \in DOMAIN old[b] : old[b][k].kind = new[b][i].kind /\ old[b][k].body = c
      BY <1>4, <1>9
    <2>2. c \in Block
      BY <1>4, BodiesAreBlocks, StatsOfTree
    <2>3. PICK l \in DOMAIN old[c] : old[c][l].kind = "decl"
      BY <1>4, <1>9, <2>2
    <2>. QED BY <1>4, <2>1, <2>3 DEF DeclsNotInIfOrBlock
  <1>6. ReturnsNote(old, {NoScope}) => ReturnsNote(new, {NoScope, ReturnScope(in_main)})
    BY <1>9 DEF ReturnsNote
  <1>. QED BY <1>3, <1>4, <1>6 DEF DeclsNotInIfOrBlock

\* What a list of statements with a release as statement e is made of.
OneRelease(old, new, b, e, W) ==
    /\ Len(new[b]) = Len(old[b]) + 1
    /\ e \in DOMAIN new[b]
    /\ \/ e = Len(new[b]) /\ new[b][e] = FreeNode(CurrentScope)
       \/ /\ e < Len(new[b]) /\ new[b][e] = FreeNode(LoopScope)
          /\ IsExit(old[b][e]) /\ IsExit(new[b][e + 1])
    /\ \A i \in 1..(e - 1) : /\ i \in DOMAIN old[b] /\ i \in DOMAIN new[b]
                             /\ new[b][i].kind = old[b][i].kind
                             /\ ~IsExit(new[b][i])
                             /\ SubBlocks(new[b][i]) \subseteq W
    /\ \A i \in (e + 1)..Len(new[b]) : /\ i - 1 \in DOMAIN old[b]
                                       /\ new[b][i].kind = old[b][i - 1].kind

\* With the releases every block is left well, and each release is in place.
LEMMA ReleasesSeal ==
    ASSUME NEW old \in Tree, NEW new \in Tree, NEW W \in SUBSET Block, NEW in_main,
           ReleasesAt(old, new, W, in_main), NoFrees(old)
    PROVE  /\ DeclsFirst(old) => DeclsFirst(new)
           /\ FreesPlaced(new)
           /\ Sealed(new, W, {})
  <1>1. ASSUME NEW b \in Block, b \notin W
        PROVE  /\ new[b] = old[b]
               /\ \A i \in DOMAIN new[b] : new[b][i].kind # "free"
    BY <1>1 DEF ReleasesAt, NoFrees
  <1>2. ASSUME NEW b \in W
        PROVE  \E e \in Nat : OneRelease(old, new, b, e, W)
    <2>1. /\ Len(new[b]) \in Nat /\ DOMAIN new[b] = 1..Len(new[b])
          /\ Len(old[b]) \in Nat /\ DOMAIN old[b] = 1..Len(old[b])
      BY StatsOfTree
    <2>2. PICK e \in 1..(Len(old[b]) + 1) : ReleasedIn(old, new, b, e, W, in_main)
      BY DEF ReleasesAt
    <2>3. PICK sid : /\ Released(old[b], new[b], e, sid, in_main)
                     /\ \/ e = Len(old[b]) + 1 /\ sid = CurrentScope
                        \/ e <= Len(old[b]) /\ IsExit(old[b][e]) /\ sid = LoopScope
      BY <2>2 DEF ReleasedIn
    <2>4. e \in Nat /\ Len(new[b]) = Len(old[b]) + 1 /\ e \in DOMAIN new[b]
          /\ new[b][e] = FreeNode(sid)
      BY <2>1, <2>3 DEF Released
    <2>5. \A s1, s2 : Marked(s1, s2, in_main) =>
             s2.kind = s1.kind /\ SubBlocks(s2) = SubBlocks(s1) /\ (IsExit(s1) <=> IsExit(s2))
      BY DEF Marked, SubBlocks, IsExit
    <2>6. ASSUME NEW i \in 1..(e - 1)
          PROVE  /\ i \in DOMAIN old[b] /\ i \in DOMAIN new[b]
                 /\ new[b][i].kind = old[b][i].kind
                 /\ ~IsExit(new[b][i]) /\ SubBlocks(new[b][i]) \subseteq W
      <3>1. i \in DOMAIN old[b] /\ i \in DOMAIN new[b]
        BY <2>1, <2>4
      <3>2. Marked(old[b][i], new[b][i], in_main)
        BY <2>3 DEF Released
      <3>3. ~IsExit(old[b][i]) /\ SubBlocks(old[b][i]) \subseteq W
        BY <2>2 DEF ReleasedIn
      <3>. QED BY <2>5, <3>1, <3>2, <3>3
    <2>7. ASSUME NEW i \in (e + 1)..Len(new[b])
          PROVE  i - 1 \in DOMAIN old[b] /\ Marked(old[b][i - 1], new[b][i], in_main)
      <3>1. i \in (e + 1)..(Len(old[b]) + 1) /\ i - 1 \in DOMAIN old[b]
        BY <2>1, <2>4
      <3>. QED BY <2>3, <3>1 DEF Released
    <2>8. \/ e = Len(new[b]) /\ new[b][e] = FreeNode(CurrentScope)
          \/ /\ e < Len(new[b]) /\ new[b][e] = FreeNode(LoopScope)
             /\ IsExit(old[b][e]) /\ IsExit(new[b][e + 1])
      <3>1. CASE e = Len(old[b]) + 1 /\ sid = CurrentScope
        BY <2>4, <3>1
      <3>2. CASE e <= Len(old[b]) /\ IsExit(old[b][e]) /\ sid = LoopScope
        <4>1. e < Len(new[b]) /\ e + 1 \in (e + 1)..Len(new[b]) /\ e + 1 - 1 = e
          BY <2>1, <2>4, <3>2
        <4>2. Marked(old[b][e], new[b][e + 1], in_main)
          BY <2>7, <4>1
        <4>. QED BY <2>4, <2>5, <3>2, <4>1, <4>2
      <3>. QED BY <2>3, <3>1, <3>2
    <2>9. ASSUME NEW i \in (e + 1)..Len(new[b])
          PROVE  i - 1 \in DOMAIN old[b] /\ new[b][i].kind = old[b][i - 1].kind
      BY <2>5, <2>7
    <2>10. OneRelease(old, new, b, e, W)
      BY <2>4, <2>6, <2>8, <2>9 DEF OneRelease
    <2>. QED BY <2>4, <2>10
  <1>3. \A sid : /\ FreeNode(sid).kind = "free" /\ FreeNode(sid).scope_id = sid
                 /\ SubBlocks(FreeNode(sid)) = {} /\ ~IsExit(FreeNode(sid))
    BY DEF FreeNode, Leaf, SubBlocks, IsExit, ExitKind
  <1>4. ASSUME NEW b \in Block
        PROVE  Len(new[b]) \in Nat /\ DOMAIN new[b] = 1..Len(new[b])
    BY StatsOfTree
  <1>5. ASSUME DeclsFirst(old), NEW b \in Block, NEW j \in DOMAIN new[b],
               new[b][j].kind = "decl", NEW i \in 1..(j - 1)
        PROVE  new[b][i].kind = "decl"
    <2>1. CASE b \notin W
      BY <1>1, <1>5, <2>1 DEF DeclsFirst
    <2>2. CASE b \in W
      <3>1. PICK e \in Nat : OneRelease(old, new, b, e, W)
        BY <1>2, <2>2
      <3>2. j \in Nat /\ i \in Nat /\ i < j /\ i > 0 /\ j <= Len(new[b]) /\ Len(new[b]) \in Nat
        BY <1>4
      <3>3. e # j
        BY <1>3, <1>5, <3>1 DEF OneRelease
      <3>4. CASE j < e
        <4>1. j \in 1..(e - 1) /\ i \in 1..(e - 1)
          BY <3>2, <3>4
        <4>. QED BY <1>5, <3>1, <4>1 DEF DeclsFirst, OneRelease
      <3>5. CASE j > e
        <4>1. j \in (e + 1)..Len(new[b])
          BY <3>2, <3>5
        <4>2. j - 1 \in DOMAIN old[b] /\ old[b][j - 1].kind = "decl"
          BY <1>5, <3>1, <4>1 DEF OneRelease
        <4>3. IsExit(old[b][e])
          BY <3>1, <3>2, <3>5 DEF OneRelease
        <4>4. old[b][e].kind # "decl"
          BY <4>3 DEF IsExit, ExitKind
        <4>5. e # j - 1
          BY <4>2, <4>4
        <4>6. e \in 1..(j - 1 - 1)
          BY <1>4, <3>1, <3>2, <3>5, <4>5 DEF OneRelease
        <4>. QED BY <1>5, <4>2, <4>4, <4>6 DEF DeclsFirst
      <3>. QED BY <3>1, <3>2, <3>3, <3>4, <3>5
    <2>. QED BY <2>1, <2>2
  <1>6. ASSUME NEW b \in Block, NEW i \in DOMAIN new[b], new[b][i].kind = "free"
        PROVE  \/ new[b][i].scope_id = CurrentScope /\ i = Len(new[b])
               \/ new[b][i].scope_id = LoopScope /\ i < Len(new[b]) /\ IsExit(new[b][i + 1])
    <2>1. b \in W
      BY <1>1, <1>6
    <2>2. PICK e \in Nat : OneRelease(old, new, b, e, W)
      BY <1>2, <2>1
    <2>3. ASSUME i # e PROVE FALSE
      <3>1. i \in 1..(e - 1) \/ i \in (e + 1)..Len(new[b])
        BY <1>4, <2>2, <2>3 DEF OneRelease
      <3>. QED BY <1>6, <2>2, <3>1 DEF NoFrees, OneRelease
    <2>. QED BY <1>3, <2>2, <2>3 DEF OneRelease
  <1>7. ASSUME NEW b \in W
        PROVE  /\ Len(new[b]) > 0
               /\ EndsWell(new, b, {})
               /\ \A i \in DOMAIN new[b] : Early(new, b, i) =>
                     /\ SubBlocks(new[b][i]) \subseteq W
                     /\ IsExit(new[b][i]) => i > 1 /\ new[b][i - 1] = FreeNode(LoopScope)
    <2>1. PICK e \in Nat : OneRelease(old, new, b, e, W)
      BY <1>2
    <2>2. Len(new[b]) > 0 /\ e > 0
      BY <1>4, <2>1 DEF OneRelease
    <2>3. EndsWell(new, b, {})
      <3>1. e < Len(new[b]) => e + 1 \in DOMAIN new[b]
        BY <1>4, <2>1 DEF OneRelease
      <3>. QED BY <2>1, <3>1 DEF EndsWell, OneRelease
    <2>4. ASSUME NEW i \in DOMAIN new[b], Early(new, b, i)
          PROVE  /\ SubBlocks(new[b][i]) \subseteq W
                 /\ IsExit(new[b][i]) => i > 1 /\ new[b][i - 1] = FreeNode(LoopScope)
      <3>1. i \in Nat /\ i > 0 /\ i <= Len(new[b])
        BY <1>4
      <3>2. CASE i < e
        <4>1. i \in 1..(e - 1)
          BY <3>1, <3>2
        <4>. QED BY <2>1, <4>1 DEF OneRelease
      <3>3. CASE i = e
        BY <1>3, <2>1, <3>3 DEF OneRelease
      <3>4. CASE i > e
        <4>1. new[b][e] = FreeNode(LoopScope) /\ IsExit(new[b][e + 1])
          BY <2>1, <3>1, <3>4 DEF OneRelease
        <4>2. i = e + 1
          <5>1. e + 1 \notin 1..(i - 1)
            BY <2>4, <4>1 DEF Early
          <5>. QED BY <2>2, <3>1, <3>4, <5>1
        <4>3. new[b][i] \in Stat /\ new[b][i].kind \in LeafKind
          BY <4>1, <4>2, StatsOfTree DEF IsExit, LeafKind
        <4>4. SubBlocks(new[b][i]) = {}
          BY <4>3, StatProps
        <4>. QED BY <2>2, <4>1, <4>2, <4>4
      <3>. QED BY <3>1, <3>2, <3>3, <3>4
    <2>. QED BY <2>2, <2>3, <2>4
  <1>8. Root \in W
    BY DEF ReleasesAt
  <1>. QED BY <1>5, <1>6, <1>7, <1>8 DEF DeclsFirst, FreesPlaced, Sealed

\* What the text promises stays promised when the passes rewrite the tree.
LEMMA PassesKeepTree ==
    ASSUME NEW old \in Tree, Shape(old), NEW in_main \in BOOLEAN,
           NEW new, new \in {AddFreeNodes(old, in_main), ReturnPruned(old), ExitPruned(old)},
           new = AddFreeNodes(old, in_main) => NoFrees(old)
    PROVE  /\ new \in Tree /\ Shape(new)
           /\ DeclsFirst(old) => DeclsFirst(new)
           /\ DeclsNotInIfOrBlock(old) => DeclsNotInIfOrBlock(new)
           /\ NoLooseExit(old) => NoLooseExit(new)
  <1>1. ParentsFirst(old)
    BY DEF Shape
  <1>2. CASE new = AddFreeNodes(old, in_main)
    <2>1. new \in Tree
      BY <1>1, <1>2, AddFreeNodesProps
    <2>2. PICK W \in SUBSET Block : ReleasesAt(old, new, W, in_main)
      BY <1>1, <1>2, AddFreeNodesProps
    <2>3. NoFrees(old)
      BY <1>2
    <2>4. DeclsFirst(old) => DeclsFirst(new)
      BY ONLY <2>1, <2>2, <2>3, ReleasesSeal, old \in Tree, W \in SUBSET Block
    <2>5. /\ Shape(old) => Shape(new)
          /\ DeclsNotInIfOrBlock(old) => DeclsNotInIfOrBlock(new)
          /\ NoLooseExit(old) => NoLooseExit(new)
      BY ONLY <2>1, <2>2, ReleasesKeep, old \in Tree
    <2>. QED BY <2>1, <2>4, <2>5
  <1>3. CASE new # AddFreeNodes(old, in_main)
    <2>1. Shortened(old, new)
      BY <1>1, <1>3, ReturnPrunedProps, ExitPrunedProps
    <2>2. new \in Tree
      BY <2>1 DEF Shortened
    <2>3. /\ Shape(old) => Shape(new)
          /\ DeclsFirst(old) => DeclsFirst(new)
          /\ DeclsNotInIfOrBlock(old) => DeclsNotInIfOrBlock(new)
          /\ NoLooseExit(old) => NoLooseExit(new)
      BY ONLY <2>1, ShortenedKeeps, old \in Tree
    <2>. QED BY <2>2, <2>3
  <1>. QED BY <1>2, <1>3

-----------------------------------------------------------------------------
(* The invariant of the passes, step by step.                              *)

\* The sets of passes, as the cases of the proofs need them.
LEMMA PassSets ==
    /\ FirstPasses = {"build", "break_check", "decl_check", "add_free"}
    /\ Unpruned = {"define", "define_crashed", "return_check"}
    /\ Final = {"scope_to_free", "codegen", "codegen_crashed", "run"}
    /\ ReleasedPasses = {"define", "define_crashed", "return_check", "break_prune",
                         "scope_to_free", "codegen", "codegen_crashed", "run"}
  BY DEF FirstPasses, Unpruned, Final, ReleasedPasses

\* The empty tree the text starts with has the invariant.
LEMMA PassInvInit ==
    ASSUME Init
    PROVE  PassInv
  <1>1. stat_nodes = [b \in Block |-> <<>>] /\ open = <<Root>> /\ used = 1 /\ pass = "build"
    BY DEF Init, BuilderInit
  <1>2. BuilderTypeOK
    BY RootIsBlock, ASTBuilderAssumption
    DEF Init, BuilderInit, BuilderTypeOK, Tree, Root
  <1>3. TypeInv
    <2>1. source = stat_nodes /\ run = <<>> /\ outcome = "running" /\ routine \in Routines
      BY DEF Init
    <2>. QED BY <1>1, <1>2, <2>1, LifetimeAssumption, PassSets
         DEF TypeInv, BuilderTypeOK, Outcome
  <1>4. \A b \in Block : DOMAIN stat_nodes[b] = {}
    BY <1>1
  <1>5. Shape(stat_nodes) /\ NoFrees(stat_nodes) /\ ReturnsNote(stat_nodes, {NoScope})
    BY <1>4 DEF Shape, ParentsFirst, OneOwner, NoFrees, ReturnsNote
  <1>6. DeclsFirst(stat_nodes) /\ DeclsNotInIfOrBlock(stat_nodes)
    BY <1>4 DEF DeclsFirst, DeclsNotInIfOrBlock
  <1>7. Opened(stat_nodes, used) /\ \A k \in DOMAIN open : open[k] <= used
    BY <1>1, <1>4 DEF Opened, Root
  <1>. QED BY <1>1, <1>3, <1>5, <1>6, <1>7, PassSets
       DEF PassInv, TreeInv, SealInv, FreeInv, TextRule

\* Reading the text keeps it.
LEMMA BuildingKeepsPassInv ==
    ASSUME PassInv, Building
    PROVE  PassInv'
  <1>1. pass = "build" /\ TypeInv /\ TreeInv /\ run = <<>> /\ outcome = "running"
    BY PassSets DEF Building, PassInv, TypeInv, Outcome
  <1>2. UNCHANGED <<source, run, outcome, routine, to_free>>
    BY DEF Building
  <1>3. Shape(stat_nodes) /\ NoFrees(stat_nodes) /\ ReturnsNote(stat_nodes, {NoScope})
    BY <1>1, PassSets DEF TreeInv
  <1>4. CASE Reading
    <2>1. Build /\ TextRule(stat_nodes') /\ pass' = "build"
      BY <1>1, <1>4 DEF Building
    <2>2. BuilderTypeOK /\ BuildInv
      BY <1>1, <1>3 DEF TypeInv, TreeInv, BuildInv
    <2>3. BuilderTypeOK'
      BY <2>1, <2>2, BuildTypeOK
    <2>4. BuildInv'
      BY <2>1, <2>2, BuildKeepsInv
    <2>5. TypeInv'
      BY <1>1, <1>2, <2>1, <2>3 DEF TypeInv
    <2>6. TreeInv'
      <3>1. TextRule(stat_nodes)'
        BY <1>2, <2>1 DEF TextRule
      <3>. QED BY <2>1, <2>4, <3>1, PassSets DEF BuildInv, TreeInv
    <2>. QED BY <2>1, <2>5, <2>6, PassSets DEF PassInv, SealInv, FreeInv
  <1>5. CASE ~Reading
    <2>1. pass' = "break_check" /\ UNCHANGED builderVars
      BY <1>5 DEF Building
    <2>2. TypeInv'
      BY <1>1, <1>2, <2>1, PassSets DEF TypeInv, BuilderTypeOK, builderVars
    <2>3. TreeInv'
      <3>1. stat_nodes' = stat_nodes
        BY <2>1 DEF builderVars
      <3>2. TextRule(stat_nodes)'
        BY <1>1, <1>2, <3>1 DEF TextRule, TreeInv
      <3>. QED BY <1>3, <2>1, <3>1, <3>2, PassSets DEF TreeInv
    <2>. QED BY <2>1, <2>2, <2>3, PassSets DEF PassInv, SealInv, FreeInv
  <1>. QED BY <1>4, <1>5

\* A pass that makes a tree of a tree keeps the types.
LEMMA PassKeepsTypes ==
    ASSUME PassInv, PassUnchanged, pass # "run", pass' # "run",
           stat_nodes' \in Tree, pass' \in FirstPasses \cup ReleasedPasses \cup {"rejected"}
    PROVE  TypeInv'
  <1>1. TypeInv /\ run = <<>> /\ outcome = "running"
    BY DEF PassInv, TypeInv, Outcome
  <1>. QED BY <1>1 DEF TypeInv, PassUnchanged, BuilderTypeOK

\* The checks on the text.
LEMMA ChecksKeepPassInv ==
    ASSUME PassInv, BreakCheck \/ DeclCheck
    PROVE  PassInv'
  <1>1. /\ pass \in {"break_check", "decl_check"}
        /\ pass' \in {"decl_check", "add_free", "rejected"}
        /\ PassUnchanged /\ stat_nodes' = stat_nodes
    BY DEF BreakCheck, DeclCheck, Checks
  <1>2. stat_nodes \in Tree /\ TreeInv
    BY DEF PassInv, TypeInv, BuilderTypeOK
  <1>3. TypeInv'
    BY <1>1, <1>2, PassSets, PassKeepsTypes
  <1>4. Shape(stat_nodes) /\ NoFrees(stat_nodes) /\ ReturnsNote(stat_nodes, {NoScope})
    BY <1>1, <1>2, PassSets DEF TreeInv
  <1>5. TextRule(stat_nodes)'
    BY <1>1, <1>2 DEF TreeInv, TextRule, PassUnchanged
  <1>6. pass' # "rejected" => NoLooseExit(stat_nodes)
    <2>1. CASE BreakCheck
      <3>1. pass' # "rejected" => ~HasLooseExit(stat_nodes)
        BY <2>1 DEF BreakCheck, Checks
      <3>. QED BY <1>2, <3>1, NoLooseExitIsAccepted
    <2>2. CASE DeclCheck
      BY <1>2, <2>2, PassSets DEF DeclCheck, Checks, TreeInv
    <2>. QED BY <2>1, <2>2
  <1>7. TreeInv'
    BY <1>1, <1>4, <1>5, <1>6, PassSets DEF TreeInv
  <1>. QED BY <1>1, <1>3, <1>7, PassSets DEF PassInv, SealInv, FreeInv

\* The rule on the text, for a tree a pass has made.
LEMMA TextRuleKept ==
    ASSUME TextRule(stat_nodes), routine' = routine,
           DeclsFirst(stat_nodes) => DeclsFirst(stat_nodes'),
           DeclsNotInIfOrBlock(stat_nodes) => DeclsNotInIfOrBlock(stat_nodes')
    PROVE  TextRule(stat_nodes)'
  BY DEF TextRule

\* Adding the releases.
LEMMA AddFreeKeepsPassInv ==
    ASSUME PassInv, AddFree
    PROVE  PassInv'
  <1>1. pass = "add_free" /\ pass' = "define" /\ PassUnchanged
    BY DEF AddFree, Rewrites
  <1>2. PICK old \in Tree : old = stat_nodes
    BY DEF PassInv, TypeInv, BuilderTypeOK
  <1>3. PICK in_main \in BOOLEAN : in_main = InMain
    BY DEF InMain
  <1>4. PICK new : new = stat_nodes' /\ new = AddFreeNodes(old, in_main)
    BY <1>2, <1>3 DEF AddFree, Rewrites
  <1>5. /\ Shape(old) /\ NoFrees(old) /\ ReturnsNote(old, {NoScope}) /\ NoLooseExit(old)
        /\ TextRule(stat_nodes)
    BY <1>1, <1>2, PassSets DEF PassInv, TreeInv
  <1>6. /\ new \in Tree /\ Shape(new)
        /\ DeclsFirst(old) => DeclsFirst(new)
        /\ DeclsNotInIfOrBlock(old) => DeclsNotInIfOrBlock(new)
        /\ NoLooseExit(old) => NoLooseExit(new)
    BY ONLY <1>4, <1>5, PassesKeepTree, old \in Tree, in_main \in BOOLEAN
  <1>7. PICK W \in SUBSET Block : ReleasesAt(old, new, W, in_main)
    BY <1>4, <1>5, AddFreeNodesProps DEF Shape
  <1>8. FreesPlaced(new) /\ Sealed(new, W, {})
    BY ONLY <1>5, <1>6, <1>7, ReleasesSeal, old \in Tree, W \in SUBSET Block
  <1>9. ReturnsNote(new, {NoScope, ReturnScope(in_main)})
    BY ONLY <1>5, <1>6, <1>7, ReleasesKeep, old \in Tree
  <1>10. TypeInv'
    BY <1>1, <1>4, <1>6, PassSets, PassKeepsTypes
  <1>11. TextRule(stat_nodes)'
    BY <1>1, <1>2, <1>4, <1>5, <1>6, TextRuleKept DEF PassUnchanged
  <1>12. TreeInv'
    <2>1. in_main = InMain'
      BY <1>1, <1>3 DEF InMain, PassUnchanged
    <2>. QED BY <1>1, <1>4, <1>5, <1>6, <1>8, <1>9, <1>11, <2>1, PassSets DEF TreeInv
  <1>13. SealInv'
    BY <1>1, <1>4, <1>8, PassSets DEF SealInv
  <1>. QED BY <1>1, <1>10, <1>12, <1>13, PassSets DEF PassInv, FreeInv

\* DefineSymbols.
LEMMA DefineKeepsPassInv ==
    ASSUME PassInv, Define
    PROVE  PassInv'
  <1>1. /\ pass = "define" /\ pass' \in {"return_check", "define_crashed"}
        /\ PassUnchanged /\ stat_nodes' = stat_nodes
    BY DEF Define
  <1>2. stat_nodes \in Tree /\ TreeInv /\ SealInv
    BY DEF PassInv, TypeInv, BuilderTypeOK
  <1>3. TypeInv'
    BY <1>1, <1>2, PassSets, PassKeepsTypes
  <1>4. TextRule(stat_nodes)'
    BY <1>1, <1>2 DEF TreeInv, TextRule, PassUnchanged
  <1>5. /\ Shape(stat_nodes) /\ NoLooseExit(stat_nodes) /\ FreesPlaced(stat_nodes)
        /\ ReturnsNote(stat_nodes, {NoScope, ReturnScope(InMain)})
    BY <1>1, <1>2, PassSets DEF TreeInv
  <1>6. InMain' = InMain
    BY <1>1 DEF InMain, PassUnchanged
  <1>7. pass' = "return_check" => ReturnsNote(stat_nodes, {ReturnScope(InMain)})
    <2>1. pass' = "return_check" => ReturnsHaveFreeNodes
      BY <1>1 DEF Define
    <2>. QED BY <1>5, <2>1 DEF ReturnsHaveFreeNodes, ReturnsNote
  <1>8. TreeInv'
    BY <1>1, <1>4, <1>5, <1>6, <1>7, PassSets DEF TreeInv
  <1>9. SealInv'
    <2>1. \E Y \in SUBSET Block : Sealed(stat_nodes, Y, {})
      BY <1>1, <1>2, PassSets DEF SealInv
    <2>. QED BY <1>1, <2>1, PassSets DEF SealInv
  <1>. QED BY <1>1, <1>3, <1>8, <1>9, PassSets DEF PassInv, FreeInv

\* Pruning behind the returns, and behind the breaks and continues.
LEMMA PrunesKeepPassInv ==
    ASSUME PassInv, ReturnCheck \/ BreakPrune
    PROVE  PassInv'
  <1>1. /\ pass \in {"return_check", "break_prune"}
        /\ pass' \in {"break_prune", "scope_to_free", "rejected"}
        /\ pass = "return_check" => pass' \in {"break_prune", "rejected"}
        /\ pass = "break_prune" => pass' = "scope_to_free"
        /\ PassUnchanged
    BY DEF ReturnCheck, BreakPrune, Rewrites
  <1>2. PICK old \in Tree : old = stat_nodes
    BY DEF PassInv, TypeInv, BuilderTypeOK
  <1>3. PICK in_main \in BOOLEAN : in_main = InMain
    BY DEF InMain
  <1>4. PICK new : /\ new = stat_nodes'
                   /\ pass = "return_check" => new = ReturnPruned(old)
                   /\ pass = "break_prune" => new = ExitPruned(old)
    BY <1>2 DEF ReturnCheck, BreakPrune, Rewrites
  <1>5. /\ Shape(old) /\ ReturnsNote(old, {ReturnScope(in_main)}) /\ NoLooseExit(old)
        /\ ReturnsNote(old, {NoScope, ReturnScope(in_main)})
        /\ TextRule(stat_nodes) /\ FreesPlaced(old)
        /\ pass = "break_prune" => RootEndsReturning(old)
    BY <1>1, <1>2, <1>3, PassSets DEF PassInv, TreeInv
  <1>6. Shortened(old, new)
    BY <1>1, <1>4, <1>5, ReturnPrunedProps, ExitPrunedProps DEF Shape
  <1>7. /\ new \in Tree
        /\ Shape(new) /\ NoLooseExit(new) /\ ReturnsNote(new, {ReturnScope(in_main)})
        /\ ReturnsNote(new, {NoScope, ReturnScope(in_main)})
        /\ DeclsFirst(old) => DeclsFirst(new)
        /\ DeclsNotInIfOrBlock(old) => DeclsNotInIfOrBlock(new)
        /\ RootEndsReturning(old) => RootEndsReturning(new)
    <2>1. new \in Tree
      BY <1>6 DEF Shortened
    <2>. QED BY ONLY <1>5, <1>6, <2>1, ShortenedKeeps, old \in Tree
  <1>10. TypeInv'
    BY <1>1, <1>4, <1>7, PassSets, PassKeepsTypes
  <1>11. TextRule(stat_nodes)'
    BY <1>1, <1>2, <1>4, <1>5, <1>7, TextRuleKept DEF PassUnchanged
  <1>8. /\ pass' # "rejected" => FreesPlaced(new) /\ RootEndsReturning(new)
        /\ pass' = "break_prune" => \E Y, R \in SUBSET Block : Sealed(new, Y, R)
        /\ pass' = "scope_to_free" =>
             \E Y, R \in SUBSET Block : Sealed(new, Y, R) /\ ExitsLast(new, Y)
    <2>1. CASE pass = "return_check" /\ pass' # "rejected"
      <3>1. Root \in Returning(old)
        BY <1>2, <2>1 DEF ReturnCheck, BreakPrune, Rewrites
      <3>2. PICK Y \in SUBSET Block : Sealed(old, Y, {})
        BY <1>2, <2>1, PassSets DEF PassInv, SealInv
      <3>3. ParentsFirst(old) /\ FreesPlaced(old)
        BY <1>5 DEF Shape
      <3>4. new = ReturnPruned(old)
        BY <1>4, <2>1
      <3>5. /\ FreesPlaced(new) /\ RootEndsReturning(new)
            /\ \E Z, R \in SUBSET Block : Sealed(new, Z, R)
        BY ONLY <3>1, <3>2, <3>3, <3>4, ReturnPrunedSeals, old \in Tree, Y \in SUBSET Block
      <3>. QED BY <1>1, <2>1, <3>5
    <2>2. CASE pass = "break_prune"
      <3>2. PICK Y \in SUBSET Block, R \in SUBSET Block : Sealed(old, Y, R)
        BY <1>2, <2>2, PassSets DEF PassInv, SealInv
      <3>3. ParentsFirst(old) /\ FreesPlaced(old)
        BY <1>5 DEF Shape
      <3>4. new = ExitPruned(old)
        BY <1>4, <2>2
      <3>5. /\ FreesPlaced(new)
            /\ \E Z \in SUBSET Block : Sealed(new, Z, R) /\ ExitsLast(new, Z)
        BY ONLY <3>2, <3>3, <3>4, ExitPrunedSeals, old \in Tree, Y \in SUBSET Block,
                R \in SUBSET Block
      <3>. QED BY <1>1, <1>5, <1>7, <2>2, <3>5
    <2>. QED BY <1>1, <2>1, <2>2
  <1>12. TreeInv'
    <2>1. in_main = InMain'
      BY <1>1, <1>3 DEF InMain, PassUnchanged
    <2>. QED BY <1>1, <1>4, <1>7, <1>8, <1>11, <2>1, PassSets DEF TreeInv
  <1>13. SealInv'
    BY <1>1, <1>4, <1>8, PassSets DEF SealInv
  <1>. QED BY <1>1, <1>10, <1>12, <1>13, PassSets DEF PassInv, FreeInv

\* Where the releases get their variables from.
LEMMA ScopesKeepPassInv ==
    ASSUME PassInv, ScopesToFree
    PROVE  PassInv'
  <1>1. /\ pass = "scope_to_free" /\ pass' = "codegen"
        /\ PassUnchanged /\ stat_nodes' = stat_nodes
    BY DEF ScopesToFree
  <1>2. stat_nodes \in Tree /\ TreeInv /\ SealInv
    BY DEF PassInv, TypeInv, BuilderTypeOK
  <1>3. TypeInv'
    BY <1>1, <1>2, PassSets, PassKeepsTypes
  <1>4. TextRule(stat_nodes)'
    BY <1>1, <1>2 DEF TreeInv, TextRule, PassUnchanged
  <1>5. InMain' = InMain /\ routine' = routine
    BY <1>1 DEF InMain, PassUnchanged
  <1>6. TreeInv'
    BY <1>1, <1>2, <1>4, <1>5, PassSets DEF TreeInv
  <1>7. SealInv'
    BY <1>1, <1>2, PassSets DEF SealInv
  <1>8. FreeInv'
    BY <1>1, <1>5, PassSets DEF FreeInv, ScopesToFree
  <1>. QED BY <1>3, <1>6, <1>7, <1>8 DEF PassInv

\* The rest of PassInv, when the tree and what is freed stay as they are.
LEMMA TreeStays ==
    ASSUME PassInv, UNCHANGED <<builderVars, routine, to_free>>,
           pass \in {"codegen", "run"}, pass' \in {"run", "codegen_crashed"}
    PROVE  TreeInv' /\ SealInv' /\ FreeInv'
  <1>1. stat_nodes' = stat_nodes /\ TreeInv /\ SealInv /\ FreeInv
    BY DEF PassInv, builderVars
  <1>2. TextRule(stat_nodes)'
    BY <1>1 DEF TreeInv, TextRule
  <1>3. InMain' = InMain
    BY DEF InMain
  <1>4. TreeInv'
    BY <1>1, <1>2, <1>3, PassSets DEF TreeInv
  <1>5. SealInv'
    BY <1>1, PassSets DEF SealInv
  <1>6. FreeInv'
    BY <1>1, <1>3, PassSets DEF FreeInv
  <1>. QED BY <1>4, <1>5, <1>6

-----------------------------------------------------------------------------
(* The stack of an execution.                                              *)

\* The blocks that are reached from the body.
LEMMA ReachableProps ==
    ASSUME NEW tree \in Tree, ParentsFirst(tree)
    PROVE  /\ ReachableBlocks(tree) \subseteq Block /\ Root \in ReachableBlocks(tree)
           /\ \A b \in ReachableBlocks(tree) : \A i \in DOMAIN tree[b] :
                SubBlocks(tree[b][i]) \subseteq ReachableBlocks(tree)
           /\ \A b \in ReachableBlocks(tree) \ {Root} :
                \E c \in ReachableBlocks(tree) : \E i \in DOMAIN tree[c] :
                    b \in SubBlocks(tree[c][i])
  <1>1. PICK cut : cut = [c \in Block |-> Len(tree[c])]
    OBVIOUS
  <1>2. CutOf(tree, cut)
    BY <1>1, StatsOfTree DEF CutOf
  <1>3. ReachedWell(tree, cut, Root)
    BY <1>2, WalkedFromProps, RootIsBlock
  <1>4. \A b \in Block : Kids(tree, cut, b) = UNION {SubBlocks(tree[b][i]) : i \in DOMAIN tree[b]}
    BY <1>1, StatsOfTree DEF Kids
  <1>5. ReachableBlocks(tree) = WalkedFrom(tree, cut, Root)
    BY <1>1 DEF ReachableBlocks, BlocksFrom
  <1>. QED BY <1>3, <1>4, <1>5 DEF ReachedWell

\* The frames of an execution: the first is in the body, each of the others
\* in a block of the statement the one below is at.
StackOK(tree, stack) ==
    /\ stack \in Seq(Frame) /\ Len(stack) > 0
    /\ stack[1].block = Root
    /\ \A k \in 2..Len(stack) :
          InRange(tree, stack[k - 1]) /\ stack[k].block \in SubBlocks(StatAt(tree, stack[k - 1]))
    /\ \A k \in 1..Len(stack) : /\ stack[k].pc <= Len(tree[stack[k].block]) + 1
                                /\ stack[k].block \in ReachableBlocks(tree)
    /\ \A j, k \in 1..Len(stack) : j < k => stack[j].block < stack[k].block

\* A frame is moved on, and those above it are left.
LEMMA StackAdvances ==
    ASSUME NEW tree \in Tree, NEW stack, StackOK(tree, stack),
           NEW k \in 2..(Len(stack) + 1), InRange(tree, stack[k - 1]),
           NEW new \in Seq(Frame), Len(new) = k - 1,
           \A i \in 1..(k - 2) : new[i] = stack[i], new[k - 1] = Advance(stack[k - 1])
    PROVE  StackOK(tree, new)
  <1>1. stack \in Seq(Frame) /\ Len(stack) \in Nat /\ k \in Nat /\ k - 1 \in 1..Len(stack)
    BY DEF StackOK
  <1>2. stack[k - 1] \in Frame
    BY <1>1
  <1>3. new[k - 1].block = stack[k - 1].block /\ new[k - 1].pc = stack[k - 1].pc + 1
    BY <1>2, FrameProps
  <1>4. \A i \in 1..Len(new) : /\ i \in 1..Len(stack) /\ new[i].block = stack[i].block
                               /\ i # k - 1 => new[i] = stack[i]
    <2>1. ASSUME NEW i \in 1..Len(new)
          PROVE  i \in 1..Len(stack) /\ (i # k - 1 => i \in 1..(k - 2))
      BY <1>1
    <2>. QED BY <1>3, <2>1
  <1>5. ASSUME NEW i \in 1..Len(new)
        PROVE  new[i].pc <= Len(tree[new[i].block]) + 1 /\ new[i].block \in ReachableBlocks(tree)
    <2>1. CASE i = k - 1
      <3>1. stack[k - 1].pc <= Len(tree[stack[k - 1].block])
        BY DEF InRange
      <3>2. stack[k - 1].pc \in Nat /\ stack[k - 1].block \in Block
        BY <1>2 DEF Frame
      <3>3. Len(tree[stack[k - 1].block]) \in Nat
        BY <3>2, StatsOfTree
      <3>. QED BY <1>1, <1>3, <2>1, <3>1, <3>2, <3>3 DEF StackOK
    <2>2. CASE i # k - 1
      BY <1>4, <2>2 DEF StackOK
    <2>. QED BY <2>1, <2>2
  <1>6. ASSUME NEW i \in 2..Len(new)
        PROVE  InRange(tree, new[i - 1]) /\ new[i].block \in SubBlocks(StatAt(tree, new[i - 1]))
    <2>1. i \in 1..Len(new) /\ i - 1 \in 1..Len(new) /\ i - 1 # k - 1 /\ i \in 2..Len(stack)
      BY <1>1
    <2>2. new[i - 1] = stack[i - 1] /\ new[i].block = stack[i].block
      BY <1>4, <2>1
    <2>. QED BY <2>1, <2>2 DEF StackOK
  <1>7. new[1].block = Root /\ Len(new) > 0
    <2>1. 1 \in 1..Len(new) /\ Len(new) > 0
      BY <1>1
    <2>. QED BY <1>4, <2>1 DEF StackOK
  <1>8. \A i, j \in 1..Len(new) : i < j => new[i].block < new[j].block
    BY <1>4 DEF StackOK
  <1>. QED BY <1>5, <1>6, <1>7, <1>8 DEF StackOK

\* A block of the statement a frame is at is entered.
LEMMA StackEnters ==
    ASSUME NEW tree \in Tree, ParentsFirst(tree), NEW stack, StackOK(tree, stack),
           NEW k \in 2..(Len(stack) + 1), InRange(tree, stack[k - 1]),
           NEW b \in SubBlocks(StatAt(tree, stack[k - 1])),
           NEW new \in Seq(Frame), Len(new) = k,
           \A i \in 1..(k - 1) : new[i] = stack[i], new[k] = Enter(b)
    PROVE  StackOK(tree, new)
  <1>1. stack \in Seq(Frame) /\ Len(stack) \in Nat /\ k \in Nat /\ k - 1 \in 1..Len(stack)
    BY DEF StackOK
  <1>2. PICK f \in Frame : f = stack[k - 1]
    BY <1>1
  <1>3. PICK c \in Block, p \in Nat :
            c = f.block /\ p = f.pc /\ p \in DOMAIN tree[c] /\ b \in SubBlocks(tree[c][p])
    BY <1>2, StatAtProps, StatsOfTree DEF Frame, StatAt
  <1>4. c \in ReachableBlocks(tree)
    BY <1>1, <1>2, <1>3 DEF StackOK
  <1>5. b \in Block /\ c < b /\ b \in ReachableBlocks(tree)
    BY <1>3, <1>4, ReachableProps DEF ParentsFirst
  <1>6. new[k].block = b /\ new[k].pc = 1
    BY <1>5, FrameProps
  <1>7. \A i \in 1..Len(new) : i # k => i \in 1..Len(stack) /\ i \in 1..(k - 1) /\ new[i] = stack[i]
    <2>1. ASSUME NEW i \in 1..Len(new), i # k
          PROVE  i \in 1..Len(stack) /\ i \in 1..(k - 1)
      BY <1>1, <2>1
    <2>. QED BY <2>1
  <1>8. ASSUME NEW i \in 1..Len(new)
        PROVE  new[i].pc <= Len(tree[new[i].block]) + 1 /\ new[i].block \in ReachableBlocks(tree)
    <2>1. CASE i = k
      <3>1. Len(tree[b]) \in Nat
        BY <1>5, StatsOfTree
      <3>. QED BY <1>5, <1>6, <2>1, <3>1
    <2>2. CASE i # k
      BY <1>7, <2>2 DEF StackOK
    <2>. QED BY <2>1, <2>2
  <1>9. ASSUME NEW i \in 2..Len(new)
        PROVE  InRange(tree, new[i - 1]) /\ new[i].block \in SubBlocks(StatAt(tree, new[i - 1]))
    <2>1. i \in 1..Len(new) /\ i - 1 \in 1..Len(new) /\ i - 1 # k
      BY <1>1
    <2>2. new[i - 1] = stack[i - 1]
      BY <1>7, <2>1
    <2>3. CASE i = k
      BY <1>6, <2>2, <2>3
    <2>4. CASE i # k
      <3>1. i \in 2..Len(stack) /\ new[i] = stack[i]
        BY <1>1, <1>7, <2>1, <2>4
      <3>. QED BY <2>2, <3>1 DEF StackOK
    <2>. QED BY <2>3, <2>4
  <1>10. new[1].block = Root /\ Len(new) > 0
    <2>1. 1 \in 1..Len(new) /\ Len(new) > 0 /\ 1 # k
      BY <1>1
    <2>. QED BY <1>7, <2>1 DEF StackOK
  <1>11. ASSUME NEW i \in 1..Len(new), NEW j \in 1..Len(new), i < j
         PROVE  new[i].block < new[j].block
    <2>1. i # k
      BY <1>1, <1>11
    <2>2. i \in 1..Len(stack) /\ new[i] = stack[i] /\ i \in 1..(k - 1)
      BY <1>7, <2>1
    <2>3. CASE j = k
      <3>1. stack[i].block = c \/ stack[i].block < c
        BY <1>1, <1>2, <1>3, <2>2 DEF StackOK
      <3>2. stack[i].block \in Block
        <4>1. stack[i] \in Frame
          BY <1>1, <2>2
        <4>. QED BY <4>1 DEF Frame
      <3>. QED BY <1>5, <1>6, <2>2, <2>3, <3>1, <3>2 DEF Block
    <2>4. CASE j # k
      BY <1>7, <1>11, <2>2, <2>4 DEF StackOK
    <2>. QED BY <2>3, <2>4
  <1>. QED BY <1>8, <1>9, <1>10, <1>11 DEF StackOK

-----------------------------------------------------------------------------
(* The invariant of the execution.                                         *)

\* What can be allocated: variables, domains of loops, and the parameter.
Positions(tree) == {Parameter} \cup UNION {{b} \X DOMAIN tree[b] : b \in Block}

RunInv ==
    pass = "run" => source = stat_nodes /\ StackOK(source, run) /\ live \subseteq Positions(source)

\* In the execution the tree is as the passes left it.
LEMMA RunTree ==
    ASSUME PassInv, RunInv, pass = "run"
    PROVE  /\ source \in Tree /\ Shape(source) /\ StackOK(source, run)
           /\ run \in Seq(Frame) /\ Len(run) \in Nat /\ Len(run) > 0
           /\ RunFrame = run[Len(run)] /\ RunFrame \in Frame
           /\ RunFrame.block \in Block /\ RunFrame.pc \in Nat
  <1>1. source \in Tree /\ StackOK(source, run) /\ source = stat_nodes
    BY DEF PassInv, TypeInv, RunInv
  <1>2. Shape(source)
    BY <1>1 DEF PassInv, TreeInv
  <1>3. run \in Seq(Frame) /\ Len(run) \in Nat /\ Len(run) > 0
    BY <1>1 DEF StackOK
  <1>4. RunFrame = run[Len(run)] /\ RunFrame \in Frame
    BY <1>3 DEF RunFrame, Top
  <1>. QED BY <1>1, <1>2, <1>3, <1>4 DEF Frame

\* The statement an execution is at.
LEMMA AtRunProps ==
    ASSUME PassInv, RunInv, AtRun
    PROVE  /\ pass = "run"
           /\ RunFrame.pc \in DOMAIN source[RunFrame.block]
           /\ RunAt = source[RunFrame.block][RunFrame.pc] /\ RunAt \in Stat
           /\ InRange(source, run[Len(run)])
           /\ RunAt = StatAt(source, run[Len(run)])
           /\ Here \in Positions(source) /\ Here[1] = RunFrame.block /\ Here[2] = RunFrame.pc
  <1>1. pass = "run" /\ InRange(source, RunFrame)
    BY DEF AtRun, CanRun
  <1>2. /\ source \in Tree /\ RunFrame = run[Len(run)] /\ RunFrame \in Frame
        /\ RunFrame.block \in Block
    BY <1>1, RunTree
  <1>3. RunFrame.pc \in DOMAIN source[RunFrame.block]
    BY <1>1, <1>2, StatAtProps, StatsOfTree
  <1>4. RunAt = source[RunFrame.block][RunFrame.pc] /\ RunAt \in Stat
    BY <1>1, <1>2, StatAtProps DEF RunAt, StatAt
  <1>5. RunAt = StatAt(source, run[Len(run)])
    BY <1>2 DEF RunAt
  <1>. QED BY <1>1, <1>2, <1>3, <1>4, <1>5 DEF Here, Positions

\* The frames in the bodies of loops.
LEMMA LoopBodiesProps ==
    ASSUME PassInv, RunInv, pass = "run", NEW k \in LoopBodies
    PROVE  /\ k \in 2..Len(run) /\ k \in 2..(Len(run) + 1) /\ k - 1 \in 1..Len(run) /\ k \in 1..Len(run)
           /\ InRange(source, run[k - 1]) /\ run[k - 1] \in Frame
           /\ run[k - 1].block \in Block /\ run[k - 1].pc \in DOMAIN source[run[k - 1].block]
           /\ LoopOf(k) = StatAt(source, run[k - 1]) /\ IsLoop(LoopOf(k)) /\ LoopOf(k) \in Stat
           /\ LoopOf(k) = source[run[k - 1].block][run[k - 1].pc]
           /\ SubBlocks(LoopOf(k)) = {run[k].block} /\ LoopOf(k).body = run[k].block
           /\ Domain(k) \subseteq {<<run[k - 1].block, run[k - 1].pc>>}
  <1>1. source \in Tree /\ StackOK(source, run) /\ run \in Seq(Frame) /\ Len(run) \in Nat
    BY RunTree
  <1>2. k \in 2..Len(run) /\ IsLoop(StatAt(source, run[k - 1]))
    BY DEF LoopBodies
  <1>3. k \in 2..(Len(run) + 1) /\ k - 1 \in 1..Len(run) /\ k \in 1..Len(run)
    BY <1>1, <1>2
  <1>4. run[k - 1] \in Frame
    BY <1>1, <1>3
  <1>5. InRange(source, run[k - 1]) /\ run[k].block \in SubBlocks(StatAt(source, run[k - 1]))
    BY <1>1, <1>2 DEF StackOK
  <1>6. /\ StatAt(source, run[k - 1]) \in Stat
        /\ run[k - 1].block \in Block
        /\ run[k - 1].pc \in DOMAIN source[run[k - 1].block]
    BY <1>1, <1>4, <1>5, StatAtProps, StatsOfTree DEF Frame
  <1>7. StatAt(source, run[k - 1]).kind # "cond" /\ StatAt(source, run[k - 1]).kind \notin LeafKind
    BY <1>2 DEF IsLoop, LoopKind, LeafKind, ExitKind
  <1>8. /\ SubBlocks(StatAt(source, run[k - 1])) \subseteq {StatAt(source, run[k - 1]).body}
        /\ StatAt(source, run[k - 1]).body \in SubBlocks(StatAt(source, run[k - 1]))
    BY <1>6, <1>7, StatProps
  <1>9. SubBlocks(StatAt(source, run[k - 1])) = {run[k].block}
        /\ StatAt(source, run[k - 1]).body = run[k].block
    BY <1>5, <1>8
  <1>. QED BY <1>2, <1>3, <1>4, <1>5, <1>6, <1>9 DEF LoopOf, StatAt, Domain

\* Frame k - 1 moves on, those above it are left.
LEMMA AfterProps ==
    ASSUME PassInv, RunInv, pass = "run", NEW k \in 2..(Len(run) + 1),
           InRange(source, run[k - 1]), ContinueAfter(k)
    PROVE  /\ StackOK(source, run') /\ run' \in Seq(Frame) /\ Len(run') = k - 1
           /\ \A i \in 1..(k - 2) : run'[i] = run[i]
           /\ run'[k - 1].block = run[k - 1].block /\ run'[k - 1].pc = run[k - 1].pc + 1
  <1>1. source \in Tree /\ StackOK(source, run) /\ run \in Seq(Frame) /\ Len(run) \in Nat
    BY RunTree
  <1>2. /\ run' \in Seq(Frame) /\ Len(run') = k - 1
        /\ \A i \in 1..(k - 2) : run'[i] = run[i]
        /\ run'[k - 1] = Advance(run[k - 1])
        /\ run[k - 1] \in Frame
    BY <1>1, RunStepProps
  <1>3. PICK old : old = run /\ StackOK(source, old)
    BY <1>1
  <1>4. PICK new \in Seq(Frame) : new = run'
    BY <1>2
  <1>5. PICK tree \in Tree : tree = source
    BY <1>1
  <1>6. /\ k \in 2..(Len(old) + 1) /\ InRange(tree, old[k - 1]) /\ StackOK(tree, old)
        /\ Len(new) = k - 1 /\ new[k - 1] = Advance(old[k - 1])
        /\ \A i \in 1..(k - 2) : new[i] = old[i]
    BY <1>2, <1>3, <1>4, <1>5
  <1>7. StackOK(tree, new)
    BY ONLY <1>6, StackAdvances, tree \in Tree, new \in Seq(Frame)
  <1>. QED BY <1>2, <1>4, <1>5, <1>7, FrameProps

\* A block of the statement frame k - 1 is at is entered.
LEMMA InProps ==
    ASSUME PassInv, RunInv, pass = "run", NEW k \in 2..(Len(run) + 1),
           InRange(source, run[k - 1]), NEW b \in SubBlocks(StatAt(source, run[k - 1])),
           ContinueIn(k, b)
    PROVE  /\ StackOK(source, run') /\ run' \in Seq(Frame) /\ Len(run') = k
           /\ \A i \in 1..(k - 1) : run'[i] = run[i]
           /\ run'[k].block = b /\ run'[k].pc = 1 /\ b \in Block
  <1>1. /\ source \in Tree /\ StackOK(source, run) /\ run \in Seq(Frame) /\ Len(run) \in Nat
        /\ ParentsFirst(source)
    BY RunTree DEF Shape
  <1>2. run[k - 1] \in Frame
    BY <1>1, RunStepProps
  <1>3. b \in Block
    BY <1>1, <1>2, StatAtProps, StatProps
  <1>4. /\ run' \in Seq(Frame) /\ Len(run') = k
        /\ \A i \in 1..(k - 1) : run'[i] = run[i]
        /\ run'[k] = Enter(b)
    BY <1>1, <1>3, RunStepProps
  <1>5. PICK old : old = run /\ StackOK(source, old)
    BY <1>1
  <1>6. PICK new \in Seq(Frame) : new = run'
    BY <1>4
  <1>7. PICK tree \in Tree : tree = source
    BY <1>1
  <1>8. /\ k \in 2..(Len(old) + 1) /\ InRange(tree, old[k - 1]) /\ StackOK(tree, old)
        /\ b \in SubBlocks(StatAt(tree, old[k - 1]))
        /\ Len(new) = k /\ new[k] = Enter(b) /\ ParentsFirst(tree)
        /\ \A i \in 1..(k - 1) : new[i] = old[i]
    BY <1>1, <1>4, <1>5, <1>6, <1>7
  <1>9. StackOK(tree, new)
    BY ONLY <1>8, StackEnters, tree \in Tree, new \in Seq(Frame)
  <1>. QED BY <1>3, <1>4, <1>6, <1>7, <1>9, FrameProps

-----------------------------------------------------------------------------
(* The kinds of steps an execution has.                                    *)

\* It goes on behind the statement it is at.
Passing ==
    /\ AtRun /\ ContinueAfter(Len(run) + 1) /\ UNCHANGED outcome
    /\ RunAt.kind \in {"plain", "decl", "free"} \/ MaySkip(RunAt)
    /\ \/ RunAt.kind \notin {"decl", "free"} /\ UNCHANGED heapVars
       \/ RunAt.kind = "decl" /\ live' = live \cup {Here} /\ UNCHANGED wild
       \/ RunAt.kind = "free" /\ Release(Freed(RunFrame.block, RunAt))

\* It is at the end of the innermost loop's body, or at a break or continue.
AtTurn(k) ==
    /\ Innermost(k) /\ UNCHANGED outcome
    /\ \/ AtRun /\ IsExit(RunAt)
       \/ CanRun /\ ~InRange(source, RunFrame) /\ k = Len(run)

Leaving == \E k \in LoopBodies : AtTurn(k) /\ LeaveLoop(k)

Turning ==
    \E k \in LoopBodies : AtTurn(k) /\ ContinueIn(k, LoopOf(k).body) /\ UNCHANGED heapVars

\* It is at the end of a block that is no loop's body.
Ending ==
    /\ CanRun /\ ~InRange(source, RunFrame)
    /\ Len(run) > 1 /\ Len(run) \notin LoopBodies
    /\ ContinueAfter(Len(run)) /\ UNCHANGED <<outcome, heapVars>>

LEMMA RunCases ==
    ASSUME PassInv, RunInv, Run
    PROVE  /\ CanRun /\ RunUnchanged
           /\ Passing \/ RunEnter \/ RunReturn \/ Leaving \/ Turning \/ Ending
  <1>1. ASSUME RunSimple \/ RunDecl \/ RunFree \/ RunSkip
        PROVE  CanRun /\ RunUnchanged /\ Passing
    <2>1. AtRun
      BY <1>1 DEF RunSimple, RunDecl, RunFree, RunSkip
    <2>2. RunAt \in Stat
      BY <2>1, AtRunProps
    <2>3. RunSkip => RunAt.kind \notin {"decl", "free"}
      BY DEF RunSkip, MaySkip
    <2>. QED BY <1>1, <2>1, <2>3
         DEF RunSimple, RunDecl, RunFree, RunSkip, Passing, AtRun, heapVars
  <1>2. ASSUME RunEnter \/ RunReturn PROVE CanRun /\ RunUnchanged
    BY <1>2 DEF RunEnter, RunReturn, AtRun
  <1>3. ASSUME NEW k \in LoopBodies, AtTurn(k), NextTurn(k) \/ LeaveLoop(k)
        PROVE  Leaving \/ Turning
    BY <1>3 DEF Leaving, Turning, NextTurn
  <1>4. ASSUME RunBreak \/ RunContinue
        PROVE  CanRun /\ RunUnchanged /\ (Leaving \/ Turning)
    <2>1. AtRun /\ IsExit(RunAt) /\ UNCHANGED outcome /\ RunUnchanged
      BY <1>4 DEF RunBreak, RunContinue, IsExit, ExitKind
    <2>2. PICK k \in LoopBodies : Innermost(k) /\ (LeaveLoop(k) \/ NextTurn(k))
      BY <1>4 DEF RunBreak, RunContinue
    <2>3. AtTurn(k)
      BY <2>1, <2>2 DEF AtTurn
    <2>. QED BY <1>3, <2>1, <2>2, <2>3 DEF AtRun
  <1>5. ASSUME RunEndOfBlock
        PROVE  CanRun /\ RunUnchanged /\ (Leaving \/ Turning \/ Ending)
    <2>1. CanRun /\ ~InRange(source, RunFrame) /\ UNCHANGED outcome /\ RunUnchanged /\ Len(run) > 1
      BY <1>5 DEF RunEndOfBlock
    <2>2. CASE Len(run) \in LoopBodies
      <3>1. NextTurn(Len(run))
        BY <1>5, <2>2 DEF RunEndOfBlock
      <3>2. PICK k \in LoopBodies : k = Len(run)
        BY <2>2
      <3>3. \A j \in LoopBodies : j <= k
        <4>1. Len(run) \in Nat
          BY <2>1, RunTree DEF CanRun
        <4>. QED BY <3>2, <4>1 DEF LoopBodies
      <3>4. AtTurn(k)
        BY <2>1, <3>2, <3>3 DEF AtTurn, Innermost
      <3>. QED BY <1>3, <2>1, <3>1, <3>2, <3>4
    <2>3. CASE Len(run) \notin LoopBodies
      BY <1>5, <2>1, <2>3 DEF RunEndOfBlock, Ending, heapVars
    <2>. QED BY <2>2, <2>3
  <1>. QED BY <1>1, <1>2, <1>4, <1>5 DEF Run

\* What each of them does to the stack.
LEMMA RunKeepsStack ==
    ASSUME PassInv, RunInv, Run
    PROVE  StackOK(source, run') /\ live' \subseteq Positions(source)
  <1>1. CanRun /\ pass = "run" /\ live \subseteq Positions(source)
    BY RunCases DEF CanRun, RunInv
  <1>2. /\ StackOK(source, run) /\ Len(run) \in Nat /\ Len(run) > 0
        /\ Len(run) + 1 \in 2..(Len(run) + 1) /\ Len(run) + 1 - 1 = Len(run)
    BY <1>1, RunTree
  <1>3. CASE Passing
    <2>1. InRange(source, run[Len(run)]) /\ Here \in Positions(source)
      BY <1>3, AtRunProps DEF Passing
    <2>2. PICK k \in 2..(Len(run) + 1) : k = Len(run) + 1 /\ k - 1 = Len(run)
      BY <1>2
    <2>3. StackOK(source, run')
      BY <1>1, <1>3, <2>1, <2>2, AfterProps DEF Passing
    <2>. QED BY <1>1, <1>3, <2>1, <2>3 DEF Passing, heapVars, Release
  <1>4. CASE RunEnter
    <2>1. InRange(source, run[Len(run)]) /\ Here \in Positions(source)
          /\ RunAt = StatAt(source, run[Len(run)])
      BY <1>4, AtRunProps DEF RunEnter
    <2>2. PICK k \in 2..(Len(run) + 1) : k = Len(run) + 1 /\ k - 1 = Len(run)
      BY <1>2
    <2>3. PICK b \in SubBlocks(StatAt(source, run[k - 1])) : ContinueIn(k, b)
      BY <1>4, <2>1, <2>2 DEF RunEnter
    <2>4. StackOK(source, run')
      BY <1>1, <2>1, <2>2, <2>3, InProps
    <2>. QED BY <1>1, <1>4, <2>1, <2>4 DEF RunEnter
  <1>5. CASE RunReturn
    BY <1>1, <1>2, <1>5 DEF RunReturn, Release
  <1>6. CASE Leaving
    <2>1. PICK k \in LoopBodies : AtTurn(k) /\ ContinueAfter(k) /\ Release(Domain(k))
      BY <1>6 DEF Leaving, LeaveLoop
    <2>2. k \in 2..(Len(run) + 1) /\ InRange(source, run[k - 1])
      BY <1>1, LoopBodiesProps
    <2>. QED BY <1>1, <2>1, <2>2, AfterProps DEF Release
  <1>7. CASE Turning
    <2>1. PICK k \in LoopBodies : ContinueIn(k, LoopOf(k).body) /\ UNCHANGED heapVars
      BY <1>7 DEF Turning
    <2>2. /\ k \in 2..(Len(run) + 1) /\ InRange(source, run[k - 1])
          /\ LoopOf(k).body \in SubBlocks(StatAt(source, run[k - 1]))
      BY <1>1, LoopBodiesProps
    <2>. QED BY <1>1, <2>1, <2>2, InProps DEF heapVars
  <1>8. CASE Ending
    <2>1. PICK k \in 2..(Len(run) + 1) : k = Len(run) /\ k \in 2..Len(run)
      <3>1. Len(run) > 1
        BY <1>8 DEF Ending
      <3>2. Len(run) \in Nat
        BY <1>2
      <3>3. Len(run) \in 2..(Len(run) + 1) /\ Len(run) \in 2..Len(run)
        BY ONLY <3>1, <3>2
      <3>. QED BY ONLY <3>3
    <2>2. InRange(source, run[k - 1])
      BY <1>2, <2>1 DEF StackOK
    <2>. QED BY <1>1, <1>8, <2>1, <2>2, AfterProps DEF Ending, heapVars
  <1>. QED BY <1>3, <1>4, <1>5, <1>6, <1>7, <1>8, RunCases

\* The passes and the execution together.
Inv == PassInv /\ RunInv

LEMMA RunKeepsInv ==
    ASSUME Inv, Run
    PROVE  Inv'
  <1>1. PassInv /\ RunInv
    BY DEF Inv
  <1>2. CanRun /\ RunUnchanged /\ pass = "run" /\ pass' = "run"
    BY <1>1, RunCases DEF CanRun, RunUnchanged
  <1>3. StackOK(source, run') /\ live' \subseteq Positions(source)
    BY <1>1, RunKeepsStack
  <1>4. run' \in Seq(Frame) /\ run' # <<>>
    BY <1>3 DEF StackOK
  <1>5. outcome' \in Outcome
    BY <1>1, RunCases
    DEF PassInv, TypeInv, Passing, RunEnter, RunReturn, Leaving, Turning, Ending, AtTurn, Outcome
  <1>6. TypeInv'
    BY <1>1, <1>2, <1>4, <1>5
    DEF PassInv, TypeInv, RunUnchanged, builderVars, BuilderTypeOK
  <1>7. TreeInv' /\ SealInv' /\ FreeInv'
    BY <1>1, <1>2, TreeStays DEF RunUnchanged
  <1>8. RunInv'
    BY <1>1, <1>2, <1>3 DEF RunInv, RunUnchanged, builderVars, Positions
  <1>. QED BY <1>6, <1>7, <1>8 DEF Inv, PassInv

\* The code generator starts the execution in the body.
LEMMA CodeGenKeepsInv ==
    ASSUME Inv, CodeGen
    PROVE  Inv'
  <1>1. /\ PassInv /\ pass = "codegen" /\ pass' \in {"run", "codegen_crashed"}
        /\ UNCHANGED <<builderVars, outcome, routine, to_free>> /\ run = <<>>
    BY DEF CodeGen, Inv, PassInv, TypeInv
  <1>2. stat_nodes \in Tree /\ Shape(stat_nodes) /\ outcome = "running"
    BY <1>1, PassSets DEF PassInv, TypeInv, TreeInv, BuilderTypeOK, Outcome
  <1>3. PICK one \in Seq(Frame) :
           /\ one = <<Enter(Root)>> /\ Len(one) = 1 /\ one[1].block = Root /\ one[1].pc = 1
    <2>1. PICK f \in Frame : f = Enter(Root) /\ f.block = Root /\ f.pc = 1
      BY FrameProps, RootIsBlock
    <2>2. <<f>> \in Seq(Frame) /\ Len(<<f>>) = 1 /\ <<f>>[1] = f
      OBVIOUS
    <2>. QED BY <2>1, <2>2
  <1>4. StackOK(stat_nodes, one)
    <2>1. Root \in ReachableBlocks(stat_nodes)
      BY <1>2, ReachableProps DEF Shape
    <2>2. 1 <= Len(stat_nodes[Root]) + 1
      BY <1>2, RootIsBlock, StatsOfTree
    <2>. QED BY <1>3, <2>1, <2>2 DEF StackOK
  <1>5. TypeInv'
    <2>1. pass' = "run" => run' = one /\ source' = stat_nodes
      BY <1>1, <1>3 DEF CodeGen
    <2>2. pass' # "run" => UNCHANGED <<run, source>>
      BY <1>1 DEF CodeGen
    <2>3. one # <<>>
      BY <1>3
    <2>4. TypeInv /\ BuilderTypeOK'
      BY <1>1 DEF PassInv, TypeInv, BuilderTypeOK, builderVars
    <2>5. CASE pass' = "run"
      BY <1>1, <1>2, <2>1, <2>3, <2>4, <2>5, PassSets DEF TypeInv
    <2>6. CASE pass' = "codegen_crashed"
      BY <1>1, <1>2, <2>2, <2>4, <2>6, PassSets DEF TypeInv
    <2>. QED BY <1>1, <2>5, <2>6
  <1>6. TreeInv' /\ SealInv' /\ FreeInv'
    BY <1>1, TreeStays
  <1>7. RunInv'
    <2>1. pass' = "run" => /\ run' = one /\ source' = stat_nodes /\ stat_nodes' = stat_nodes
                           /\ live' \in {{}, {Parameter}}
      BY <1>1, <1>3 DEF CodeGen, builderVars
    <2>. QED BY <1>4, <2>1 DEF RunInv, Positions
  <1>. QED BY <1>5, <1>6, <1>7 DEF Inv, PassInv

\* Inv is an invariant of Lifetime.
LEMMA InvStep ==
    ASSUME Inv, [Next]_vars
    PROVE  Inv'
  <1>. USE DEF Inv
  <1>1. ASSUME PassInv', pass' # "run" PROVE Inv'
    BY <1>1 DEF RunInv
  <1>2. CASE Building
    BY <1>1, <1>2, BuildingKeepsPassInv DEF Building
  <1>3. CASE BreakCheck \/ DeclCheck
    BY <1>1, <1>3, ChecksKeepPassInv DEF BreakCheck, DeclCheck, Checks
  <1>4. CASE AddFree
    BY <1>1, <1>4, AddFreeKeepsPassInv DEF AddFree, Rewrites
  <1>5. CASE Define
    BY <1>1, <1>5, DefineKeepsPassInv DEF Define
  <1>6. CASE ReturnCheck \/ BreakPrune
    BY <1>1, <1>6, PrunesKeepPassInv DEF ReturnCheck, BreakPrune, Rewrites
  <1>7. CASE ScopesToFree
    BY <1>1, <1>7, ScopesKeepPassInv DEF ScopesToFree
  <1>8. CASE CodeGen
    BY <1>8, CodeGenKeepsInv
  <1>9. CASE Run
    BY <1>9, RunKeepsInv
  <1>10. CASE UNCHANGED vars
    BY <1>10
    DEF vars, heapVars, builderVars, PassInv, RunInv, TypeInv, TreeInv, SealInv, FreeInv,
        BuilderTypeOK, TextRule, InMain
  <1>. QED BY <1>2, <1>3, <1>4, <1>5, <1>6, <1>7, <1>8, <1>9, <1>10 DEF Next, Passes, Done

LEMMA InvInit == ASSUME Init PROVE Inv
  BY PassInvInit DEF Inv, RunInv, Init

-----------------------------------------------------------------------------
(* What a release frees.                                                   *)

\* A declaration of the tree, by its position.
IsDeclAt(tree, v) ==
    \E b \in ReachableBlocks(tree) : \E i \in DOMAIN tree[b] :
        v = <<b, i>> /\ tree[b][i].kind = "decl"

LEMMA DeclarationsDef ==
    ASSUME NEW tree \in Tree, ParentsFirst(tree)
    PROVE  \A v : v \in Declarations(tree) <=> IsDeclAt(tree, v)
  <1>1. ReachableBlocks(tree) \subseteq Block
    BY ReachableProps
  <1>2. ASSUME NEW v \in Declarations(tree) PROVE IsDeclAt(tree, v)
    <2>1. PICK b \in ReachableBlocks(tree) : v \in {b} \X DOMAIN tree[b]
      BY DEF Declarations
    <2>2. PICK i \in DOMAIN tree[b] : v = <<b, i>>
      BY <2>1
    <2>3. v[1] = b /\ v[2] = i
      BY <2>2
    <2>4. tree[v[1]][v[2]].kind = "decl"
      BY DEF Declarations
    <2>. QED BY <2>2, <2>3, <2>4 DEF IsDeclAt
  <1>3. ASSUME NEW v, IsDeclAt(tree, v) PROVE v \in Declarations(tree)
    <2>1. PICK b \in ReachableBlocks(tree), i \in Nat :
              i \in DOMAIN tree[b] /\ v = <<b, i>> /\ tree[b][i].kind = "decl"
      BY <1>1, <1>3, StatsOfTree DEF IsDeclAt
    <2>2. v[1] = b /\ v[2] = i /\ v \in {b} \X DOMAIN tree[b]
      BY <2>1
    <2>. QED BY <2>1, <2>2 DEF Declarations
  <1>. QED BY <1>2, <1>3

\* In main a variable of a sound text is released in its own block, unless it
\* is the body's.
LEMMA SoundScopes ==
    ASSUME NEW tree \in Tree, Shape(tree), DeclsFirst(tree), DeclsNotInIfOrBlock(tree),
           NEW b \in ReachableBlocks(tree), b # Root, NEW i \in DOMAIN tree[b],
           tree[b][i].kind = "decl"
    PROVE  InNestedScope(tree, b, i)
  <1>1. ParentsFirst(tree) /\ b \in Block
    BY ReachableProps DEF Shape
  <1>2. PICK c \in Block : \E j \in DOMAIN tree[c] : b \in SubBlocks(tree[c][j])
    BY <1>1, ReachableProps
  <1>3. PICK j \in DOMAIN tree[c] : b \in SubBlocks(tree[c][j])
    BY <1>2
  <1>4. PICK s \in Stat : s = tree[c][j]
    BY StatsOfTree
  <1>5. PICK o \in Owners(tree, b) : o = <<c, j>> /\ o[1] = c /\ o[2] = j
    <2>1. <<c, j>> \in Owners(tree, b)
      BY <1>1, <1>3, OwnersDef
    <2>. QED BY <2>1
  <1>6. \A k \in 1..(i - 1) : tree[b][k].kind = "decl"
    BY <1>1 DEF DeclsFirst
  <1>7. IsLoop(s) \/ b = s.alt => InNestedScope(tree, b, i)
    BY <1>1, <1>4, <1>5, <1>6, InNestedScopeProps
  <1>8. ASSUME ~IsLoop(s), b # s.alt PROVE FALSE
    <2>1. b = s.body /\ s.kind \notin LeafKind
      BY <1>3, <1>4, <1>8, StatProps DEF SubBlocks
    <2>2. s.kind \in {"block", "cond"}
      BY <1>8, <2>1 DEF Stat, NodeFields, Kind, IsLoop
    <2>. QED BY <1>1, <1>4, <2>1, <2>2 DEF DeclsNotInIfOrBlock
  <1>. QED BY <1>7, <1>8

\* What the scopes release once ScopeToFreeWalker is through.
LEMMA FreedProps ==
    ASSUME PassInv, pass \in {"codegen", "run"}
    PROVE  /\ \A b \in Block : \A v \in to_free[b] :
                \/ IsDeclAt(stat_nodes, v) /\ v[1] = b
                \/ b = Root /\ v = Parameter /\ routine = "procedure"
           /\ \A v \in to_free[Global] : IsDeclAt(stat_nodes, v)
           /\ \A v : IsDeclAt(stat_nodes, v) /\ ~InMain => v \in to_free[v[1]]
           /\ \A v : IsDeclAt(stat_nodes, v) /\ InMain /\ v[1] = Root => v \in to_free[Global]
           /\ routine = "procedure" => Parameter \in to_free[Root]
           /\ ~InMain => to_free[Global] = {}
           /\ DeclText = "sound" /\ InMain =>
                /\ \A v \in to_free[Global] : v[1] = Root
                /\ \A v : IsDeclAt(stat_nodes, v) /\ v[1] # Root => v \in to_free[v[1]]
  <1>1. PICK tree \in Tree : tree = stat_nodes
    BY DEF PassInv, TypeInv, BuilderTypeOK
  <1>2. Shape(tree) /\ ParentsFirst(tree) /\ TextRule(stat_nodes)
    BY <1>1 DEF PassInv, TreeInv, Shape
  <1>3. ReachableBlocks(tree) \subseteq Block
    BY <1>2, ReachableProps
  <1>. DEFINE Scope(v) == IF InMain /\ ~InNestedScope(tree, v[1], v[2]) THEN Global ELSE v[1]
              mine     == IF routine = "procedure" THEN {Parameter} ELSE {}
  <1>4. Global \notin Block
    BY DEF Global, Block
  <1>5. \A v : IsDeclAt(tree, v) => v[1] \in Block /\ v[1] \in ReachableBlocks(tree)
                                 /\ Scope(v) \in {Global} \cup Block
    BY <1>3 DEF IsDeclAt
  <1>6. \A scope \in {Global} \cup Block : \A v :
          v \in SymbolsToFree(tree, InMain)[scope] <=> IsDeclAt(tree, v) /\ scope = Scope(v)
    BY <1>2, DeclarationsDef DEF SymbolsToFree
  <1>7. to_free = [SymbolsToFree(tree, InMain) EXCEPT ![Root] = @ \cup mine]
    BY <1>1, PassSets DEF PassInv, FreeInv
  <1>8. DOMAIN SymbolsToFree(tree, InMain) = {Global} \cup Block
    BY DEF SymbolsToFree
  <1>9. /\ \A b \in Block \ {Root} : to_free[b] = SymbolsToFree(tree, InMain)[b]
        /\ to_free[Root] = SymbolsToFree(tree, InMain)[Root] \cup mine
        /\ to_free[Global] = SymbolsToFree(tree, InMain)[Global]
    BY <1>4, <1>7, <1>8, RootIsBlock
  <1>. HIDE DEF Scope, mine
  <1>10. \A v : (InMain /\ ~InNestedScope(tree, v[1], v[2]) /\ Scope(v) = Global)
             \/ (~(InMain /\ ~InNestedScope(tree, v[1], v[2])) /\ Scope(v) = v[1])
    BY DEF Scope
  <1>11. ASSUME NEW b \in Block, NEW v \in to_free[b]
         PROVE  \/ IsDeclAt(tree, v) /\ v[1] = b
                \/ b = Root /\ v = Parameter /\ routine = "procedure"
    <2>1. CASE v \in SymbolsToFree(tree, InMain)[b]
      <3>1. IsDeclAt(tree, v) /\ b = Scope(v)
        BY <1>6, <2>1
      <3>. QED BY <1>4, <1>10, <3>1
    <2>2. CASE v \notin SymbolsToFree(tree, InMain)[b]
      BY <1>9, <1>11, <2>2 DEF mine
    <2>. QED BY <2>1, <2>2
  <1>12. ASSUME NEW v, IsDeclAt(tree, v), Scope(v) = v[1] PROVE v \in to_free[v[1]]
    <2>1. v[1] \in Block /\ v \in SymbolsToFree(tree, InMain)[v[1]]
      BY <1>5, <1>6, <1>12
    <2>. QED BY <1>9, <2>1
  <1>13. ASSUME NEW v, IsDeclAt(tree, v), InMain, v[1] = Root PROVE v \in to_free[Global]
    <2>1. PICK b \in Block : \E i \in DOMAIN tree[b] : v = <<b, i>>
      BY <1>3, <1>13 DEF IsDeclAt
    <2>2. ~InNestedScope(tree, v[1], v[2])
      BY <1>2, <1>13, <2>1, InNestedScopeProps
    <2>. QED BY <1>6, <1>9, <1>10, <1>13, <2>2
  <1>14. ASSUME DeclText = "sound", InMain, NEW v, IsDeclAt(tree, v), v[1] # Root
         PROVE  Scope(v) = v[1]
    <2>1. DeclsFirst(tree) /\ DeclsNotInIfOrBlock(tree)
      BY <1>1, <1>2, <1>14 DEF TextRule, InMain
    <2>2. PICK b \in ReachableBlocks(tree) : b # Root /\ \E i \in DOMAIN tree[b] :
              v = <<b, i>> /\ tree[b][i].kind = "decl"
      BY <1>14 DEF IsDeclAt
    <2>3. PICK i \in DOMAIN tree[b] : v = <<b, i>> /\ tree[b][i].kind = "decl"
      BY <2>2
    <2>4. InNestedScope(tree, b, i)
      BY <1>2, <2>1, <2>2, <2>3, SoundScopes
    <2>. QED BY <1>10, <2>3, <2>4
  <1>15. ASSUME NEW v \in to_free[Global] PROVE IsDeclAt(tree, v) /\ Scope(v) = Global
    BY <1>6, <1>9
  <1>16. ~InMain => to_free[Global] = {}
    <2>1. ASSUME ~InMain, NEW v \in to_free[Global] PROVE FALSE
      <3>1. IsDeclAt(tree, v) /\ Scope(v) = Global
        BY <1>15
      <3>. QED BY <1>4, <1>5, <1>10, <2>1, <3>1
    <2>. QED BY <2>1
  <1>17. routine = "procedure" => Parameter \in to_free[Root]
    BY <1>9 DEF mine
  <1>18. ASSUME DeclText = "sound", InMain, NEW v \in to_free[Global] PROVE v[1] = Root
    <2>1. IsDeclAt(tree, v) /\ Scope(v) = Global
      BY <1>15
    <2>. QED BY <1>4, <1>5, <1>14, <1>18, <2>1
  <1>19. \A v : IsDeclAt(tree, v) /\ ~InMain => v \in to_free[v[1]]
    BY <1>10, <1>12
  <1>20. DeclText = "sound" /\ InMain =>
             \A v : IsDeclAt(tree, v) /\ v[1] # Root => v \in to_free[v[1]]
    BY <1>12, <1>14
  <1>. QED BY <1>1, <1>11, <1>13, <1>15, <1>16, <1>17, <1>18, <1>19, <1>20

-----------------------------------------------------------------------------
(* The domains of the running loops, and what a return releases.           *)

\* A frame the step leaves alone is in the loop it was in.
LEMMA DomainStays ==
    ASSUME source' = source, NEW k \in LoopBodies, k <= Len(run'), Len(run') \in Nat,
           run'[k - 1] = run[k - 1]
    PROVE  k \in LoopBodies' /\ Domain(k)' = Domain(k)
  <1>1. k \in 2..Len(run')
    BY DEF LoopBodies
  <1>. QED BY <1>1 DEF LoopBodies, Domain, LoopOf

LEMMA RunKeepsDomains ==
    ASSUME Inv, OnlyRunningDomains, Run
    PROVE  OnlyRunningDomains'
  <1>1. PassInv /\ RunInv
    BY DEF Inv
  <1>2. CanRun /\ pass = "run" /\ source' = source
    BY <1>1, RunCases DEF CanRun, RunUnchanged
  <1>3. /\ StackOK(source, run) /\ Len(run) \in Nat /\ Len(run) > 0
        /\ \A k \in LoopBodies : k \in 2..Len(run)
    BY <1>1, <1>2, RunTree DEF LoopBodies
  <1>. DEFINE IsDomain(v) == v[2] > 0 /\ IsLoop(source[v[1]][v[2]])
  <1>4. SUFFICES ASSUME CanRun', NEW v \in live', IsDomain(v)
                 PROVE  \E k \in LoopBodies' : v \in Domain(k)'
    BY <1>2 DEF OnlyRunningDomains, Domains
  <1>5. v \in live => \E k \in LoopBodies : v \in Domain(k)
    BY <1>2, <1>4 DEF OnlyRunningDomains, Domains
  <1>6. ASSUME NEW k \in LoopBodies, v \in Domain(k), k <= Len(run'), Len(run') \in Nat,
               run'[k - 1] = run[k - 1]
        PROVE  \E j \in LoopBodies' : v \in Domain(j)'
    <2>1. k \in LoopBodies' /\ Domain(k)' = Domain(k)
      BY <1>2, <1>6, DomainStays
    <2>. QED BY <1>6, <2>1
  <1>7. AtRun => Here[1] = RunFrame.block /\ Here[2] = RunFrame.pc
                 /\ RunAt = source[RunFrame.block][RunFrame.pc] /\ InRange(source, run[Len(run)])
                 /\ RunAt = StatAt(source, run[Len(run)])
    BY <1>1, AtRunProps
  <1>8. PICK n \in 2..(Len(run) + 1) : n = Len(run) + 1 /\ n - 1 = Len(run)
    BY <1>3
  <1>9. CASE Passing
    <2>1. ASSUME v \notin live PROVE FALSE
      <3>1. RunAt.kind = "decl" /\ v = Here
        BY <1>4, <1>9, <2>1 DEF Passing, heapVars, Release
      <3>2. RunAt = source[v[1]][v[2]]
        BY <1>7, <1>9, <3>1 DEF Passing
      <3>. QED BY <1>4, <3>1, <3>2 DEF IsLoop, LoopKind
    <2>2. PICK k \in LoopBodies : v \in Domain(k)
      BY <1>5, <2>1
    <2>3. Len(run') = Len(run) /\ \A i \in 1..(Len(run) - 1) : run'[i] = run[i]
      BY <1>1, <1>2, <1>3, <1>7, <1>8, <1>9, AfterProps DEF Passing
    <2>4. k <= Len(run') /\ k - 1 \in 1..(Len(run) - 1)
      BY <1>3, <2>3
    <2>. QED BY <1>3, <1>6, <2>2, <2>3, <2>4
  <1>10. CASE RunEnter
    <2>1. PICK b \in SubBlocks(StatAt(source, run[n - 1])) : ContinueIn(n, b)
      BY <1>7, <1>8, <1>10 DEF RunEnter
    <2>2. Len(run') = n /\ \A i \in 1..Len(run) : run'[i] = run[i]
      BY <1>1, <1>2, <1>7, <1>8, <1>10, <2>1, InProps DEF RunEnter
    <2>3. CASE v \in live
      <3>1. PICK k \in LoopBodies : v \in Domain(k)
        BY <1>5, <2>3
      <3>2. k <= Len(run') /\ k - 1 \in 1..Len(run)
        BY <1>3, <1>8, <2>2
      <3>. QED BY <1>6, <1>8, <2>2, <3>1, <3>2
    <2>4. CASE v \notin live
      <3>1. v = Here /\ RunAt.kind = "iter_loop"
        BY <1>4, <1>10, <2>4 DEF RunEnter
      <3>2. run'[n - 1] = run[Len(run)] /\ RunAt = StatAt(source, run'[n - 1])
        BY <1>3, <1>7, <1>8, <1>10, <2>2 DEF RunEnter
      <3>3. n \in LoopBodies'
        BY <1>2, <1>8, <2>2, <3>1, <3>2 DEF LoopBodies, IsLoop, LoopKind
      <3>4. RunFrame = run'[n - 1]
        BY <1>1, <1>2, <3>2, RunTree
      <3>5. Domain(n)' = {Here}
        BY <1>2, <3>1, <3>2, <3>4 DEF Domain, LoopOf, Here
      <3>. QED BY <3>1, <3>3, <3>5
    <2>. QED BY <2>3, <2>4
  <1>11. CASE RunReturn
    BY <1>4, <1>11 DEF RunReturn, CanRun
  <1>12. CASE Leaving
    <2>1. PICK m \in LoopBodies : AtTurn(m) /\ ContinueAfter(m) /\ Release(Domain(m))
      BY <1>12 DEF Leaving, LeaveLoop
    <2>2. Len(run') = m - 1 /\ \A i \in 1..(m - 2) : run'[i] = run[i]
      BY <1>1, <1>2, <2>1, LoopBodiesProps, AfterProps
    <2>3. PICK k \in LoopBodies : v \in Domain(k) /\ k # m
      BY <1>4, <1>5, <2>1 DEF Release
    <2>4. k <= m
      BY <2>1 DEF AtTurn, Innermost
    <2>5. k <= Len(run') /\ k - 1 \in 1..(m - 2) /\ Len(run') \in Nat
      BY <1>3, <2>2, <2>3, <2>4
    <2>. QED BY <1>6, <2>2, <2>3, <2>5
  <1>13. CASE Turning
    <2>1. PICK m \in LoopBodies :
              AtTurn(m) /\ ContinueIn(m, LoopOf(m).body) /\ UNCHANGED heapVars
      BY <1>13 DEF Turning
    <2>2. Len(run') = m /\ \A i \in 1..(m - 1) : run'[i] = run[i]
      BY <1>1, <1>2, <2>1, LoopBodiesProps, InProps
    <2>3. PICK k \in LoopBodies : v \in Domain(k)
      BY <1>4, <1>5, <2>1 DEF heapVars
    <2>4. k <= m
      BY <2>1 DEF AtTurn, Innermost
    <2>5. k <= Len(run') /\ k - 1 \in 1..(m - 1) /\ Len(run') \in Nat
      BY <1>3, <2>2, <2>3, <2>4
    <2>. QED BY <1>6, <2>2, <2>3, <2>5
  <1>14. CASE Ending
    <2>1. PICK m \in 2..(Len(run) + 1) : m = Len(run) /\ m \in 2..Len(run)
      <3>1. Len(run) > 1
        BY <1>14 DEF Ending
      <3>2. Len(run) \in 2..(Len(run) + 1) /\ Len(run) \in 2..Len(run)
        BY ONLY <1>3, <3>1
      <3>. QED BY ONLY <3>2
    <2>2. InRange(source, run[m - 1])
      BY <1>3, <2>1 DEF StackOK
    <2>3. Len(run') = m - 1 /\ \A i \in 1..(m - 2) : run'[i] = run[i]
      BY <1>1, <1>2, <1>14, <2>1, <2>2, AfterProps DEF Ending
    <2>4. PICK k \in LoopBodies : v \in Domain(k) /\ k # m
      BY <1>4, <1>5, <1>14, <2>1 DEF Ending, heapVars
    <2>5. k <= Len(run') /\ k - 1 \in 1..(m - 2) /\ Len(run') \in Nat
      BY <1>3, <2>1, <2>3, <2>4
    <2>. QED BY <1>6, <2>3, <2>4, <2>5
  <1>. QED BY <1>1, <1>9, <1>10, <1>11, <1>12, <1>13, <1>14, RunCases

(***************************************************************************)
(* Outside the iterator loops that are running no domain is allocated.     *)
(***************************************************************************)
THEOREM NoDomainIsLeft == Spec => []OnlyRunningDomains
  <1>1. Init => Inv /\ OnlyRunningDomains
    BY InvInit DEF Init, OnlyRunningDomains, CanRun
  <1>2. Inv /\ OnlyRunningDomains /\ [Next]_vars => (Inv /\ OnlyRunningDomains)'
    <2>. SUFFICES ASSUME Inv, OnlyRunningDomains, [Next]_vars PROVE OnlyRunningDomains'
      BY InvStep
    <2>1. CASE Run
      BY <2>1, RunKeepsDomains
    <2>2. CASE CodeGen
      <3>1. CanRun' => live' \subseteq {Parameter}
        BY <2>2 DEF CodeGen, CanRun
      <3>2. ~(Parameter[2] > 0)
        BY DEF Parameter
      <3>. QED BY <3>1, <3>2 DEF OnlyRunningDomains, Domains
    <2>3. CASE Building \/ BreakCheck \/ DeclCheck \/ AddFree \/ Define \/ ReturnCheck
               \/ BreakPrune \/ ScopesToFree
      <3>1. pass # "run" /\ (pass' # pass => pass' # "run")
        BY <2>3
        DEF Building, BreakCheck, DeclCheck, AddFree, Define, ReturnCheck, BreakPrune,
            ScopesToFree, Checks, Rewrites
      <3>. QED BY <3>1 DEF OnlyRunningDomains, CanRun
    <2>4. CASE UNCHANGED vars
      BY <2>4 DEF vars, heapVars, OnlyRunningDomains, Domains, CanRun, LoopBodies, Domain, LoopOf
    <2>. QED BY <2>1, <2>2, <2>3, <2>4 DEF Next, Passes, Done
  <1>. QED BY <1>1, <1>2, PTL DEF Spec

\* The return of a subroutine is for the scope its kind of subroutine has.
LEMMA ReturnScopes ==
    ASSUME PassInv, RunInv, AtRun, RunAt.kind = "return"
    PROVE  /\ InMain => Freed(RunFrame.block, RunAt) = to_free[Global]
           /\ ~InMain => Freed(RunFrame.block, RunAt) = to_free[Root]
  <1>1. /\ pass = "run" /\ RunAt = source[RunFrame.block][RunFrame.pc]
        /\ RunFrame.pc \in DOMAIN source[RunFrame.block]
    BY AtRunProps
  <1>2. source = stat_nodes /\ RunFrame.block \in Block
    BY <1>1, RunTree DEF RunInv
  <1>3. ReturnsNote(stat_nodes, {ReturnScope(InMain)})
    BY <1>1, PassSets DEF PassInv, TreeInv
  <1>4. RunAt.scope_id = ReturnScope(InMain)
    BY <1>1, <1>2, <1>3 DEF ReturnsNote
  <1>. QED BY <1>4 DEF ReturnScope, Freed, ScopeToFree, MainScope, FuncProcScope, CurrentScope,
                       LoopScope

\* What is allocated in a block is a variable that is declared there.
LEMMA LiveDecls ==
    ASSUME PassInv, RunInv, pass = "run", NEW b \in ReachableBlocks(source),
           NEW v \in DeclaredIn(b, live)
    PROVE  IsDeclAt(stat_nodes, v) /\ v[1] = b
  <1>1. source = stat_nodes /\ live \subseteq Positions(source) /\ source \in Tree
    BY RunTree DEF RunInv
  <1>2. v \in Positions(source) /\ v[1] = b /\ v[2] > 0 /\ source[b][v[2]].kind = "decl"
    BY <1>1 DEF DeclaredIn
  <1>3. v # Parameter
    BY <1>2 DEF Parameter
  <1>4. PICK c \in Block : v \in {c} \X DOMAIN source[c]
    BY <1>2, <1>3 DEF Positions
  <1>5. v = <<v[1], v[2]>> /\ c = b /\ v[2] \in DOMAIN source[b]
    BY <1>2, <1>4
  <1>. QED BY <1>1, <1>2, <1>5 DEF IsDeclAt

LEMMA ReturnKeepsReleases ==
    ASSUME Inv, OnlyRunningDomains, RunReturn
    PROVE  BodyIsReleased'
  <1>1. PassInv /\ RunInv /\ AtRun /\ pass = "run" /\ RunAt.kind = "return" /\ CanRun
    BY DEF Inv, RunReturn, AtRun, CanRun
  <1>2. UNCHANGED <<source, routine>>
    BY DEF RunReturn, RunUnchanged
  <1>. DEFINE freed == Freed(RunFrame.block, RunAt)
  <1>3. live' = live \ (freed \cup UNION {Domain(k) : k \in LoopBodies})
    BY DEF RunReturn, Release
  <1>. HIDE DEF freed
  <1>4. Root \in ReachableBlocks(source)
    BY <1>1, RunTree, ReachableProps DEF Shape
  <1>5. ASSUME NEW v \in DeclaredIn(Root, live') PROVE FALSE
    <2>1. v \in live' /\ v \in live
      BY <1>3, <1>5 DEF DeclaredIn
    <2>2. v \in DeclaredIn(Root, live)
      BY <2>1, <1>5 DEF DeclaredIn
    <2>3. IsDeclAt(stat_nodes, v) /\ v[1] = Root
      BY <1>1, <1>4, <2>2, LiveDecls
    <2>4. v \in freed
      BY <1>1, <2>3, FreedProps, ReturnScopes DEF freed
    <2>. QED BY <1>3, <2>1, <2>4
  <1>6. ASSUME NEW v \in Domains(live') PROVE FALSE
    <2>1. v \in live' /\ v \in live /\ v \in Domains(live)
      BY <1>3, <1>6 DEF Domains
    <2>2. v \in UNION {Domain(k) : k \in LoopBodies}
      BY <1>1, <2>1 DEF OnlyRunningDomains
    <2>. QED BY <1>3, <2>1, <2>2
  <1>7. routine = "procedure" => Parameter \notin live'
    <2>1. routine = "procedure" => ~InMain
      BY DEF InMain
    <2>. QED BY <1>1, <1>3, <2>1, FreedProps, ReturnScopes DEF freed
  <1>. QED BY <1>2, <1>5, <1>6, <1>7 DEF BodyIsReleased, DeclaredIn, Domains

(***************************************************************************)
(* In every text a return releases what the body itself declared, the      *)
(* parameter that was passed to a procedure by value and the domain of     *)
(* every loop it returns from.                                             *)
(***************************************************************************)
THEOREM ReturnsReleaseTheBody == Spec => [](outcome = "returned" => BodyIsReleased)
  <1>. DEFINE BodyGone == outcome = "returned" => BodyIsReleased
  <1>1. Init => Inv /\ BodyGone
    BY InvInit DEF Init
  <1>2. Inv /\ OnlyRunningDomains /\ BodyGone /\ [Next]_vars => (Inv /\ BodyGone)'
    <2>. SUFFICES ASSUME Inv, OnlyRunningDomains, BodyGone, [Next]_vars
                  PROVE  BodyGone'
      BY InvStep
    <2>0. outcome = "returned" => pass = "run" /\ ~CanRun
      BY DEF Inv, PassInv, TypeInv, CanRun
    <2>1. CASE RunReturn
      BY <2>1, ReturnKeepsReleases
    <2>2. CASE Run /\ ~RunReturn
      <3>1. CanRun
        BY <2>2, RunCases DEF Inv
      <3>2. outcome' = outcome
        BY <2>2
        DEF Run, RunSimple, RunDecl, RunFree, RunEnter, RunSkip, RunBreak, RunContinue,
            RunEndOfBlock
      <3>. QED BY <3>1, <3>2 DEF CanRun
    <2>3. CASE Building \/ Passes
      <3>1. pass # "run" /\ outcome' = outcome
        BY <2>3
        DEF Building, Passes, BreakCheck, DeclCheck, AddFree, Define, ReturnCheck, BreakPrune,
            ScopesToFree, CodeGen, Checks, Rewrites, PassUnchanged
      <3>. QED BY <2>0, <3>1
    <2>4. CASE UNCHANGED vars
      BY <2>4 DEF vars, heapVars, BodyIsReleased, DeclaredIn, Domains
    <2>. QED BY <2>1, <2>2, <2>3, <2>4 DEF Next, Done
  <1>. QED BY <1>1, <1>2, NoDomainIsLeft, PTL DEF Spec

-----------------------------------------------------------------------------
(* The way an execution has come, and what it has released on it.          *)

Stops(s, R) == IsExit(s) \/ ReturnsSurely(s, R)

\* An execution has passed no statement that leaves its block.
NoStops(tree, stack, Y, R) ==
    \A k \in 1..Len(stack) :
        /\ stack[k].block \in Y
        /\ \A i \in 1..(stack[k].pc - 1) : ~Stops(tree[stack[k].block][i], R)

WayInv ==
    pass = "run" => \E Y, R \in SUBSET Block :
        Sealed(source, Y, R) /\ ExitsLast(source, Y) /\ NoStops(source, run, Y, R)

\* Has the execution just released the variables of frame k's block?
Gone(k) ==
    /\ RunFrame.pc > 1
    /\ LET s == source[RunFrame.block][RunFrame.pc - 1]
       IN /\ s.kind = "free"
          /\ \/ s.scope_id = CurrentScope /\ k = Len(run)
             \/ s.scope_id = LoopScope /\ Innermost(k)

GoneInv ==
    CanRun => \A k \in 1..Len(run) : Gone(k) => DeclaredIn(run[k].block, live) = {}

\* A frame has moved on, behind a statement that does not leave its block.
LEMMA NoStopsAdvances ==
    ASSUME NEW tree, NEW stack \in Seq(Frame), NEW Y, NEW R, NoStops(tree, stack, Y, R),
           NEW k \in 2..(Len(stack) + 1), ~Stops(StatAt(tree, stack[k - 1]), R),
           NEW new \in Seq(Frame), Len(new) = k - 1, \A i \in 1..(k - 2) : new[i] = stack[i],
           new[k - 1].block = stack[k - 1].block, new[k - 1].pc = stack[k - 1].pc + 1
    PROVE  NoStops(tree, new, Y, R)
  <1>1. Len(stack) \in Nat /\ k \in Nat /\ k - 1 \in 1..Len(stack)
    OBVIOUS
  <1>2. ASSUME NEW j \in 1..Len(new)
        PROVE  /\ new[j].block \in Y
               /\ \A i \in 1..(new[j].pc - 1) : ~Stops(tree[new[j].block][i], R)
    <2>1. CASE j = k - 1
      <3>1. stack[k - 1] \in Frame
        BY <1>1
      <3>2. stack[k - 1].pc \in Nat
        BY <3>1 DEF Frame
      <3>3. stack[k - 1].block \in Y
            /\ \A i \in 1..(stack[k - 1].pc - 1) : ~Stops(tree[stack[k - 1].block][i], R)
        BY <1>1 DEF NoStops
      <3>4. \A i \in 1..(stack[k - 1].pc + 1 - 1) :
               i \in 1..(stack[k - 1].pc - 1) \/ i = stack[k - 1].pc
        BY <3>2
      <3>5. ~Stops(tree[stack[k - 1].block][stack[k - 1].pc], R)
        BY DEF StatAt
      <3>6. \A i \in 1..(stack[k - 1].pc + 1 - 1) : ~Stops(tree[stack[k - 1].block][i], R)
        BY ONLY <3>3, <3>4, <3>5
      <3>7. new[j].block = stack[k - 1].block /\ new[j].pc = stack[k - 1].pc + 1
        BY <2>1
      <3>. QED BY ONLY <3>2, <3>3, <3>6, <3>7
    <2>2. CASE j # k - 1
      <3>1. j \in 1..(k - 2) /\ j \in 1..Len(stack)
        BY <1>1, <2>2
      <3>. QED BY <3>1 DEF NoStops
    <2>. QED BY <2>1, <2>2
  <1>. QED BY <1>2 DEF NoStops

\* A block has been entered.
LEMMA NoStopsEnters ==
    ASSUME NEW tree, NEW stack \in Seq(Frame), NEW Y, NEW R, NoStops(tree, stack, Y, R),
           NEW k \in 2..(Len(stack) + 1), NEW new \in Seq(Frame), Len(new) = k,
           \A i \in 1..(k - 1) : new[i] = stack[i], new[k].block \in Y, new[k].pc = 1
    PROVE  NoStops(tree, new, Y, R)
  <1>1. Len(stack) \in Nat /\ k \in Nat
    OBVIOUS
  <1>2. ASSUME NEW j \in 1..Len(new)
        PROVE  /\ new[j].block \in Y
               /\ \A i \in 1..(new[j].pc - 1) : ~Stops(tree[new[j].block][i], R)
    <2>1. CASE j = k
      BY <2>1
    <2>2. CASE j # k
      <3>1. j \in 1..(k - 1) /\ j \in 1..Len(stack)
        BY <1>1, <2>2
      <3>. QED BY <3>1 DEF NoStops
    <2>. QED BY <2>1, <2>2
  <1>. QED BY <1>2 DEF NoStops

\* Who is at the end of a sealed block has just released its variables.
LEMMA EndOfBlock ==
    ASSUME PassInv, RunInv, CanRun, ~InRange(source, RunFrame),
           NEW Y, NEW R, Sealed(source, Y, R), NoStops(source, run, Y, R)
    PROVE  /\ RunFrame.block \notin R
           /\ RunFrame.pc > 1 /\ RunFrame.pc - 1 = Len(source[RunFrame.block])
           /\ source[RunFrame.block][RunFrame.pc - 1] = FreeNode(CurrentScope)
  <1>1. /\ source \in Tree /\ StackOK(source, run) /\ run \in Seq(Frame) /\ Len(run) \in 1..Len(run)
        /\ RunFrame = run[Len(run)] /\ RunFrame \in Frame
        /\ RunFrame.block \in Block /\ RunFrame.pc \in Nat
    BY RunTree DEF CanRun
  <1>2. PICK b \in Block : b = RunFrame.block
    BY <1>1
  <1>3. Len(source[b]) \in Nat /\ DOMAIN source[b] = 1..Len(source[b])
    BY <1>1, StatsOfTree
  <1>4. RunFrame.pc - 1 = Len(source[b]) /\ Len(source[b]) \in Nat
    BY <1>1, <1>2, <1>3 DEF StackOK, InRange
  <1>5. b \in Y /\ \A i \in 1..Len(source[b]) : ~Stops(source[b][i], R)
    BY <1>1, <1>2, <1>4 DEF NoStops
  <1>6. Len(source[b]) > 0 /\ EndsWell(source, b, R)
    BY <1>5 DEF Sealed
  <1>7. source[b][Len(source[b])] = FreeNode(CurrentScope) /\ b \notin R
    BY <1>3, <1>5, <1>6 DEF EndsWell, Stops
  <1>. QED BY <1>1, <1>2, <1>4, <1>6, <1>7

\* The statements before a statement of a sealed block are no way out.
LEMMA SealedKids ==
    ASSUME NEW tree \in Tree, NEW Y \in SUBSET Block, NEW R, Sealed(tree, Y, R), ExitsLast(tree, Y),
           NEW f \in Frame, f.block \in Y, InRange(tree, f)
    PROVE  /\ SubBlocks(StatAt(tree, f)) \subseteq Y
           /\ IsExit(StatAt(tree, f)) =>
                f.pc > 1 /\ tree[f.block][f.pc - 1] = FreeNode(LoopScope)
  <1>1. f.block \in Block /\ f.pc \in DOMAIN tree[f.block]
    BY StatAtProps, StatsOfTree DEF Frame
  <1>2. Early(tree, f.block, f.pc)
    BY <1>1 DEF ExitsLast
  <1>. QED BY <1>1, <1>2 DEF Sealed, StatAt

\* An execution keeps to the way.
LEMMA RunKeepsWay ==
    ASSUME Inv, WayInv, Run
    PROVE  WayInv'
  <1>1. PassInv /\ RunInv
    BY DEF Inv
  <1>2. CanRun /\ pass = "run" /\ source' = source
    BY <1>1, RunCases DEF CanRun, RunUnchanged
  <1>3. /\ source \in Tree /\ StackOK(source, run) /\ run \in Seq(Frame)
        /\ Len(run) \in Nat /\ Len(run) > 0
    BY <1>1, <1>2, RunTree
  <1>4. PICK Y \in SUBSET Block, R \in SUBSET Block :
            Sealed(source, Y, R) /\ ExitsLast(source, Y) /\ NoStops(source, run, Y, R)
    BY <1>2 DEF WayInv
  <1>5. SUFFICES NoStops(source, run', Y, R)
    BY <1>2, <1>4 DEF WayInv
  <1>6. PICK n \in 2..(Len(run) + 1) : n = Len(run) + 1 /\ n - 1 = Len(run)
    BY <1>3
  <1>7. ASSUME NEW k \in 2..(Len(run) + 1), InRange(source, run[k - 1]), ContinueAfter(k),
               ~Stops(StatAt(source, run[k - 1]), R)
        PROVE  NoStops(source, run', Y, R)
    <2>1. /\ run' \in Seq(Frame) /\ Len(run') = k - 1 /\ \A i \in 1..(k - 2) : run'[i] = run[i]
          /\ run'[k - 1].block = run[k - 1].block /\ run'[k - 1].pc = run[k - 1].pc + 1
      BY <1>1, <1>2, <1>7, AfterProps
    <2>2. PICK stack \in Seq(Frame) : stack = run
      BY <1>3
    <2>3. PICK new \in Seq(Frame) : new = run'
      BY <2>1
    <2>4. PICK tree : tree = source
      OBVIOUS
    <2>5. /\ NoStops(tree, stack, Y, R) /\ k \in 2..(Len(stack) + 1)
          /\ ~Stops(StatAt(tree, stack[k - 1]), R) /\ Len(new) = k - 1
          /\ \A i \in 1..(k - 2) : new[i] = stack[i]
          /\ new[k - 1].block = stack[k - 1].block /\ new[k - 1].pc = stack[k - 1].pc + 1
      BY <1>4, <1>7, <2>1, <2>2, <2>3, <2>4
    <2>6. NoStops(tree, new, Y, R)
      BY ONLY <2>5, NoStopsAdvances, stack \in Seq(Frame), new \in Seq(Frame)
    <2>. QED BY <2>3, <2>4, <2>6
  <1>8. ASSUME NEW k \in 2..(Len(run) + 1), InRange(source, run[k - 1]),
               NEW b \in SubBlocks(StatAt(source, run[k - 1])), ContinueIn(k, b)
        PROVE  NoStops(source, run', Y, R)
    <2>1. /\ run' \in Seq(Frame) /\ Len(run') = k /\ \A i \in 1..(k - 1) : run'[i] = run[i]
          /\ run'[k].block = b /\ run'[k].pc = 1
      BY <1>1, <1>2, <1>8, InProps
    <2>7. b \in Y
      <3>1. run[k - 1] \in Frame /\ run[k - 1].block \in Y
        BY <1>3, <1>4 DEF NoStops
      <3>. QED BY <1>3, <1>4, <1>8, <3>1, SealedKids
    <2>2. PICK stack \in Seq(Frame) : stack = run
      BY <1>3
    <2>3. PICK new \in Seq(Frame) : new = run'
      BY <2>1
    <2>4. PICK tree : tree = source
      OBVIOUS
    <2>5. /\ NoStops(tree, stack, Y, R) /\ k \in 2..(Len(stack) + 1)
          /\ Len(new) = k /\ \A i \in 1..(k - 1) : new[i] = stack[i]
          /\ new[k].block \in Y /\ new[k].pc = 1
      BY <1>4, <2>1, <2>2, <2>3, <2>4, <2>7
    <2>6. NoStops(tree, new, Y, R)
      BY ONLY <2>5, NoStopsEnters, stack \in Seq(Frame), new \in Seq(Frame)
    <2>. QED BY <2>3, <2>4, <2>6
  <1>9. CASE Passing
    <2>1. InRange(source, run[Len(run)]) /\ RunAt = StatAt(source, run[Len(run)])
      BY <1>1, <1>9, AtRunProps DEF Passing
    <2>2. ~Stops(RunAt, R)
      <3>1. RunAt.kind \in {"plain", "decl", "free"} \/ MaySkip(RunAt)
        BY <1>9 DEF Passing
      <3>. QED BY <3>1 DEF MaySkip, Stops, IsExit, ExitKind, ReturnsSurely
    <2>. QED BY <1>6, <1>7, <1>9, <2>1, <2>2 DEF Passing
  <1>10. CASE RunEnter
    <2>1. InRange(source, run[Len(run)]) /\ RunAt = StatAt(source, run[Len(run)])
      BY <1>1, <1>10, AtRunProps DEF RunEnter
    <2>2. PICK b \in SubBlocks(StatAt(source, run[n - 1])) : ContinueIn(n, b)
      BY <1>6, <1>10, <2>1 DEF RunEnter
    <2>. QED BY <1>6, <1>8, <2>1, <2>2
  <1>11. CASE RunReturn
    BY <1>4, <1>11 DEF RunReturn
  <1>12. CASE Leaving
    <2>1. PICK k \in LoopBodies : ContinueAfter(k)
      BY <1>12 DEF Leaving, LeaveLoop
    <2>2. /\ k \in 2..(Len(run) + 1) /\ InRange(source, run[k - 1])
          /\ IsLoop(StatAt(source, run[k - 1]))
      BY <1>1, <1>2, LoopBodiesProps
    <2>3. ~Stops(StatAt(source, run[k - 1]), R)
      BY <2>2 DEF IsLoop, LoopKind, Stops, IsExit, ExitKind, ReturnsSurely
    <2>. QED BY <1>7, <2>1, <2>2, <2>3
  <1>13. CASE Turning
    <2>1. PICK k \in LoopBodies : ContinueIn(k, LoopOf(k).body)
      BY <1>13 DEF Turning
    <2>2. /\ k \in 2..(Len(run) + 1) /\ InRange(source, run[k - 1])
          /\ LoopOf(k).body \in SubBlocks(StatAt(source, run[k - 1]))
      BY <1>1, <1>2, LoopBodiesProps
    <2>. QED BY <1>8, <2>1, <2>2
  <1>14. CASE Ending
    <2>1. PICK m \in 2..(Len(run) + 1) : m = Len(run) /\ m \in 2..Len(run)
      <3>1. Len(run) > 1
        BY <1>14 DEF Ending
      <3>2. Len(run) \in 2..(Len(run) + 1) /\ Len(run) \in 2..Len(run)
        BY ONLY <1>3, <3>1
      <3>. QED BY ONLY <3>2
    <2>2. InRange(source, run[m - 1]) /\ run[m].block \in SubBlocks(StatAt(source, run[m - 1]))
      BY <1>3, <2>1 DEF StackOK
    <2>3. run[m].block \notin R
      <3>1. RunFrame.block \notin R
        BY <1>1, <1>4, <1>14, EndOfBlock DEF Ending
      <3>. QED BY <1>1, <1>2, <2>1, <3>1, RunTree
    <2>4. PICK s \in Stat : s = StatAt(source, run[m - 1])
      <3>1. run[m - 1] \in Frame
        BY <1>3, <2>1
      <3>. QED BY <1>3, <2>2, <3>1, StatAtProps
    <2>5. PICK c : c = run[m].block /\ c \in SubBlocks(s) /\ c \notin R
      BY <2>2, <2>3, <2>4
    <2>6. ~Stops(s, R)
      <3>1. s.kind \notin LeafKind
        BY <2>5, StatProps
      <3>2. ~IsExit(s) /\ s.kind # "return"
        BY <3>1 DEF IsExit, LeafKind
      <3>3. s.kind = "block" => SubBlocks(s) = {s.body}
        BY BodiesAreBlocks
      <3>. QED BY <2>5, <3>2, <3>3 DEF Stops, ReturnsSurely
    <2>. QED BY <1>7, <1>14, <2>1, <2>2, <2>4, <2>6 DEF Ending
  <1>. QED BY <1>1, <1>9, <1>10, <1>11, <1>12, <1>13, <1>14, RunCases

\* The loop around the block an execution is in is the innermost of those
\* whose bodies it is in.
LEMMA LoopOfTop ==
    ASSUME PassInv, RunInv, pass = "run", NEW m, Innermost(m)
    PROVE  /\ Loops(source)[RunFrame.block] = {run[m].block}
           /\ LoopAround(source, RunFrame.block) = run[m].block
           /\ run[m].block \in Block /\ run[m].block # Root
           /\ run[m].block \in ReachableBlocks(source)
           /\ m \in 1..Len(run)
  <1>1. /\ source \in Tree /\ StackOK(source, run) /\ run \in Seq(Frame) /\ Len(run) \in Nat
        /\ ParentsFirst(source) /\ OneOwner(source)
        /\ RunFrame = run[Len(run)] /\ RunFrame.block \in Block
    BY RunTree DEF Shape
  <1>2. m \in LoopBodies /\ m \in 2..Len(run) /\ \A j \in LoopBodies : j <= m
    BY DEF Innermost, LoopBodies
  <1>3. \A j \in 1..Len(run) : run[j] \in Frame /\ run[j].block \in Block
    <2>1. \A j \in 1..Len(run) : run[j] \in Frame
      BY <1>1
    <2>. QED BY <2>1 DEF Frame
  <1>4. ASSUME NEW j \in 2..Len(run)
        PROVE  Loops(source)[run[j].block] =
                 IF j \in LoopBodies THEN {run[j].block} ELSE Loops(source)[run[j - 1].block]
    <2>1. j - 1 \in 1..Len(run) /\ j \in 1..Len(run)
      BY <1>1
    <2>2. PICK f \in Frame : f = run[j - 1]
      BY <1>3, <2>1
    <2>3. InRange(source, f) /\ run[j].block \in SubBlocks(StatAt(source, f))
      BY <1>1, <2>2 DEF StackOK
    <2>4. f.block \in Block /\ f.pc \in DOMAIN source[f.block]
      BY <1>1, <2>3, StatAtProps, StatsOfTree DEF Frame
    <2>5. j \in LoopBodies <=> IsLoop(source[f.block][f.pc])
      BY <2>2 DEF LoopBodies, StatAt
    <2>6. run[j].block \in SubBlocks(source[f.block][f.pc])
      BY <2>3 DEF StatAt
    <2>7. PICK tree \in Tree : tree = source
      BY <1>1
    <2>8. \A c \in Block : \A p \in DOMAIN tree[c] : \A b \in SubBlocks(tree[c][p]) :
             Loops(tree)[b] = IF IsLoop(tree[c][p]) THEN {b} ELSE Loops(tree)[c]
      BY <1>1, <2>7, LoopAroundProps
    <2>9. PICK c \in Block : c = f.block
      BY <2>4
    <2>10. PICK p \in DOMAIN tree[c] : p = f.pc
      BY <2>4, <2>7, <2>9
    <2>11. PICK b \in SubBlocks(tree[c][p]) : b = run[j].block
      BY <2>6, <2>7, <2>9, <2>10
    <2>12. Loops(tree)[b] = IF IsLoop(tree[c][p]) THEN {b} ELSE Loops(tree)[c]
      BY ONLY <2>8, c \in Block, p \in DOMAIN tree[c], b \in SubBlocks(tree[c][p])
    <2>. QED BY <2>2, <2>5, <2>7, <2>9, <2>10, <2>11, <2>12
  <1>5. \A j \in m..Len(run) : Loops(source)[run[j].block] = {run[m].block}
    <2>. DEFINE bad == {j \in m..Len(run) : Loops(source)[run[j].block] # {run[m].block}}
    <2>1. SUFFICES ASSUME bad # {} PROVE FALSE
      OBVIOUS
    <2>2. bad \in SUBSET Nat
      BY <1>1, <1>2
    <2>3. PICK j \in bad : \A i \in bad : j <= i
      <3>. HIDE DEF bad
      <3>. QED BY <2>1, <2>2, LeastNumber
    <2>4. j \in 2..Len(run) /\ j \in m..Len(run) /\ m \in Nat
      BY <1>1, <1>2
    <2>5. CASE j = m
      BY <1>2, <1>4, <2>4, <2>5
    <2>6. CASE j # m
      <3>1. j \notin LoopBodies
        BY <1>1, <1>2, <2>4, <2>6
      <3>2. j - 1 \in m..Len(run) /\ ~(j <= j - 1)
        BY <1>1, <2>4, <2>6
      <3>3. j - 1 \notin bad
        BY <2>3, <3>2
      <3>. QED BY <1>4, <2>3, <2>4, <3>1, <3>2, <3>3
    <2>. QED BY <2>5, <2>6
  <1>6. Len(run) \in m..Len(run) /\ m \in 1..Len(run) /\ 1 \in 1..Len(run) /\ 1 < m
    BY <1>1, <1>2
  <1>7. run[m].block \in Block /\ run[m].block \in ReachableBlocks(source)
    BY <1>1, <1>3, <1>6 DEF StackOK
  <1>8. Loops(source)[RunFrame.block] = {run[m].block}
    BY <1>1, <1>5, <1>6
  <1>9. LoopAround(source, RunFrame.block) = run[m].block
    BY <1>1, <1>7, <1>8, LoopAroundProps
  <1>10. run[m].block # Root
    <2>1. run[1].block < run[m].block /\ run[1].block = Root
      BY <1>1, <1>6 DEF StackOK
    <2>. QED BY <2>1 DEF Root
  <1>. QED BY <1>6, <1>7, <1>8, <1>9, <1>10

\* What a release in the execution is for.
LEMMA ReleaseProps ==
    ASSUME PassInv, RunInv, AtRun, RunAt.kind = "free"
    PROVE  \/ /\ RunAt.scope_id = CurrentScope
              /\ RunFrame.pc = Len(source[RunFrame.block])
              /\ Freed(RunFrame.block, RunAt) = to_free[RunFrame.block]
              /\ RunFrame.block # Root
           \/ /\ RunAt.scope_id = LoopScope
              /\ RunFrame.pc < Len(source[RunFrame.block])
              /\ IsExit(source[RunFrame.block][RunFrame.pc + 1])
              /\ \A m : Innermost(m) => Freed(RunFrame.block, RunAt) = to_free[run[m].block]
  <1>1. /\ pass = "run" /\ RunAt = source[RunFrame.block][RunFrame.pc]
        /\ RunFrame.pc \in DOMAIN source[RunFrame.block]
    BY AtRunProps
  <1>2. source = stat_nodes /\ RunFrame.block \in Block
    BY <1>1, RunTree DEF RunInv
  <1>3. FreesPlaced(source) /\ RootEndsReturning(source)
    BY <1>1, <1>2, PassSets DEF PassInv, TreeInv
  <1>4. CASE RunAt.scope_id = CurrentScope
    <2>1. RunFrame.pc = Len(source[RunFrame.block])
      BY <1>1, <1>2, <1>3, <1>4 DEF FreesPlaced, CurrentScope, LoopScope
    <2>2. Freed(RunFrame.block, RunAt) = to_free[RunFrame.block]
      BY <1>4 DEF Freed, ScopeToFree, CurrentScope, FuncProcScope, LoopScope, MainScope
    <2>3. RunFrame.block # Root
      BY <1>1, <1>3, <1>4 DEF RootEndsReturning
    <2>. QED BY <1>4, <2>1, <2>2, <2>3
  <1>5. CASE RunAt.scope_id # CurrentScope
    <2>1. /\ RunAt.scope_id = LoopScope
          /\ RunFrame.pc < Len(source[RunFrame.block])
          /\ IsExit(source[RunFrame.block][RunFrame.pc + 1])
      BY <1>1, <1>2, <1>3, <1>5 DEF FreesPlaced
    <2>2. Freed(RunFrame.block, RunAt) = to_free[LoopAround(source, RunFrame.block)]
      BY <1>2, <2>1 DEF Freed, ScopeToFree, CurrentScope, FuncProcScope, LoopScope, MainScope
    <2>. QED BY <1>1, <2>1, <2>2, LoopOfTop
  <1>. QED BY <1>4, <1>5

\* Where an execution that has passed a statement is.
LEMMA PassingProps ==
    ASSUME PassInv, RunInv, Passing
    PROVE  /\ Len(run') = Len(run)
           /\ \A i \in 1..Len(run) : run'[i].block = run[i].block
           /\ \A i \in 1..Len(run) : i # Len(run) => run'[i] = run[i]
           /\ RunFrame' = run'[Len(run)]
           /\ RunFrame'.block = RunFrame.block /\ RunFrame'.pc = RunFrame.pc + 1
           /\ source' = source => LoopBodies' = LoopBodies
  <1>1. /\ pass = "run" /\ InRange(source, run[Len(run)])
        /\ run \in Seq(Frame) /\ Len(run) \in Nat /\ Len(run) > 0 /\ RunFrame = run[Len(run)]
    BY AtRunProps, RunTree DEF Passing
  <1>2. PICK n \in 2..(Len(run) + 1) : n = Len(run) + 1 /\ n - 1 = Len(run) /\ n - 2 = Len(run) - 1
    BY <1>1
  <1>3. /\ Len(run') = Len(run) /\ \A i \in 1..(Len(run) - 1) : run'[i] = run[i]
        /\ run'[Len(run)].block = RunFrame.block /\ run'[Len(run)].pc = RunFrame.pc + 1
    BY <1>1, <1>2, AfterProps DEF Passing
  <1>4. \A i \in 1..Len(run) : i # Len(run) => i \in 1..(Len(run) - 1)
    BY <1>1
  <1>5. RunFrame' = run'[Len(run)]
    BY <1>3 DEF RunFrame, Top
  <1>6. \A k \in 2..Len(run) : k - 1 \in 1..(Len(run) - 1)
    BY <1>1
  <1>7. source' = source => LoopBodies' = LoopBodies
    BY <1>3, <1>6 DEF LoopBodies
  <1>. QED BY <1>1, <1>3, <1>4, <1>5, <1>7

\* Where an execution is that has left or started again a loop, or entered or
\* left a block: not behind a release.
LEMMA NothingGone ==
    ASSUME PassInv, RunInv, RunEnter \/ Leaving \/ Turning \/ Ending, source' = source
    PROVE  \A k : ~Gone(k)'
  <1>1. /\ pass = "run" /\ StackOK(source, run) /\ run \in Seq(Frame) /\ Len(run) \in Nat
        /\ Len(run) > 0 /\ source \in Tree
    BY RunTree DEF RunEnter, AtRun, CanRun, Leaving, Turning, Ending, AtTurn
  <1>2. PICK n \in 2..(Len(run) + 1) : n = Len(run) + 1 /\ n - 1 = Len(run)
    BY <1>1
  <1>3. ASSUME NEW k \in 2..(Len(run) + 1), InRange(source, run[k - 1]),
               NEW b \in SubBlocks(StatAt(source, run[k - 1])), ContinueIn(k, b)
        PROVE  RunFrame'.pc = 1
    <2>1. run' \in Seq(Frame) /\ Len(run') = k /\ run'[k].pc = 1
      BY <1>1, <1>3, InProps
    <2>. QED BY <2>1 DEF RunFrame, Top
  <1>4. ASSUME NEW k \in 2..Len(run), InRange(source, run[k - 1]), ContinueAfter(k)
        PROVE  source[RunFrame'.block][RunFrame'.pc - 1].kind # "free"
    <2>1. k \in 2..(Len(run) + 1) /\ k - 1 \in 1..Len(run)
      BY <1>1
    <2>2. /\ Len(run') = k - 1 /\ run'[k - 1].block = run[k - 1].block
          /\ run'[k - 1].pc = run[k - 1].pc + 1
      BY <1>1, <1>4, <2>1, AfterProps
    <2>3. RunFrame' = run'[k - 1]
      BY <2>2 DEF RunFrame, Top
    <2>4. run[k - 1] \in Frame
      BY <1>1, <2>1
    <2>5. run[k - 1].pc \in Nat /\ RunFrame'.pc - 1 = run[k - 1].pc
      BY <2>2, <2>3, <2>4 DEF Frame
    <2>6. PICK s \in Stat : s = StatAt(source, run[k - 1])
      BY <1>1, <1>4, <2>4, StatAtProps
    <2>7. SubBlocks(s) # {}
      BY <1>1, <2>6 DEF StackOK
    <2>8. s.kind # "free"
      BY <2>7, StatProps DEF LeafKind
    <2>. QED BY <2>2, <2>3, <2>5, <2>6, <2>8 DEF StatAt
  <1>5. CASE RunEnter
    <2>1. InRange(source, run[Len(run)]) /\ RunAt = StatAt(source, run[Len(run)])
      BY <1>5, AtRunProps DEF RunEnter
    <2>2. PICK b \in SubBlocks(StatAt(source, run[n - 1])) : ContinueIn(n, b)
      BY <1>2, <1>5, <2>1 DEF RunEnter
    <2>3. RunFrame'.pc = 1
      BY <1>2, <1>3, <2>1, <2>2
    <2>. QED BY <2>3 DEF Gone
  <1>6. CASE Leaving
    <2>1. PICK k \in LoopBodies : ContinueAfter(k)
      BY <1>6 DEF Leaving, LeaveLoop
    <2>2. k \in 2..Len(run) /\ InRange(source, run[k - 1])
      BY <1>1, LoopBodiesProps
    <2>3. source[RunFrame'.block][RunFrame'.pc - 1].kind # "free"
      BY <1>4, <2>1, <2>2
    <2>. QED BY <2>3, source' = source DEF Gone
  <1>7. CASE Turning
    <2>1. PICK k \in LoopBodies : ContinueIn(k, LoopOf(k).body)
      BY <1>7 DEF Turning
    <2>2. /\ k \in 2..(Len(run) + 1) /\ InRange(source, run[k - 1])
          /\ LoopOf(k).body \in SubBlocks(StatAt(source, run[k - 1]))
      BY <1>1, LoopBodiesProps
    <2>3. RunFrame'.pc = 1
      BY <1>3, <2>1, <2>2
    <2>. QED BY <2>3 DEF Gone
  <1>8. CASE Ending
    <2>1. Len(run) > 1
      BY <1>8 DEF Ending
    <2>2. Len(run) \in 2..Len(run)
      BY ONLY <1>1, <2>1
    <2>3. InRange(source, run[Len(run) - 1])
      BY <1>1, <2>2 DEF StackOK
    <2>4. source[RunFrame'.block][RunFrame'.pc - 1].kind # "free"
      BY <1>4, <1>8, <2>2, <2>3 DEF Ending
    <2>. QED BY <2>4, source' = source DEF Gone
  <1>. QED BY <1>5, <1>6, <1>7, <1>8

(***************************************************************************)
(* In main the release of a block is for the block's variables only if     *)
(* they are declared where ScopeToFreeWalker sees that they are nested.    *)
(***************************************************************************)
MainIsSound == "main" \notin Routines \/ DeclText = "sound"

\* Is the release the execution is at for the block of frame k?
Releases(k) ==
    \/ RunAt.scope_id = CurrentScope /\ k = Len(run)
    \/ RunAt.scope_id = LoopScope /\ Innermost(k)

LEMMA ReleasesAll ==
    ASSUME MainIsSound, PassInv, RunInv, AtRun, RunAt.kind = "free", NEW k \in 1..Len(run),
           Releases(k), NEW v \in DeclaredIn(run[k].block, live)
    PROVE  v \in Freed(RunFrame.block, RunAt)
  <1>1. /\ pass = "run" /\ StackOK(source, run) /\ RunFrame = run[Len(run)]
    BY RunTree DEF AtRun, CanRun
  <1>2. run[k].block # Root /\ Freed(RunFrame.block, RunAt) = to_free[run[k].block]
    BY <1>1, ReleaseProps, LoopOfTop DEF Releases, CurrentScope, LoopScope
  <1>3. run[k].block \in ReachableBlocks(source)
    BY <1>1 DEF StackOK
  <1>4. IsDeclAt(stat_nodes, v) /\ v[1] = run[k].block
    BY <1>1, <1>3, LiveDecls
  <1>5. InMain => DeclText = "sound"
    BY DEF MainIsSound, InMain, PassInv, TypeInv
  <1>6. v \in to_free[v[1]]
    BY <1>1, <1>2, <1>4, <1>5, FreedProps
  <1>. QED BY <1>2, <1>4, <1>6

LEMMA RunKeepsGone ==
    ASSUME MainIsSound, Inv, GoneInv, Run
    PROVE  GoneInv'
  <1>1. PassInv /\ RunInv
    BY DEF Inv
  <1>2. CanRun /\ pass = "run" /\ source' = source
    BY <1>1, RunCases DEF CanRun, RunUnchanged
  <1>3. CASE RunEnter \/ Leaving \/ Turning \/ Ending
    BY <1>1, <1>2, <1>3, NothingGone DEF GoneInv
  <1>4. CASE RunReturn
    BY <1>4 DEF RunReturn, GoneInv, CanRun
  <1>5. CASE Passing
    <2>1. /\ Len(run') = Len(run) /\ \A i \in 1..Len(run) : run'[i].block = run[i].block
          /\ RunFrame'.block = RunFrame.block /\ RunFrame'.pc = RunFrame.pc + 1
          /\ LoopBodies' = LoopBodies
      BY <1>1, <1>2, <1>5, PassingProps
    <2>2. AtRun /\ RunAt = source[RunFrame.block][RunFrame.pc]
      BY <1>1, <1>5, AtRunProps DEF Passing
    <2>3. RunFrame'.pc - 1 = RunFrame.pc
      <3>1. RunFrame.pc \in Nat
        BY <1>1, <1>2, RunTree
      <3>. QED BY <2>1, <3>1
    <2>4. SUFFICES ASSUME NEW k \in 1..Len(run), Gone(k)', NEW v \in DeclaredIn(run[k].block, live)'
                   PROVE  FALSE
      BY <2>1 DEF GoneInv
    <2>5. RunAt.kind = "free" /\ Releases(k)
      <3>1. source'[RunFrame'.block][RunFrame'.pc - 1] = RunAt
        BY ONLY <1>2, <2>1, <2>2, <2>3
      <3>2. Innermost(k)' => Innermost(k)
        BY ONLY <2>1 DEF Innermost
      <3>3. /\ RunAt.kind = "free"
            /\ \/ RunAt.scope_id = CurrentScope /\ k = Len(run')
               \/ RunAt.scope_id = LoopScope /\ Innermost(k)'
        BY ONLY <2>4, <3>1 DEF Gone
      <3>. QED BY <2>1, <3>2, <3>3 DEF Releases
    <2>6. live' = live \ Freed(RunFrame.block, RunAt)
      BY <1>5, <2>5 DEF Passing, Release, MaySkip
    <2>7. v \in DeclaredIn(run[k].block, live)
      BY <1>2, <2>1, <2>4, <2>6 DEF DeclaredIn
    <2>8. v \notin Freed(RunFrame.block, RunAt)
      BY <2>4, <2>6 DEF DeclaredIn
    <2>. QED BY <1>1, <2>2, <2>5, <2>7, <2>8, ReleasesAll
  <1>. QED BY <1>1, <1>3, <1>4, <1>5, RunCases

\* Who turns a loop, or is at the end of a block, has just released the variables.
LEMMA TurnsAreReleased ==
    ASSUME Inv, WayInv, GoneInv
    PROVE  /\ CanRun /\ ~InRange(source, RunFrame) => DeclaredIn(RunFrame.block, live) = {}
           /\ \A k \in LoopBodies : AtTurn(k) => DeclaredIn(run[k].block, live) = {}
  <1>1. PassInv /\ RunInv
    BY DEF Inv
  <1>2. SUFFICES ASSUME CanRun
                 PROVE  /\ ~InRange(source, RunFrame) => DeclaredIn(RunFrame.block, live) = {}
                        /\ \A k \in LoopBodies : AtTurn(k) => DeclaredIn(run[k].block, live) = {}
    BY DEF AtTurn, AtRun
  <1>3. /\ pass = "run" /\ source \in Tree /\ run \in Seq(Frame) /\ Len(run) \in Nat
        /\ Len(run) > 0 /\ RunFrame = run[Len(run)] /\ RunFrame \in Frame
    BY <1>1, <1>2, RunTree DEF CanRun
  <1>4. PICK Y \in SUBSET Block, R \in SUBSET Block :
            Sealed(source, Y, R) /\ ExitsLast(source, Y) /\ NoStops(source, run, Y, R)
    BY <1>3 DEF WayInv
  <1>5. ASSUME ~InRange(source, RunFrame)
        PROVE  DeclaredIn(RunFrame.block, live) = {}
    <2>1. Gone(Len(run))
      BY <1>1, <1>2, <1>4, <1>5, EndOfBlock DEF Gone, FreeNode, Leaf
    <2>2. Len(run) \in 1..Len(run)
      BY <1>3
    <2>. QED BY <1>2, <1>3, <2>1, <2>2 DEF GoneInv
  <1>6. ASSUME NEW k \in LoopBodies, AtTurn(k)
        PROVE  DeclaredIn(run[k].block, live) = {}
    <2>1. CASE ~InRange(source, RunFrame)
      BY <1>3, <1>5, <1>6, <2>1 DEF AtTurn, AtRun
    <2>2. CASE InRange(source, RunFrame)
      <3>1. IsExit(RunAt) /\ Innermost(k)
        BY <1>6, <2>2 DEF AtTurn
      <3>2. RunFrame.block \in Y
        BY <1>3, <1>4 DEF NoStops
      <3>3. RunFrame.pc > 1 /\ source[RunFrame.block][RunFrame.pc - 1] = FreeNode(LoopScope)
        BY <1>3, <1>4, <2>2, <3>1, <3>2, SealedKids DEF RunAt
      <3>4. Gone(k)
        BY <3>1, <3>3 DEF Gone, FreeNode, Leaf
      <3>5. k \in 1..Len(run)
        BY <1>1, <1>3, LoopBodiesProps
      <3>. QED BY <1>2, <3>4, <3>5 DEF GoneInv
    <2>. QED BY <2>1, <2>2
  <1>. QED BY <1>5, <1>6

LEMMA RunReleases ==
    ASSUME Inv, WayInv, GoneInv, Run
    PROVE  /\ \A k \in LoopBodies :
                Len(run') < k \/ (run # run' /\ run'[k].pc = 1 /\ Len(run') = k)
                    => DeclaredIn(run[k].block, live') = {}
           /\ CanRun /\ ~InRange(source, RunFrame) => DeclaredIn(RunFrame.block, live') = {}
  <1>1. PassInv /\ RunInv
    BY DEF Inv
  <1>2. /\ CanRun /\ pass = "run"
        /\ Passing \/ RunEnter \/ RunReturn \/ Leaving \/ Turning \/ Ending
    BY <1>1, RunCases DEF CanRun
  <1>3. /\ StackOK(source, run) /\ Len(run) \in Nat /\ Len(run) > 0
        /\ RunFrame = run[Len(run)]
        /\ \A i \in 1..Len(run) : run[i].pc \in Nat /\ run[i].pc > 0
    <2>1. StackOK(source, run) /\ Len(run) \in Nat /\ Len(run) > 0 /\ run \in Seq(Frame)
          /\ RunFrame = run[Len(run)]
      BY <1>1, <1>2, RunTree
    <2>2. \A i \in 1..Len(run) : run[i] \in Frame
      BY <2>1
    <2>. QED BY <2>1, <2>2 DEF Frame
  <1>4. \A k \in LoopBodies : k \in 2..Len(run) /\ k \in 2..(Len(run) + 1)
                              /\ k - 1 \in 1..Len(run) /\ InRange(source, run[k - 1])
    BY <1>1, <1>2, LoopBodiesProps
  <1>5. ASSUME Leaving \/ Turning \/ Ending
        PROVE  \A b : DeclaredIn(b, live) = {} => DeclaredIn(b, live') = {}
    <2>1. live' \subseteq live
      BY <1>5 DEF Leaving, Turning, Ending, LeaveLoop, Release, heapVars
    <2>. QED BY <2>1 DEF DeclaredIn
  <1>6. CanRun /\ ~InRange(source, RunFrame) => DeclaredIn(RunFrame.block, live') = {}
    <2>1. ~InRange(source, RunFrame) => Leaving \/ Turning \/ Ending
      BY <1>2 DEF Passing, RunEnter, RunReturn, AtRun
    <2>. QED BY <1>5, <2>1, TurnsAreReleased
  <1>7. ASSUME NEW k \in LoopBodies,
               Len(run') < k \/ (run # run' /\ run'[k].pc = 1 /\ Len(run') = k)
        PROVE  DeclaredIn(run[k].block, live') = {}
    <2>1. k \in 2..Len(run)
      BY <1>4
    <2>2. CASE Passing
      <3>1. Len(run') = Len(run) /\ RunFrame' = run'[Len(run)] /\ RunFrame'.pc = RunFrame.pc + 1
        BY <1>1, <2>2, PassingProps
      <3>2. RunFrame.pc + 1 # 1
        BY <1>3
      <3>. QED BY <1>3, <1>7, <2>1, <3>1, <3>2
    <2>3. CASE RunEnter
      <3>1. InRange(source, run[Len(run)]) /\ RunAt = StatAt(source, run[Len(run)])
        BY <1>1, <2>3, AtRunProps DEF RunEnter
      <3>2. PICK n \in 2..(Len(run) + 1) : n = Len(run) + 1 /\ n - 1 = Len(run)
        BY <1>3
      <3>3. PICK b \in SubBlocks(StatAt(source, run[n - 1])) : ContinueIn(n, b)
        BY <2>3, <3>1, <3>2 DEF RunEnter
      <3>4. Len(run') = Len(run) + 1
        BY <1>1, <1>2, <3>1, <3>2, <3>3, InProps
      <3>. QED BY <1>3, <1>7, <2>1, <3>4
    <2>4. CASE RunReturn
      BY <1>3, <1>7, <2>1, <2>4 DEF RunReturn
    <2>5. CASE Leaving
      <3>1. PICK m \in LoopBodies : AtTurn(m) /\ ContinueAfter(m)
        BY <2>5 DEF Leaving, LeaveLoop
      <3>2. Len(run') = m - 1 /\ run'[m - 1].pc = run[m - 1].pc + 1
        BY <1>1, <1>2, <1>4, <3>1, AfterProps
      <3>3. k <= m
        BY <3>1 DEF AtTurn, Innermost
      <3>4. run[m - 1].pc + 1 # 1
        <4>1. m - 1 \in 1..Len(run)
          BY <1>4
        <4>. QED BY <1>3, <4>1
      <3>5. k = m
        BY <1>4, <1>7, <2>1, <3>2, <3>3, <3>4
      <3>. QED BY <1>5, <2>5, <3>1, <3>5, TurnsAreReleased
    <2>6. CASE Turning
      <3>1. PICK m \in LoopBodies : AtTurn(m) /\ ContinueIn(m, LoopOf(m).body)
        BY <2>6 DEF Turning
      <3>2. LoopOf(m).body \in SubBlocks(StatAt(source, run[m - 1]))
        BY <1>1, <1>2, LoopBodiesProps
      <3>3. Len(run') = m
        BY <1>1, <1>2, <1>4, <3>1, <3>2, InProps
      <3>4. k <= m
        BY <3>1 DEF AtTurn, Innermost
      <3>5. k = m
        BY <1>4, <1>7, <2>1, <3>3, <3>4
      <3>. QED BY <1>5, <2>6, <3>1, <3>5, TurnsAreReleased
    <2>7. CASE Ending
      <3>1. Len(run) > 1 /\ Len(run) \notin LoopBodies /\ ContinueAfter(Len(run))
        BY <2>7 DEF Ending
      <3>2. PICK m \in 2..(Len(run) + 1) : m = Len(run) /\ m \in 2..Len(run) /\ m - 1 \in 1..Len(run)
        <4>1. Len(run) \in 2..(Len(run) + 1) /\ Len(run) \in 2..Len(run)
              /\ Len(run) - 1 \in 1..Len(run)
          BY ONLY <1>3, <3>1
        <4>. QED BY ONLY <4>1
      <3>3. InRange(source, run[m - 1])
        BY <1>3, <3>2 DEF StackOK
      <3>4. Len(run') = m - 1 /\ run'[m - 1].pc = run[m - 1].pc + 1
        BY <1>1, <1>2, <3>1, <3>2, <3>3, AfterProps
      <3>5. run[m - 1].pc + 1 # 1
        BY <1>3, <3>2
      <3>6. k # m
        BY <3>1, <3>2
      <3>. QED BY <1>7, <2>1, <3>2, <3>4, <3>5, <3>6
    <2>. QED BY <1>2, <2>2, <2>3, <2>4, <2>5, <2>6, <2>7
  <1>. QED BY <1>6, <1>7

\* Before anything runs the way is empty.
LEMMA CodeGenStartsWay ==
    ASSUME Inv, CodeGen
    PROVE  WayInv' /\ GoneInv'
  <1>1. CASE pass' = "run"
    <2>1. run' = <<Enter(Root)>> /\ source' = stat_nodes /\ pass = "codegen"
      BY <1>1 DEF CodeGen
    <2>2. PICK Y \in SUBSET Block, R \in SUBSET Block :
              Sealed(stat_nodes, Y, R) /\ ExitsLast(stat_nodes, Y)
      BY <2>1, PassSets DEF Inv, PassInv, SealInv
    <2>3. Len(run') = 1 /\ run'[1].block = Root /\ run'[1].pc = 1
      BY <2>1 DEF Enter
    <2>4. NoStops(source', run', Y, R)
      BY <2>2, <2>3 DEF NoStops, Sealed
    <2>5. RunFrame'.pc = 1
      BY <2>3 DEF RunFrame, Top
    <2>. QED BY <2>1, <2>2, <2>4, <2>5 DEF WayInv, GoneInv, Gone
  <1>2. CASE pass' # "run"
    BY <1>2 DEF WayInv, GoneInv, CanRun
  <1>. QED BY <1>1, <1>2

LEMMA WayStep ==
    ASSUME MainIsSound, Inv, WayInv, GoneInv, [Next]_vars
    PROVE  WayInv' /\ GoneInv'
  <1>1. CASE Run
    BY <1>1, RunKeepsWay, RunKeepsGone
  <1>2. CASE CodeGen
    BY <1>2, CodeGenStartsWay
  <1>3. CASE Building \/ BreakCheck \/ DeclCheck \/ AddFree \/ Define \/ ReturnCheck
             \/ BreakPrune \/ ScopesToFree
    <2>1. pass # "run" /\ (pass' # pass => pass' # "run")
      BY <1>3
      DEF Building, BreakCheck, DeclCheck, AddFree, Define, ReturnCheck, BreakPrune,
          ScopesToFree, Checks, Rewrites
    <2>. QED BY <2>1 DEF WayInv, GoneInv, CanRun
  <1>4. CASE UNCHANGED vars
    BY <1>4 DEF vars, heapVars, WayInv, GoneInv, CanRun, Gone, Innermost, LoopBodies, RunFrame,
                DeclaredIn
  <1>. QED BY <1>1, <1>2, <1>3, <1>4 DEF Next, Passes, Done

(***************************************************************************)
(* Whatever leaves a loop body or starts it again, and whoever comes to    *)
(* the end of a block, has released the variables declared directly in it. *)
(***************************************************************************)
THEOREM BlocksAreReleased ==
    ASSUME MainIsSound
    PROVE  Spec => BlocksRelease
  <1>1. Init => Inv /\ WayInv /\ GoneInv
    BY InvInit DEF Init, WayInv, GoneInv, CanRun
  <1>2. Inv /\ WayInv /\ GoneInv /\ [Next]_vars => (Inv /\ WayInv /\ GoneInv)'
    BY InvStep, WayStep
  <1>3. Inv /\ WayInv /\ GoneInv /\ [Next]_vars =>
          [/\ \A k \in LoopBodies :
                 Len(run') < k \/ (run # run' /\ run'[k].pc = 1 /\ Len(run') = k)
                     => DeclaredIn(run[k].block, live') = {}
           /\ (CanRun /\ ~InRange(source, RunFrame)
                 => DeclaredIn(RunFrame.block, live') = {})]_vars
    <2>. SUFFICES ASSUME Inv, WayInv, GoneInv, Building \/ Passes
                  PROVE  LoopBodies = {} /\ ~CanRun
      BY RunReleases DEF Next, Done
    <2>1. pass # "run"
      BY DEF Building, Passes, BreakCheck, DeclCheck, AddFree, Define, ReturnCheck, BreakPrune,
             ScopesToFree, CodeGen, Checks, Rewrites
    <2>2. run = <<>>
      BY <2>1 DEF Inv, PassInv, TypeInv
    <2>. QED BY <2>1, <2>2 DEF LoopBodies, CanRun
  <1>. QED BY <1>1, <1>2, <1>3, PTL DEF Spec, BlocksRelease

-----------------------------------------------------------------------------
(* What the blocks an execution is in have allocated.                      *)

(***************************************************************************)
(* The texts whose releases are right: declarations stand first in their   *)
(* block, and main has none in the block of a conditional or in a block    *)
(* that is a statement.                                                    *)
(***************************************************************************)
TextIsSound == DeclText = "sound" \/ (DeclText = "first" /\ "main" \notin Routines)

LEMMA SoundText ==
    ASSUME TextIsSound, PassInv
    PROVE  DeclsFirst(stat_nodes) /\ MainIsSound /\ (InMain => DeclText = "sound")
  BY DEF TextIsSound, PassInv, TypeInv, TreeInv, TextRule, MainIsSound, InMain

\* Behind a release an execution is at the end of the block or at the exit.
LEMMA GoneProps ==
    ASSUME PassInv, RunInv, CanRun, NEW k, Gone(k)
    PROVE  /\ AtRun => IsExit(RunAt) /\ Innermost(k)
           /\ ~AtRun => k = Len(run)
  <1>1. pass = "run" /\ StackOK(source, run) /\ RunFrame = run[Len(run)] /\ Len(run) \in 1..Len(run)
        /\ source \in Tree /\ source = stat_nodes /\ RunFrame.block \in Block
        /\ RunFrame.pc \in Nat
    BY RunTree DEF CanRun, RunInv
  <1>2. PICK b \in Block : b = RunFrame.block
    BY <1>1
  <1>3. Len(source[b]) \in Nat /\ DOMAIN source[b] = 1..Len(source[b])
    BY <1>1, StatsOfTree
  <1>4. PICK n \in Nat : n = RunFrame.pc
    BY <1>1
  <1>5. n <= Len(source[b]) + 1 /\ n > 1
    BY <1>1, <1>2, <1>4 DEF StackOK, Gone
  <1>6. n - 1 \in DOMAIN source[b]
    BY <1>3, <1>5
  <1>7. FreesPlaced(source)
    BY <1>1, PassSets DEF PassInv, TreeInv
  <1>8. /\ source[b][n - 1].kind = "free"
        /\ \/ source[b][n - 1].scope_id = CurrentScope /\ k = Len(run)
           \/ source[b][n - 1].scope_id = LoopScope /\ Innermost(k)
    BY <1>2, <1>4 DEF Gone
  <1>9. \/ source[b][n - 1].scope_id = CurrentScope /\ n - 1 = Len(source[b])
        \/ source[b][n - 1].scope_id = LoopScope /\ n - 1 < Len(source[b])
           /\ IsExit(source[b][n - 1 + 1])
    BY <1>6, <1>7, <1>8 DEF FreesPlaced
  <1>10. n - 1 + 1 = n
    OBVIOUS
  <1>11. AtRun <=> n <= Len(source[b])
    BY <1>2, <1>4 DEF AtRun, InRange
  <1>12. RunAt = source[b][n]
    BY <1>2, <1>4 DEF RunAt, StatAt
  <1>13. CASE source[b][n - 1].scope_id = CurrentScope
    <2>1. n - 1 = Len(source[b]) /\ k = Len(run)
      BY <1>8, <1>9, <1>13 DEF CurrentScope, LoopScope
    <2>2. ~(n <= Len(source[b]))
      BY <1>3, <2>1
    <2>. QED BY <1>11, <2>1, <2>2
  <1>14. CASE source[b][n - 1].scope_id = LoopScope
    <2>1. n - 1 < Len(source[b]) /\ IsExit(source[b][n - 1 + 1]) /\ Innermost(k)
      BY <1>8, <1>9, <1>14 DEF CurrentScope, LoopScope
    <2>2. n <= Len(source[b])
      BY <1>3, <2>1
    <2>. QED BY <1>10, <1>11, <1>12, <2>1, <2>2
  <1>. QED BY <1>8, <1>13, <1>14

\* A break or continue is in a loop.
LEMMA LoopIsOpen ==
    ASSUME PassInv, RunInv, pass = "run", NEW i \in DOMAIN source[RunFrame.block],
           IsExit(source[RunFrame.block][i])
    PROVE  \E m : Innermost(m)
  <1>1. /\ source \in Tree /\ StackOK(source, run) /\ run \in Seq(Frame) /\ Len(run) \in Nat
        /\ Len(run) > 0 /\ RunFrame = run[Len(run)] /\ source = stat_nodes
    BY RunTree DEF RunInv
  <1>2. PICK X \in SUBSET Block : ExitFree(source, X)
    BY <1>1, PassSets DEF PassInv, TreeInv, NoLooseExit
  <1>3. ASSUME LoopBodies = {} PROVE FALSE
    <2>. DEFINE bad == {k \in 1..Len(run) : run[k].block \notin X}
    <2>1. bad # {}
      <3>1. run[Len(run)].block \notin X
        BY <1>1, <1>2 DEF ExitFree
      <3>. QED BY <1>1, <3>1
    <2>2. bad \in SUBSET Nat
      BY <1>1
    <2>3. PICK k \in bad : \A j \in bad : k <= j
      <3>. HIDE DEF bad
      <3>. QED BY <2>1, <2>2, LeastNumber
    <2>4. k \in 1..Len(run) /\ k # 1
      BY <1>1, <1>2 DEF StackOK, ExitFree
    <2>5. k \in 2..Len(run) /\ k - 1 \in 1..Len(run) /\ ~(k <= k - 1)
      BY <1>1, <2>4
    <2>6. run[k - 1].block \in X
      BY <2>3, <2>5
    <2>7. PICK f \in Frame : f = run[k - 1]
      BY <1>1, <2>5
    <2>8. InRange(source, f) /\ run[k].block \in SubBlocks(StatAt(source, f))
      BY <1>1, <2>5, <2>7 DEF StackOK
    <2>9. PICK s \in Stat : s = StatAt(source, f)
      BY <1>1, <2>8, StatAtProps
    <2>10. ~IsLoop(s)
      BY <1>3, <2>5, <2>7, <2>9 DEF LoopBodies
    <2>11. s.kind \in {"block", "cond"}
      <3>1. s.kind \notin LeafKind /\ s.kind \in Kind
        BY <2>8, <2>9, StatProps DEF Stat, NodeFields
      <3>. QED BY <2>10, <3>1 DEF Kind, IsLoop
    <2>12. f.pc \in DOMAIN source[f.block] /\ s = source[f.block][f.pc]
      BY <1>1, <2>8, <2>9, StatAtProps, StatsOfTree DEF Frame, StatAt
    <2>13. SubBlocks(s) \subseteq X
      BY <1>2, <2>6, <2>7, <2>11, <2>12 DEF ExitFree
    <2>. QED BY <2>3, <2>8, <2>9, <2>13
  <1>4. PICK k \in LoopBodies : TRUE
    BY <1>3
  <1>5. \A j \in LoopBodies : j \in 2..Len(run)
    BY DEF LoopBodies
  <1>. DEFINE above == {n \in Nat : \E j \in LoopBodies : n + j = Len(run)}
  <1>6. above \in SUBSET Nat /\ Len(run) - k \in above
    BY <1>1, <1>4, <1>5
  <1>7. PICK n \in above : \A x \in above : n <= x
    <2>1. above # {}
      BY <1>6
    <2>. HIDE DEF above
    <2>. QED BY <1>6, <2>1, LeastNumber
  <1>8. PICK m \in LoopBodies : n + m = Len(run)
    BY <1>7
  <1>9. ASSUME NEW j \in LoopBodies PROVE j <= m
    <2>1. j \in 2..Len(run) /\ m \in 2..Len(run)
      BY <1>5
    <2>2. Len(run) - j \in Nat /\ Len(run) - j + j = Len(run)
      BY <1>1, <2>1
    <2>3. Len(run) - j \in above
      BY <1>9, <2>2
    <2>4. n \in Nat /\ n <= Len(run) - j
      BY <1>6, <1>7, <2>3
    <2>. QED BY <1>1, <1>8, <2>1, <2>4
  <1>. QED BY <1>8, <1>9 DEF Innermost

\* A variable of frame k's block whose declaration the execution has passed.
Holds(k, v) ==
    \E i \in 1..(run[k].pc - 1) :
        v = <<run[k].block, i>> /\ source[run[k].block][i].kind = "decl"

\* Frame k is at no declaration: it has passed all of its block's.
LEMMA AllPassed ==
    ASSUME TextIsSound, PassInv, RunInv, AtRun, RunAt.kind # "decl",
           NEW k \in 1..Len(run), NEW v, IsDeclAt(stat_nodes, v), v[1] = run[k].block
    PROVE  Holds(k, v)
  <1>1. /\ pass = "run" /\ source \in Tree /\ StackOK(source, run) /\ run \in Seq(Frame)
        /\ Len(run) \in Nat /\ RunFrame = run[Len(run)] /\ source = stat_nodes
    BY RunTree DEF AtRun, CanRun, RunInv
  <1>2. PICK f \in Frame : f = run[k]
    BY <1>1
  <1>3. InRange(source, f) /\ StatAt(source, f).kind # "decl"
    <2>1. CASE k = Len(run)
      BY <1>1, <1>2, <2>1 DEF AtRun, RunAt
    <2>2. CASE k # Len(run)
      <3>1. PICK j \in 2..Len(run) : j - 1 = k
        <4>1. k + 1 \in 2..Len(run) /\ k + 1 - 1 = k
          BY <1>1, <2>2
        <4>. QED BY ONLY <4>1
      <3>2. InRange(source, f) /\ run[j].block \in SubBlocks(StatAt(source, f))
        BY <1>1, <1>2, <3>1 DEF StackOK
      <3>3. PICK s \in Stat : s = StatAt(source, f)
        BY <1>1, <3>2, StatAtProps
      <3>4. s.kind \notin LeafKind
        BY <3>2, <3>3, StatProps
      <3>. QED BY <3>2, <3>3, <3>4 DEF LeafKind
    <2>. QED BY <2>1, <2>2
  <1>4. PICK b \in Block : b = f.block
    BY DEF Frame
  <1>5. PICK p \in DOMAIN source[b] : p = f.pc
    BY <1>1, <1>3, <1>4, StatAtProps, StatsOfTree
  <1>6. PICK i \in DOMAIN source[b] : v = <<b, i>> /\ source[b][i].kind = "decl"
    BY <1>1, <1>2, <1>4 DEF IsDeclAt
  <1>7. source[b][p].kind # "decl"
    BY <1>3, <1>4, <1>5 DEF StatAt
  <1>8. i \in Nat /\ p \in Nat /\ i > 0 /\ p > 0 /\ i # p
    BY <1>1, <1>6, <1>7, StatsOfTree
  <1>9. i < p
    <2>1. p < i => p \in 1..(i - 1)
      BY <1>8
    <2>2. p < i => source[b][p].kind = "decl"
      BY <1>1, <1>6, <2>1, SoundText DEF DeclsFirst
    <2>. QED BY <1>7, <1>8, <2>2
  <1>10. i \in 1..(p - 1)
    BY <1>8, <1>9
  <1>. QED BY <1>2, <1>4, <1>5, <1>6, <1>10 DEF Holds

(***************************************************************************)
(* Nothing has been freed that was not allocated; and in every block an    *)
(* execution is in, what it has declared there is allocated, until the     *)
(* release it has just executed.  So is the domain of each running loop,   *)
(* and the parameter until the return.                                     *)
(***************************************************************************)
OwnInv ==
    /\ wild = {}
    /\ CanRun =>
         /\ \A k \in 1..Len(run) : \A v : Holds(k, v) => Gone(k) \/ v \in live
         /\ \A k \in LoopBodies : Domain(k) \subseteq live
         /\ ~InMain => Parameter \in live

\* What the releases are for are declarations.
LEMMA DeclsAndDomains ==
    ASSUME PassInv, RunInv, pass = "run"
    PROVE  /\ \A v : IsDeclAt(stat_nodes, v) => v # Parameter /\ source[v[1]][v[2]].kind = "decl"
           /\ \A k, v : Holds(k, v) => v[1] = run[k].block /\ source[v[1]][v[2]].kind = "decl"
           /\ \A k \in LoopBodies : \A v \in Domain(k) :
                /\ v # Parameter /\ source[v[1]][v[2]].kind # "decl"
                /\ v[1] = run[k - 1].block
  <1>1. source = stat_nodes /\ source \in Tree /\ ParentsFirst(source)
    BY RunTree DEF RunInv, Shape
  <1>2. ASSUME NEW v, IsDeclAt(stat_nodes, v)
        PROVE  v # Parameter /\ source[v[1]][v[2]].kind = "decl"
    <2>1. PICK b \in Block : \E i \in DOMAIN source[b] : v = <<b, i>> /\ source[b][i].kind = "decl"
      BY <1>1, <1>2, ReachableProps DEF IsDeclAt
    <2>2. PICK i \in DOMAIN source[b] : v = <<b, i>> /\ source[b][i].kind = "decl"
      BY <2>1
    <2>3. i # 0
      BY <1>1, <2>1, StatsOfTree
    <2>. QED BY <2>2, <2>3 DEF Parameter
  <1>3. ASSUME NEW k, NEW v, Holds(k, v)
        PROVE  v[1] = run[k].block /\ source[v[1]][v[2]].kind = "decl"
    BY <1>3 DEF Holds
  <1>4. ASSUME NEW k \in LoopBodies, NEW v \in Domain(k)
        PROVE  /\ v # Parameter /\ source[v[1]][v[2]].kind # "decl"
               /\ v[1] = run[k - 1].block
    <2>1. v = <<run[k - 1].block, run[k - 1].pc>>
      BY <1>4, LoopBodiesProps
    <2>2. IsLoop(source[run[k - 1].block][run[k - 1].pc])
      BY <1>4, LoopBodiesProps
    <2>3. PICK b \in Block : b = run[k - 1].block
      BY LoopBodiesProps
    <2>4. PICK p \in DOMAIN source[b] : p = run[k - 1].pc
      BY <2>3, LoopBodiesProps
    <2>5. p # 0
      BY <1>1, StatsOfTree
    <2>6. source[b][p].kind # "decl"
      BY <2>2, <2>3, <2>4 DEF IsLoop, LoopKind
    <2>. QED BY <2>1, <2>3, <2>4, <2>5, <2>6 DEF Parameter
  <1>. QED BY <1>2, <1>3, <1>4

\* What a release frees is allocated.
LEMMA FreedIsLive ==
    ASSUME TextIsSound, PassInv, RunInv, OwnInv, AtRun, RunAt.kind = "free"
    PROVE  \E m \in 1..Len(run) :
              /\ Releases(m)
              /\ \A v \in Freed(RunFrame.block, RunAt) :
                   v \in live /\ IsDeclAt(stat_nodes, v) /\ v[1] = run[m].block
  <1>1. /\ CanRun /\ pass = "run" /\ Len(run) \in 1..Len(run) /\ RunFrame = run[Len(run)]
        /\ \A k \in 1..Len(run) : run[k] \in Frame
        /\ source \in Tree /\ RunFrame.block \in Block /\ RunFrame.pc \in Nat
    BY RunTree DEF AtRun, CanRun
  <1>2. PICK m \in 1..Len(run) :
            /\ Releases(m) /\ run[m].block # Root
            /\ Freed(RunFrame.block, RunAt) = to_free[run[m].block]
    <2>1. CASE RunAt.scope_id = CurrentScope
      BY <1>1, <2>1, ReleaseProps DEF Releases, CurrentScope, LoopScope
    <2>2. CASE RunAt.scope_id # CurrentScope
      <3>1. /\ RunAt.scope_id = LoopScope /\ RunFrame.pc < Len(source[RunFrame.block])
            /\ IsExit(source[RunFrame.block][RunFrame.pc + 1])
            /\ \A m : Innermost(m) => Freed(RunFrame.block, RunAt) = to_free[run[m].block]
        BY <2>2, ReleaseProps
      <3>2. PICK i \in DOMAIN source[RunFrame.block] : i = RunFrame.pc + 1
        <4>1. Len(source[RunFrame.block]) \in Nat
              /\ DOMAIN source[RunFrame.block] = 1..Len(source[RunFrame.block])
          BY <1>1, StatsOfTree
        <4>2. RunFrame.pc + 1 \in DOMAIN source[RunFrame.block]
          BY <1>1, <3>1, <4>1
        <4>. QED BY ONLY <4>2
      <3>3. PICK m : Innermost(m)
        BY <1>1, <3>1, <3>2, LoopIsOpen
      <3>4. m \in 1..Len(run) /\ run[m].block # Root
        BY <1>1, <3>3, LoopOfTop
      <3>. QED BY <3>1, <3>3, <3>4 DEF Releases
    <2>. QED BY <2>1, <2>2
  <1>3. PICK b \in Block : b = run[m].block
    BY <1>1 DEF Frame
  <1>4. ~Gone(m)
    <2>1. ~IsExit(RunAt)
      BY DEF IsExit, ExitKind
    <2>. QED BY <1>1, <2>1, GoneProps
  <1>5. ASSUME NEW v \in to_free[b]
        PROVE  v \in live /\ IsDeclAt(stat_nodes, v) /\ v[1] = b
    <2>1. IsDeclAt(stat_nodes, v) /\ v[1] = b
      BY <1>1, <1>2, <1>3, FreedProps
    <2>2. Holds(m, v)
      BY <1>3, <2>1, AllPassed
    <2>. QED BY <1>1, <1>4, <2>1, <2>2 DEF OwnInv
  <1>. QED BY <1>2, <1>3, <1>5

LEMMA ReturnIsLive ==
    ASSUME TextIsSound, PassInv, RunInv, OwnInv, AtRun, RunAt.kind = "return"
    PROVE  Freed(RunFrame.block, RunAt) \cup UNION {Domain(k) : k \in LoopBodies} \subseteq live
  <1>1. /\ CanRun /\ pass = "run" /\ 1 \in 1..Len(run) /\ run[1].block = Root
    BY RunTree DEF AtRun, CanRun, StackOK
  <1>2. ~Gone(1)
    <2>1. ~IsExit(RunAt)
      BY DEF IsExit, ExitKind
    <2>. QED BY <1>1, <2>1, GoneProps
  <1>3. ASSUME NEW v, IsDeclAt(stat_nodes, v), v[1] = Root
        PROVE  v \in live
    <2>1. Holds(1, v)
      BY <1>1, <1>3, AllPassed
    <2>. QED BY <1>1, <1>2, <2>1 DEF OwnInv
  <1>4. ASSUME NEW v \in Freed(RunFrame.block, RunAt)
        PROVE  v \in live
    <2>1. CASE InMain
      <3>1. v \in to_free[Global]
        BY <1>4, <2>1, ReturnScopes
      <3>2. IsDeclAt(stat_nodes, v) /\ v[1] = Root
        BY <1>1, <2>1, <3>1, FreedProps, SoundText
      <3>. QED BY <1>3, <3>2
    <2>2. CASE ~InMain
      <3>1. v \in to_free[Root]
        BY <1>4, <2>2, ReturnScopes
      <3>2. v = Parameter \/ (IsDeclAt(stat_nodes, v) /\ v[1] = Root)
        BY <1>1, <3>1, FreedProps, RootIsBlock
      <3>. QED BY <1>1, <1>3, <2>2, <3>2 DEF OwnInv
    <2>. QED BY <2>1, <2>2
  <1>. QED BY <1>1, <1>4 DEF OwnInv

\* A frame that stays where it is, or passes no declaration, holds no more.
LEMMA HoldsKept ==
    ASSUME source' = source, NEW k, run'[k].block = run[k].block, run[k].pc \in Nat,
           \/ run'[k].pc = run[k].pc
           \/ run'[k].pc = run[k].pc + 1 /\ source[run[k].block][run[k].pc].kind # "decl",
           NEW v, Holds(k, v)'
    PROVE  Holds(k, v)
  <1>1. PICK i \in 1..(run'[k].pc - 1) :
            v = <<run[k].block, i>> /\ source[run[k].block][i].kind = "decl"
    BY DEF Holds
  <1>2. PICK p \in Nat : p = run[k].pc
    OBVIOUS
  <1>3. i \in 1..(p - 1)
    <2>1. CASE run'[k].pc = run[k].pc
      BY <1>2, <2>1
    <2>2. CASE run'[k].pc # run[k].pc
      <3>1. run'[k].pc = p + 1 /\ source[run[k].block][p].kind # "decl"
        BY <1>2, <2>2
      <3>2. i \in 1..(p + 1 - 1) /\ i # p
        BY <1>1, <3>1
      <3>. QED BY <1>2, <3>2
    <2>. QED BY <2>1, <2>2
  <1>. QED BY <1>1, <1>2, <1>3 DEF Holds

LEMMA NewHoldsNothing ==
    ASSUME NEW k, run'[k].pc = 1, NEW v
    PROVE  ~Holds(k, v)'
  BY DEF Holds

\* A loop that is running was running, unless it was entered by this step.
LEMMA DomainWas ==
    ASSUME source' = source, NEW k \in LoopBodies', k \in 2..Len(run), run'[k - 1] = run[k - 1]
    PROVE  k \in LoopBodies /\ Domain(k)' = Domain(k)
  BY DEF LoopBodies, Domain, LoopOf

\* A release empties the block it is for.
LEMMA ReleasesGone ==
    ASSUME PassInv, RunInv, Passing, RunAt.kind = "free", source' = source, NEW m, Releases(m)
    PROVE  Gone(m)'
  <1>1. AtRun /\ pass = "run" /\ RunAt = source[RunFrame.block][RunFrame.pc]
    BY AtRunProps DEF Passing
  <1>2. /\ Len(run') = Len(run) /\ LoopBodies' = LoopBodies
        /\ RunFrame'.block = RunFrame.block /\ RunFrame'.pc = RunFrame.pc + 1
    BY PassingProps
  <1>3. RunFrame.pc \in Nat /\ RunFrame.pc > 0
    BY <1>1, RunTree DEF Frame
  <1>4. RunFrame'.pc > 1 /\ RunFrame'.pc - 1 = RunFrame.pc
    BY <1>2, <1>3
  <1>5. source'[RunFrame'.block][RunFrame'.pc - 1] = RunAt
    BY ONLY <1>1, <1>2, <1>4, source' = source
  <1>6. Innermost(m) => Innermost(m)'
    BY ONLY <1>2 DEF Innermost
  <1>7. \/ RunAt.scope_id = CurrentScope /\ m = Len(run')
        \/ RunAt.scope_id = LoopScope /\ Innermost(m)'
    BY <1>2, <1>6 DEF Releases
  <1>. QED BY ONLY <1>4, <1>5, <1>7, RunAt.kind = "free" DEF Gone

LEMMA PassingKeepsOwn ==
    ASSUME TextIsSound, Inv, OwnInv, Run, Passing
    PROVE  OwnInv'
  <1>1. PassInv /\ RunInv
    BY DEF Inv
  <1>2. CanRun /\ pass = "run" /\ AtRun /\ source' = source /\ routine' = routine
    BY <1>1, RunCases DEF CanRun, RunUnchanged, Passing
  <1>3. /\ Len(run') = Len(run) /\ RunFrame = run[Len(run)] /\ Len(run) \in 1..Len(run)
        /\ \A i \in 1..Len(run) : run'[i].block = run[i].block
        /\ \A i \in 1..Len(run) : i # Len(run) => run'[i] = run[i]
        /\ run'[Len(run)].pc = RunFrame.pc + 1
        /\ LoopBodies' = LoopBodies
    BY <1>1, <1>2, PassingProps, RunTree
  <1>4. /\ StackOK(source, run) /\ \A k \in 1..Len(run) : run[k].pc \in Nat
        /\ RunAt = source[RunFrame.block][RunFrame.pc]
    <2>1. StackOK(source, run) /\ run \in Seq(Frame)
      BY <1>1, <1>2, RunTree
    <2>2. \A k \in 1..Len(run) : run[k] \in Frame
      BY <2>1
    <2>. QED BY <1>1, <1>2, <2>1, <2>2, AtRunProps DEF Frame
  <1>5. ~IsExit(RunAt)
    BY DEF Passing, MaySkip, IsExit, ExitKind
  <1>6. \A k \in 1..Len(run) : \A v : Holds(k, v) => v \in live
    BY <1>1, <1>2, <1>5, GoneProps DEF OwnInv
  <1>7. \A k \in LoopBodies : Domain(k) \subseteq live
    BY <1>2 DEF OwnInv
  <1>8. ~InMain => Parameter \in live
    BY <1>2 DEF OwnInv
  <1>9. ASSUME NEW k \in LoopBodies' PROVE k \in LoopBodies /\ Domain(k)' = Domain(k)
    <2>1. k \in LoopBodies /\ k \in 2..Len(run) /\ k - 1 \in 1..Len(run) /\ k - 1 # Len(run)
      BY <1>1, <1>2, <1>3, LoopBodiesProps
    <2>2. run'[k - 1] = run[k - 1]
      BY <1>3, <2>1
    <2>. QED BY <1>2, <1>9, <2>1, <2>2, DomainWas
  <1>10. ASSUME NEW k \in 1..Len(run), NEW v, Holds(k, v)', k # Len(run) \/ RunAt.kind # "decl"
         PROVE  Holds(k, v)
    <2>1. CASE k = Len(run)
      BY <1>2, <1>3, <1>4, <1>10, <2>1, HoldsKept
    <2>2. CASE k # Len(run)
      BY <1>2, <1>3, <1>4, <1>10, <2>2, HoldsKept
    <2>. QED BY <2>1, <2>2
  <1>11. CASE RunAt.kind # "free"
    <2>1. live \subseteq live' /\ wild' = wild /\ (RunAt.kind = "decl" => Here \in live')
      BY <1>11 DEF Passing, heapVars
    <2>2. ASSUME NEW k \in 1..Len(run), NEW v, Holds(k, v)' PROVE v \in live'
      <3>1. CASE Holds(k, v)
        BY <1>6, <2>1, <3>1
      <3>2. CASE ~Holds(k, v)
        <4>1. k = Len(run) /\ RunAt.kind = "decl"
          BY <1>10, <2>2, <3>2
        <4>2. PICK p \in Nat : p = RunFrame.pc
          BY <1>3, <1>4
        <4>3. PICK i \in 1..(p + 1 - 1) :
                  v = <<run[k].block, i>> /\ source[run[k].block][i].kind = "decl"
          BY <1>2, <1>3, <2>2, <4>1, <4>2 DEF Holds
        <4>4. i \in 1..(p - 1) \/ i = p
          BY <4>2
        <4>5. i = p
          BY <1>3, <3>2, <4>1, <4>2, <4>3, <4>4 DEF Holds
        <4>6. v = Here
          BY <1>3, <4>1, <4>2, <4>3, <4>5 DEF Here
        <4>. QED BY <2>1, <4>1, <4>6
      <3>. QED BY <3>1, <3>2
    <2>3. \A k \in LoopBodies' : Domain(k)' \subseteq live'
      BY <1>7, <1>9, <2>1
    <2>4. wild' = {} /\ (~InMain' => Parameter \in live')
      BY <1>2, <1>8, <2>1 DEF OwnInv, InMain
    <2>. QED BY <1>3, <2>2, <2>3, <2>4 DEF OwnInv
  <1>12. CASE RunAt.kind = "free"
    <2>. DEFINE freed == Freed(RunFrame.block, RunAt)
    <2>1. live' = live \ freed /\ wild' = wild \cup (freed \ live)
      BY <1>12 DEF Passing, Release, MaySkip
    <2>2. PICK m \in 1..Len(run) :
              /\ Releases(m)
              /\ \A v \in freed : v \in live /\ IsDeclAt(stat_nodes, v) /\ v[1] = run[m].block
      BY <1>1, <1>2, <1>12, FreedIsLive
    <2>. HIDE DEF freed
    <2>3. Gone(m)'
      BY <1>1, <1>2, <1>12, <2>2, ReleasesGone
    <2>4. ASSUME NEW k \in 1..Len(run), NEW v, Holds(k, v)', k # m PROVE v \in live'
      <3>1. Holds(k, v)
        BY <1>10, <1>12, <2>4
      <3>2. v[1] = run[k].block
        BY <1>1, <1>2, <3>1, DeclsAndDomains
      <3>3. run[k].block # run[m].block
        <4>1. run[k].block \in Nat /\ run[m].block \in Nat
          <5>1. run \in Seq(Frame)
            BY <1>1, <1>2, RunTree
          <5>2. run[k] \in Frame /\ run[m] \in Frame
            BY <5>1
          <5>. QED BY <5>2 DEF Frame, Block
        <4>2. k < m \/ m < k
          BY <2>4
        <4>3. run[k].block < run[m].block \/ run[m].block < run[k].block
          BY <1>4, <4>2 DEF StackOK
        <4>. QED BY <4>1, <4>3
      <3>. QED BY <1>6, <2>1, <2>2, <3>1, <3>2, <3>3
    <2>5. ASSUME NEW k \in LoopBodies' PROVE Domain(k)' \subseteq live'
      <3>1. k \in LoopBodies /\ Domain(k)' = Domain(k)
        BY <1>9, <2>5
      <3>2. ASSUME NEW v \in Domain(k) PROVE v \notin freed
        BY <1>1, <1>2, <2>2, <3>1, <3>2, DeclsAndDomains
      <3>. QED BY <1>7, <2>1, <3>1, <3>2
    <2>6. ~InMain' => Parameter \in live'
      <3>1. Parameter \notin freed
        BY <1>1, <1>2, <2>2, DeclsAndDomains
      <3>. QED BY <1>2, <1>8, <2>1, <3>1 DEF InMain
    <2>7. wild' = {}
      BY <2>1, <2>2 DEF OwnInv
    <2>8. ASSUME NEW k \in 1..Len(run), NEW v, Holds(k, v)' PROVE Gone(k)' \/ v \in live'
      BY <2>3, <2>4, <2>8
    <2>. QED BY <1>3, <2>5, <2>6, <2>7, <2>8 DEF OwnInv
  <1>. QED BY <1>11, <1>12

\* Who leaves or starts again a loop, or ends a block, leaves behind only the
\* frame whose variables are gone.
LEMMA OnlyOneGone ==
    ASSUME PassInv, RunInv, CanRun, NEW m,
           \/ m \in LoopBodies /\ AtTurn(m)
           \/ ~InRange(source, RunFrame) /\ m = Len(run),
           NEW k, Gone(k)
    PROVE  k = m
  <1>1. CASE ~InRange(source, RunFrame)
    <2>1. k = Len(run)
      BY <1>1, GoneProps DEF AtRun
    <2>. QED BY <1>1, <2>1 DEF AtTurn, AtRun
  <1>2. CASE InRange(source, RunFrame)
    <2>1. Innermost(k) /\ Innermost(m)
      BY <1>2, GoneProps DEF AtTurn, AtRun
    <2>2. k <= m /\ m <= k /\ k \in LoopBodies /\ m \in LoopBodies
      BY <2>1 DEF Innermost
    <2>3. k \in 2..Len(run) /\ m \in 2..Len(run)
      BY <2>2 DEF LoopBodies
    <2>. QED BY <2>2, <2>3
  <1>. QED BY <1>1, <1>2

LEMMA LeavingKeepsOwn ==
    ASSUME Inv, OwnInv, Run, Leaving \/ Ending
    PROVE  OwnInv'
  <1>1. PassInv /\ RunInv
    BY DEF Inv
  <1>2. CanRun /\ pass = "run" /\ source' = source /\ routine' = routine
    BY <1>1, RunCases DEF CanRun, RunUnchanged
  <1>3. /\ source \in Tree /\ StackOK(source, run) /\ run \in Seq(Frame) /\ Len(run) \in Nat
        /\ RunFrame = run[Len(run)]
    BY <1>1, <1>2, RunTree
  <1>4. PICK m \in 2..(Len(run) + 1) :
            /\ m \in 2..Len(run) /\ m - 1 \in 1..Len(run) /\ m \in 1..Len(run)
            /\ ContinueAfter(m)
            /\ \/ m \in LoopBodies /\ AtTurn(m) /\ Release(Domain(m))
               \/ ~InRange(source, RunFrame) /\ m = Len(run) /\ UNCHANGED heapVars
    <2>1. CASE Leaving
      <3>1. PICK m \in LoopBodies : AtTurn(m) /\ ContinueAfter(m) /\ Release(Domain(m))
        BY <2>1 DEF Leaving, LeaveLoop
      <3>. QED BY <1>1, <1>2, <3>1, LoopBodiesProps
    <2>2. CASE Ending
      <3>1. Len(run) > 1
        BY <2>2 DEF Ending
      <3>2. /\ Len(run) \in 2..(Len(run) + 1) /\ Len(run) \in 2..Len(run)
            /\ Len(run) - 1 \in 1..Len(run) /\ Len(run) \in 1..Len(run)
        BY ONLY <1>3, <3>1
      <3>. QED BY <2>2, <3>2 DEF Ending
    <2>. QED BY <2>1, <2>2
  <1>5. InRange(source, run[m - 1]) /\ run[m].block \in SubBlocks(StatAt(source, run[m - 1]))
    BY <1>3, <1>4 DEF StackOK
  <1>6. /\ Len(run') = m - 1 /\ \A i \in 1..(m - 2) : run'[i] = run[i]
        /\ run'[m - 1].block = run[m - 1].block /\ run'[m - 1].pc = run[m - 1].pc + 1
    BY <1>1, <1>2, <1>4, <1>5, AfterProps
  <1>7. source[run[m - 1].block][run[m - 1].pc].kind # "decl"
    <2>1. run[m - 1] \in Frame
      BY <1>3, <1>4
    <2>2. PICK s \in Stat : s = StatAt(source, run[m - 1])
      BY <1>3, <1>5, <2>1, StatAtProps
    <2>3. s.kind \notin LeafKind
      BY <1>5, <2>2, StatProps
    <2>. QED BY <2>2, <2>3 DEF LeafKind, StatAt
  <1>8. \A k \in 1..Len(run) : run[k].pc \in Nat /\ run[k].block \in Nat
    <2>1. \A k \in 1..Len(run) : run[k] \in Frame
      BY <1>3
    <2>. QED BY <2>1 DEF Frame, Block
  <1>9. /\ \A k \in 1..Len(run) : \A v : Holds(k, v) => Gone(k) \/ v \in live
        /\ \A k \in LoopBodies : Domain(k) \subseteq live
        /\ ~InMain => Parameter \in live
        /\ wild = {}
    BY <1>2 DEF OwnInv
  <1>10. ASSUME NEW k \in 1..(m - 1), NEW v, Holds(k, v)' PROVE v \in live /\ Holds(k, v)
    <2>1. k \in 1..Len(run) /\ k # m /\ (k \in 1..(m - 2) \/ k = m - 1)
      BY <1>3, <1>4
    <2>2. Holds(k, v)
      <3>1. CASE k = m - 1
        BY <1>2, <1>6, <1>7, <1>8, <1>10, <2>1, <3>1, HoldsKept
      <3>2. CASE k # m - 1
        BY <1>2, <1>6, <1>8, <1>10, <2>1, <3>2, HoldsKept
      <3>. QED BY <3>1, <3>2
    <2>3. ~Gone(k)
      BY <1>1, <1>2, <1>4, <2>1, OnlyOneGone
    <2>. QED BY <1>9, <2>1, <2>2, <2>3
  <1>11. ASSUME NEW k \in LoopBodies'
         PROVE  k \in LoopBodies /\ Domain(k)' = Domain(k) /\ k \in 2..(m - 1)
    <2>1. k \in 2..(m - 1)
      BY <1>6 DEF LoopBodies
    <2>2. k \in 2..Len(run) /\ k - 1 \in 1..(m - 2)
      BY <1>3, <1>4, <2>1
    <2>. QED BY <1>2, <1>6, <1>11, <2>1, <2>2, DomainWas
  <1>12. CASE UNCHANGED heapVars
    <2>1. live' = live /\ wild' = wild
      BY <1>12 DEF heapVars
    <2>2. \A k \in 1..Len(run') : \A v : Holds(k, v)' => v \in live'
      BY <1>6, <1>10, <2>1
    <2>3. \A k \in LoopBodies' : Domain(k)' \subseteq live'
      BY <1>9, <1>11, <2>1
    <2>4. wild' = {} /\ (~InMain' => Parameter \in live')
      BY <1>2, <1>9, <2>1 DEF InMain
    <2>. QED BY <2>2, <2>3, <2>4 DEF OwnInv
  <1>13. CASE m \in LoopBodies /\ Release(Domain(m))
    <2>1. live' = live \ Domain(m) /\ wild' = wild \cup (Domain(m) \ live)
      BY <1>13 DEF Release
    <2>2. \A k \in 1..Len(run') : \A v : Holds(k, v)' => v \in live'
      <3>. SUFFICES ASSUME NEW k \in 1..(m - 1), NEW v, Holds(k, v)' PROVE v \in live'
        BY <1>6
      <3>1. v \in live /\ Holds(k, v)
        BY <1>10
      <3>2. v \notin Domain(m)
        BY <1>1, <1>2, <1>13, <3>1, DeclsAndDomains
      <3>. QED BY <2>1, <3>1, <3>2
    <2>3. ASSUME NEW k \in LoopBodies' PROVE Domain(k)' \subseteq live'
      <3>1. k \in LoopBodies /\ Domain(k)' = Domain(k) /\ k \in 2..(m - 1)
        BY <1>11, <2>3
      <3>2. run[k - 1].block # run[m - 1].block
        <4>1. k - 1 \in 1..Len(run) /\ k - 1 < m - 1
          BY <1>3, <1>4, <3>1
        <4>2. run[k - 1].block < run[m - 1].block
          BY <1>3, <1>4, <4>1 DEF StackOK
        <4>. QED BY <1>4, <1>8, <4>1, <4>2
      <3>3. ASSUME NEW v \in Domain(k) PROVE v \notin Domain(m)
        BY <1>1, <1>2, <1>13, <3>1, <3>2, <3>3, DeclsAndDomains
      <3>. QED BY <1>9, <2>1, <3>1, <3>3
    <2>4. ~InMain' => Parameter \in live'
      <3>1. Parameter \notin Domain(m)
        BY <1>1, <1>2, <1>13, DeclsAndDomains
      <3>. QED BY <1>2, <1>9, <2>1, <3>1 DEF InMain
    <2>5. wild' = {}
      BY <1>9, <1>13, <2>1
    <2>. QED BY <2>2, <2>3, <2>4, <2>5 DEF OwnInv
  <1>. QED BY <1>4, <1>12, <1>13

LEMMA EnteringKeepsOwn ==
    ASSUME Inv, OwnInv, Run, RunEnter \/ Turning
    PROVE  OwnInv'
  <1>1. PassInv /\ RunInv
    BY DEF Inv
  <1>2. CanRun /\ pass = "run" /\ source' = source /\ routine' = routine
    BY <1>1, RunCases DEF CanRun, RunUnchanged
  <1>3. /\ source \in Tree /\ StackOK(source, run) /\ run \in Seq(Frame) /\ Len(run) \in Nat
        /\ Len(run) > 0 /\ RunFrame = run[Len(run)]
    BY <1>1, <1>2, RunTree
  <1>4. PICK m \in 2..(Len(run) + 1) :
            /\ Len(run') = m /\ \A i \in 1..(m - 1) : run'[i] = run[i]
            /\ run'[m].pc = 1
            /\ live \subseteq live' /\ wild' = wild
            /\ \/ m \in LoopBodies /\ AtTurn(m)
               \/ /\ m = Len(run) + 1 /\ AtRun /\ ~IsExit(RunAt)
                  /\ RunAt.kind = "iter_loop" => Here \in live'
    <2>1. CASE RunEnter
      <3>1. InRange(source, run[Len(run)]) /\ RunAt = StatAt(source, run[Len(run)])
            /\ RunAt \in Stat
        BY <1>1, <2>1, AtRunProps DEF RunEnter
      <3>2. PICK n \in 2..(Len(run) + 1) : n = Len(run) + 1 /\ n - 1 = Len(run)
        BY <1>3
      <3>3. PICK b \in SubBlocks(StatAt(source, run[n - 1])) : ContinueIn(n, b)
        BY <2>1, <3>1, <3>2 DEF RunEnter
      <3>4. Len(run') = n /\ (\A i \in 1..(n - 1) : run'[i] = run[i]) /\ run'[n].pc = 1
        BY <1>1, <1>2, <3>1, <3>2, <3>3, InProps
      <3>5. RunAt.kind \notin LeafKind
        BY <3>1, <3>2, <3>3, StatProps
      <3>6. ~IsExit(RunAt)
        BY <3>5 DEF IsExit, LeafKind
      <3>7. live \subseteq live' /\ wild' = wild /\ (RunAt.kind = "iter_loop" => Here \in live')
        BY <2>1 DEF RunEnter
      <3>. QED BY <2>1, <3>2, <3>4, <3>6, <3>7 DEF RunEnter
    <2>2. CASE Turning
      <3>1. PICK m \in LoopBodies :
                AtTurn(m) /\ ContinueIn(m, LoopOf(m).body) /\ UNCHANGED heapVars
        BY <2>2 DEF Turning
      <3>2. /\ m \in 2..(Len(run) + 1) /\ InRange(source, run[m - 1])
            /\ LoopOf(m).body \in SubBlocks(StatAt(source, run[m - 1]))
        BY <1>1, <1>2, LoopBodiesProps
      <3>3. Len(run') = m /\ (\A i \in 1..(m - 1) : run'[i] = run[i]) /\ run'[m].pc = 1
        BY <1>1, <1>2, <3>1, <3>2, InProps
      <3>. QED BY <3>1, <3>2, <3>3 DEF heapVars
    <2>. QED BY <2>1, <2>2
  <1>5. /\ \A k \in 1..Len(run) : \A v : Holds(k, v) => Gone(k) \/ v \in live
        /\ \A k \in LoopBodies : Domain(k) \subseteq live
        /\ ~InMain => Parameter \in live
        /\ wild = {}
    BY <1>2 DEF OwnInv
  <1>6. \A k \in 1..Len(run) : run[k].pc \in Nat
    <2>1. \A k \in 1..Len(run) : run[k] \in Frame
      BY <1>3
    <2>. QED BY <2>1 DEF Frame
  <1>7. ASSUME NEW k \in 1..Len(run'), NEW v, Holds(k, v)' PROVE v \in live'
    <2>1. k # m
      BY <1>4, <1>7, NewHoldsNothing
    <2>2. k \in 1..(m - 1) /\ k \in 1..Len(run)
      BY <1>3, <1>4, <2>1
    <2>3. Holds(k, v)
      BY <1>2, <1>4, <1>6, <1>7, <2>2, HoldsKept
    <2>4. ~Gone(k)
      BY <1>1, <1>2, <1>4, <2>1, OnlyOneGone, GoneProps
    <2>. QED BY <1>4, <1>5, <2>2, <2>3, <2>4
  <1>8. ASSUME NEW k \in LoopBodies' PROVE Domain(k)' \subseteq live'
    <2>1. k \in 2..m /\ k - 1 \in 1..(m - 1) /\ run'[k - 1] = run[k - 1]
      <3>1. k \in 2..m
        BY <1>4 DEF LoopBodies
      <3>2. k - 1 \in 1..(m - 1)
        BY <3>1
      <3>. QED BY <1>4, <3>1, <3>2
    <2>2. CASE k \in 2..Len(run)
      <3>1. k \in LoopBodies /\ Domain(k)' = Domain(k)
        BY <1>2, <1>8, <2>1, <2>2, DomainWas
      <3>. QED BY <1>4, <1>5, <3>1
    <2>3. CASE k \notin 2..Len(run)
      <3>1. k = m /\ m = Len(run) + 1 /\ k - 1 = Len(run)
        BY <1>3, <1>4, <2>1, <2>3
      <3>2. m \notin LoopBodies
        BY <1>3, <3>1 DEF LoopBodies
      <3>3. AtRun /\ (RunAt.kind = "iter_loop" => Here \in live')
        BY <1>4, <3>2
      <3>4. RunAt = StatAt(source, run[k - 1]) /\ Here = <<run[k - 1].block, run[k - 1].pc>>
        BY <1>3, <3>1 DEF RunAt, Here
      <3>5. Domain(k)' = IF RunAt.kind = "iter_loop" THEN {Here} ELSE {}
        BY <1>2, <2>1, <3>4 DEF Domain, LoopOf
      <3>. QED BY <3>3, <3>5
    <2>. QED BY <2>2, <2>3
  <1>9. wild' = {} /\ (~InMain' => Parameter \in live')
    BY <1>2, <1>4, <1>5 DEF InMain
  <1>. QED BY <1>7, <1>8, <1>9 DEF OwnInv

LEMMA OwnStep ==
    ASSUME TextIsSound, Inv, OwnInv, [Next]_vars
    PROVE  OwnInv'
  <1>1. CASE Run
    <2>1. Passing \/ RunEnter \/ RunReturn \/ Leaving \/ Turning \/ Ending
      BY <1>1, RunCases DEF Inv
    <2>2. CASE RunReturn
      <3>1. wild' = {}
        BY <2>2, ReturnIsLive DEF RunReturn, Release, Inv, OwnInv
      <3>2. ~CanRun'
        BY <2>2 DEF RunReturn, CanRun
      <3>. QED BY <3>1, <3>2 DEF OwnInv
    <2>. QED BY <1>1, <2>1, <2>2, PassingKeepsOwn, LeavingKeepsOwn, EnteringKeepsOwn
  <1>2. CASE CodeGen
    <2>1. wild' = {} /\ routine' = routine
      BY <1>2 DEF CodeGen, OwnInv
    <2>2. CASE pass' = "run"
      <3>1. run' = <<Enter(Root)>> /\ live' = IF InMain THEN {} ELSE {Parameter}
        BY <1>2, <2>2 DEF CodeGen
      <3>2. Len(run') = 1 /\ run'[1].pc = 1
        BY <3>1 DEF Enter
      <3>3. LoopBodies' = {}
        BY <3>2 DEF LoopBodies
      <3>4. \A k \in 1..Len(run') : \A v : ~Holds(k, v)'
        BY <3>2, NewHoldsNothing
      <3>5. ~InMain' => Parameter \in live'
        BY <2>1, <3>1 DEF InMain
      <3>. QED BY <2>1, <3>3, <3>4, <3>5 DEF OwnInv
    <2>3. CASE pass' # "run"
      BY <2>1, <2>3 DEF OwnInv, CanRun
    <2>. QED BY <2>2, <2>3
  <1>3. CASE Building \/ BreakCheck \/ DeclCheck \/ AddFree \/ Define \/ ReturnCheck
             \/ BreakPrune \/ ScopesToFree
    <2>1. pass # "run" /\ (pass' # pass => pass' # "run") /\ wild' = wild
      BY <1>3
      DEF Building, BreakCheck, DeclCheck, AddFree, Define, ReturnCheck, BreakPrune,
          ScopesToFree, Checks, Rewrites, PassUnchanged, heapVars
    <2>. QED BY <2>1 DEF OwnInv, CanRun
  <1>4. CASE UNCHANGED vars
    BY <1>4 DEF vars, heapVars, OwnInv, CanRun, Gone, Innermost, LoopBodies, RunFrame, Holds,
                Domain, LoopOf, InMain
  <1>. QED BY <1>1, <1>2, <1>3, <1>4 DEF Next, Passes, Done

(***************************************************************************)
(* Nothing is freed twice and nothing is freed that the path to it did not *)
(* allocate, in every subroutine whose declarations are where they should  *)
(* be, whatever breaks, continues and returns it has.                      *)
(***************************************************************************)
THEOREM NothingIsFreedTwice ==
    ASSUME TextIsSound
    PROVE  Spec => []NoWildFree
  <1>1. Init => Inv /\ OwnInv
    BY InvInit DEF Init, OwnInv, CanRun
  <1>2. Inv /\ OwnInv /\ [Next]_vars => (Inv /\ OwnInv)'
    BY InvStep, OwnStep
  <1>3. OwnInv => NoWildFree
    BY DEF OwnInv, NoWildFree
  <1>. QED BY <1>1, <1>2, <1>3, PTL DEF Spec

\* A return leaves what the blocks around it have declared.
LEMMA ReturnKeepsTheRest ==
    ASSUME TextIsSound, Inv, OwnInv, RunReturn, NEW k \in 2..Len(run),
           NEW v \in DeclaredSoFar(k)
    PROVE  v \in live'
  <1>1. /\ PassInv /\ RunInv /\ AtRun /\ CanRun /\ pass = "run" /\ RunAt.kind = "return"
        /\ StackOK(source, run)
    BY DEF Inv, RunReturn, AtRun, CanRun, RunInv
  <1>2. 1 \in 1..Len(run) /\ k \in 1..Len(run) /\ 1 < k
    BY <1>1 DEF StackOK
  <1>3. run[k].block # Root
    <2>1. run[1].block = Root /\ run[1].block < run[k].block
      BY ONLY <1>1, <1>2 DEF StackOK
    <2>. QED BY ONLY <2>1, RootIsBlock DEF Block
  <1>4. Holds(k, v)
    BY DEF DeclaredSoFar, Holds
  <1>5. v \in live
    <2>1. ~IsExit(RunAt)
      BY <1>1 DEF IsExit, ExitKind
    <2>2. ~Gone(k)
      BY <1>1, <2>1, GoneProps
    <2>. QED BY <1>1, <1>2, <1>4, <2>2 DEF OwnInv
  <1>6. v[1] = run[k].block /\ source[v[1]][v[2]].kind = "decl"
    BY <1>1, <1>4, DeclsAndDomains
  <1>7. v \notin Freed(RunFrame.block, RunAt)
    <2>1. v # Parameter
      BY <1>3, <1>6 DEF Parameter
    <2>2. CASE InMain
      BY <1>1, <1>3, <1>6, <2>2, ReturnScopes, FreedProps, SoundText
    <2>3. CASE ~InMain
      BY <1>1, <1>3, <1>6, <2>1, <2>3, ReturnScopes, FreedProps, RootIsBlock
    <2>. QED BY <2>2, <2>3
  <1>8. v \notin UNION {Domain(j) : j \in LoopBodies}
    BY <1>1, <1>6, DeclsAndDomains
  <1>. QED BY <1>5, <1>7, <1>8 DEF RunReturn, Release

(***************************************************************************)
(* What a return releases is the body's own variables, the parameter that  *)
(* was passed to a procedure by value and the domain of every loop it      *)
(* returns from; what blocks nested in the body have declared around the   *)
(* return stays allocated.                                                 *)
(***************************************************************************)
THEOREM ReturnsRelease ==
    ASSUME TextIsSound
    PROVE  Spec => []ReturnReleases
  <1>. DEFINE Body == outcome = "returned" => BodyIsReleased
              Rest == outcome = "returned" =>
                          \A k \in 2..Len(run) : DeclaredSoFar(k) \subseteq live
  <1>1. Init => Inv /\ OwnInv /\ Rest
    BY InvInit DEF Init, OwnInv, CanRun
  <1>2. Inv /\ OwnInv /\ Rest /\ [Next]_vars => (Inv /\ OwnInv /\ Rest)'
    <2>. SUFFICES ASSUME Inv, OwnInv, Rest, [Next]_vars
                  PROVE  Rest'
      BY InvStep, OwnStep
    <2>0. outcome = "returned" => pass = "run" /\ ~CanRun
      BY DEF Inv, PassInv, TypeInv, CanRun
    <2>1. CASE RunReturn
      <3>1. UNCHANGED <<run, source>>
        BY <2>1 DEF RunReturn, RunUnchanged
      <3>2. \A k \in 2..Len(run) : DeclaredSoFar(k)' = DeclaredSoFar(k)
        BY <3>1 DEF DeclaredSoFar
      <3>3. \A k \in 2..Len(run) : \A v \in DeclaredSoFar(k) : v \in live'
        BY <2>1, ReturnKeepsTheRest
      <3>. QED BY <3>1, <3>2, <3>3
    <2>2. CASE Run /\ ~RunReturn
      <3>1. CanRun
        BY <2>2, RunCases DEF Inv
      <3>2. outcome' = outcome
        BY <2>2
        DEF Run, RunSimple, RunDecl, RunFree, RunEnter, RunSkip, RunBreak, RunContinue,
            RunEndOfBlock
      <3>. QED BY <3>1, <3>2 DEF CanRun
    <2>3. CASE Building \/ Passes
      <3>1. pass # "run" /\ outcome' = outcome
        BY <2>3
        DEF Building, Passes, BreakCheck, DeclCheck, AddFree, Define, ReturnCheck, BreakPrune,
            ScopesToFree, CodeGen, Checks, Rewrites, PassUnchanged
      <3>. QED BY <2>0, <3>1
    <2>4. CASE UNCHANGED vars
      BY <2>4 DEF vars, heapVars, DeclaredSoFar
    <2>. QED BY <2>1, <2>2, <2>3, <2>4 DEF Next, Done
  <1>3. Body /\ Rest => ReturnReleases
    BY DEF ReturnReleases
  <1>4. Spec => []Body
    BY ReturnsReleaseTheBody
  <1>. QED BY <1>1, <1>2, <1>3, <1>4, PTL DEF Spec

-----------------------------------------------------------------------------
(* The releases and the declarations in the order of the code generator.   *)

\* The block that owns a block, and where.
OwnedAt(tree, b, c, p) ==
    /\ b \in SubBlocks(tree[c][p]) /\ tree[c][p].kind \notin LeafKind
    /\ c < b

LEMMA OwnerProps ==
    ASSUME NEW tree \in Tree, Shape(tree), NEW b \in ReachableBlocks(tree), b # Root
    PROVE  \E c \in ReachableBlocks(tree) : \E p \in DOMAIN tree[c] : OwnedAt(tree, b, c, p)
  <1>1. PICK c \in ReachableBlocks(tree) : \E p \in DOMAIN tree[c] : b \in SubBlocks(tree[c][p])
    BY ReachableProps DEF Shape
  <1>2. PICK p \in DOMAIN tree[c] : b \in SubBlocks(tree[c][p])
    BY <1>1
  <1>3. c \in Block
    BY ReachableProps DEF Shape
  <1>4. PICK s \in Stat : s = tree[c][p]
    BY <1>3, StatsOfTree
  <1>5. s.kind \notin LeafKind
    BY <1>2, <1>4, StatProps
  <1>6. c < b
    BY <1>2, <1>3 DEF Shape, ParentsFirst
  <1>. QED BY <1>2, <1>4, <1>5, <1>6 DEF OwnedAt

\* The declarations of a block stand before any other statement of it.
LEMMA DeclsBefore ==
    ASSUME NEW tree \in Tree, DeclsFirst(tree), NEW b \in Block,
           NEW j \in DOMAIN tree[b], tree[b][j].kind = "decl",
           NEW i \in DOMAIN tree[b], tree[b][i].kind # "decl"
    PROVE  j < i /\ j \in 1..(i - 1) /\ i \in Nat \ {0} /\ j \in Nat \ {0}
  <1>1. i \in Nat \ {0} /\ j \in Nat \ {0} /\ i # j
    BY StatsOfTree
  <1>2. ~(i < j)
    <2>1. i < j => i \in 1..(j - 1)
      BY <1>1
    <2>. QED BY <2>1 DEF DeclsFirst
  <1>. QED BY <1>1, <1>2

\* The loop around the blocks of a statement, and LoopAround.
LEMMA LoopOfOwned ==
    ASSUME NEW tree \in Tree, ParentsFirst(tree), OneOwner(tree),
           NEW c \in Block, NEW j \in DOMAIN tree[c], NEW b \in SubBlocks(tree[c][j])
    PROVE  Loops(tree)[b] = IF IsLoop(tree[c][j]) THEN {b} ELSE Loops(tree)[c]
  BY LoopAroundProps

LEMMA LoopIsAround ==
    ASSUME NEW tree \in Tree, ParentsFirst(tree), OneOwner(tree),
           NEW b \in Block, NEW c \in Block, Loops(tree)[b] = {c}
    PROVE  LoopAround(tree, b) = c
  BY LoopAroundProps

\* The declarations of the statement's block have been visited with the owner.
LEMMA OwnerVisits ==
    ASSUME NEW tree \in Tree, Shape(tree), DeclsFirst(tree), NEW b \in ReachableBlocks(tree),
           NEW c \in ReachableBlocks(tree), NEW p \in DOMAIN tree[c], OwnedAt(tree, b, c, p)
    PROVE  /\ Before(tree)[c] \subseteq Before(tree)[b]
           /\ \A j \in DOMAIN tree[c] : tree[c][j].kind = "decl" => <<c, j>> \in Before(tree)[b]
           /\ Loops(tree)[b] = IF IsLoop(tree[c][p]) THEN {b} ELSE Loops(tree)[c]
  <1>1. b \in Block /\ c \in Block /\ ParentsFirst(tree) /\ OneOwner(tree)
    BY ReachableProps DEF Shape
  <1>2. PICK o \in Owners(tree, b) : o = <<c, p>> /\ o[1] = c /\ o[2] = p
    <2>1. <<c, p>> \in Owners(tree, b)
      BY <1>1, OwnersDef DEF OwnedAt
    <2>. QED BY <2>1
  <1>3. /\ Before(tree)[c] \subseteq Before(tree)[b]
        /\ \A j \in 1..(p - 1) : <<c, j>> \in Before(tree)[b]
    BY <1>1, <1>2, VisitedBeforeProps
  <1>4. tree[c][p].kind # "decl"
    BY DEF OwnedAt, LeafKind
  <1>5. ASSUME NEW j \in DOMAIN tree[c], tree[c][j].kind = "decl"
        PROVE  <<c, j>> \in Before(tree)[b]
    BY <1>1, <1>3, <1>4, <1>5, DeclsBefore
  <1>6. Loops(tree)[b] = IF IsLoop(tree[c][p]) THEN {b} ELSE Loops(tree)[c]
    BY <1>1, LoopOfOwned DEF OwnedAt
  <1>. QED BY <1>3, <1>5, <1>6

\* The body's declarations have been visited before any other block.
LEMMA BodyIsVisited ==
    ASSUME NEW tree \in Tree, Shape(tree), DeclsFirst(tree),
           NEW b \in ReachableBlocks(tree), b # Root,
           NEW j \in DOMAIN tree[Root], tree[Root][j].kind = "decl"
    PROVE  <<Root, j>> \in Before(tree)[b]
  <1>. DEFINE bad == {d \in ReachableBlocks(tree) \ {Root} : <<Root, j>> \notin Before(tree)[d]}
  <1>1. SUFFICES ASSUME bad # {} PROVE FALSE
    OBVIOUS
  <1>2. bad \in SUBSET Nat
    BY ReachableProps DEF Shape, Block
  <1>3. PICK d \in bad : \A x \in bad : d <= x
    <2>. HIDE DEF bad
    <2>. QED BY <1>1, <1>2, LeastNumber
  <1>4. PICK c \in ReachableBlocks(tree) : \E p \in DOMAIN tree[c] : OwnedAt(tree, d, c, p)
    BY OwnerProps
  <1>5. PICK p \in DOMAIN tree[c] : OwnedAt(tree, d, c, p)
    BY <1>4
  <1>6. /\ Before(tree)[c] \subseteq Before(tree)[d]
        /\ \A i \in DOMAIN tree[c] : tree[c][i].kind = "decl" => <<c, i>> \in Before(tree)[d]
    BY <1>5, OwnerVisits
  <1>7. CASE c = Root
    BY <1>6, <1>7
  <1>8. CASE c # Root
    <2>1. ~(d <= c)
      <3>1. c \in Nat /\ d \in Nat
        BY ReachableProps DEF Shape, Block
      <3>. QED BY <1>5, <3>1 DEF OwnedAt
    <2>2. <<Root, j>> \in Before(tree)[c]
      BY <1>3, <1>8, <2>1
    <2>. QED BY <1>6, <2>2
  <1>. QED BY <1>7, <1>8

\* The loop around a block is the block itself or has been visited up to it.
InLoop(tree, b) ==
    \/ Loops(tree)[b] = {}
    \/ \E c \in Block :
          /\ Loops(tree)[b] = {c}
          /\ b # c => \A j \in DOMAIN tree[c] :
                        tree[c][j].kind = "decl" => <<c, j>> \in Before(tree)[b]

LEMMA LoopIsVisited ==
    ASSUME NEW tree \in Tree, Shape(tree), DeclsFirst(tree), NEW b \in ReachableBlocks(tree)
    PROVE  InLoop(tree, b)
  <1>. DEFINE bad == {d \in ReachableBlocks(tree) : ~InLoop(tree, d)}
  <1>1. SUFFICES ASSUME bad # {} PROVE FALSE
    OBVIOUS
  <1>2. bad \in SUBSET Nat
    BY ReachableProps DEF Shape, Block
  <1>3. PICK d \in bad : \A x \in bad : d <= x
    <2>. HIDE DEF bad
    <2>. QED BY <1>1, <1>2, LeastNumber
  <1>4. d # Root
    BY LoopAroundProps DEF Shape, InLoop
  <1>5. PICK c \in ReachableBlocks(tree) : \E p \in DOMAIN tree[c] : OwnedAt(tree, d, c, p)
    BY <1>4, OwnerProps
  <1>6. PICK p \in DOMAIN tree[c] : OwnedAt(tree, d, c, p)
    BY <1>5
  <1>7. /\ Before(tree)[c] \subseteq Before(tree)[d]
        /\ \A i \in DOMAIN tree[c] : tree[c][i].kind = "decl" => <<c, i>> \in Before(tree)[d]
        /\ Loops(tree)[d] = IF IsLoop(tree[c][p]) THEN {d} ELSE Loops(tree)[c]
    BY <1>6, OwnerVisits
  <1>8. c \in Block /\ d \in Block
    BY ReachableProps DEF Shape
  <1>9. InLoop(tree, c)
    <2>1. ~(d <= c)
      BY <1>6, <1>8 DEF OwnedAt, Block
    <2>. QED BY <1>3, <2>1
  <1>10. InLoop(tree, d)
    <2>1. CASE IsLoop(tree[c][p])
      BY <1>7, <1>8, <2>1 DEF InLoop
    <2>2. CASE ~IsLoop(tree[c][p]) /\ Loops(tree)[c] = {}
      BY <1>7, <2>2 DEF InLoop
    <2>3. CASE ~IsLoop(tree[c][p]) /\ Loops(tree)[c] # {}
      <3>1. PICK e \in Block :
                /\ Loops(tree)[c] = {e}
                /\ c # e => \A j \in DOMAIN tree[e] :
                              tree[e][j].kind = "decl" => <<e, j>> \in Before(tree)[c]
        BY <1>9, <2>3 DEF InLoop
      <3>2. \A j \in DOMAIN tree[e] : tree[e][j].kind = "decl" => <<e, j>> \in Before(tree)[d]
        BY <1>7, <3>1
      <3>. QED BY <1>7, <2>3, <3>1, <3>2 DEF InLoop
    <2>. QED BY <2>1, <2>2, <2>3
  <1>. QED BY <1>10

\* A break or continue has a loop around it.
LEMMA ExitsInLoops ==
    ASSUME NEW tree \in Tree, Shape(tree), DeclsFirst(tree), NoLooseExit(tree),
           NEW b \in ReachableBlocks(tree), NEW i \in DOMAIN tree[b], IsExit(tree[b][i])
    PROVE  Loops(tree)[b] # {}
  <1>1. PICK X \in SUBSET Block : ExitFree(tree, X)
    BY DEF NoLooseExit
  <1>. DEFINE bad == {d \in ReachableBlocks(tree) : Loops(tree)[d] = {} /\ d \notin X}
  <1>2. SUFFICES ASSUME bad # {} PROVE FALSE
    BY <1>1 DEF ExitFree
  <1>3. bad \in SUBSET Nat
    BY ReachableProps DEF Shape, Block
  <1>4. PICK d \in bad : \A x \in bad : d <= x
    <2>. HIDE DEF bad
    <2>. QED BY <1>2, <1>3, LeastNumber
  <1>5. d # Root
    BY <1>1 DEF ExitFree
  <1>6. PICK c \in ReachableBlocks(tree) : \E p \in DOMAIN tree[c] : OwnedAt(tree, d, c, p)
    BY <1>5, OwnerProps
  <1>7. PICK p \in DOMAIN tree[c] : OwnedAt(tree, d, c, p)
    BY <1>6
  <1>8. c \in Block /\ d \in Block
    BY ReachableProps DEF Shape
  <1>9. Loops(tree)[d] = IF IsLoop(tree[c][p]) THEN {d} ELSE Loops(tree)[c]
    BY <1>7, OwnerVisits
  <1>10. ~IsLoop(tree[c][p]) /\ Loops(tree)[c] = {}
    BY <1>9
  <1>11. c \in X
    <2>1. ~(d <= c)
      BY <1>7, <1>8 DEF OwnedAt, Block
    <2>. QED BY <1>4, <1>10, <2>1
  <1>12. PICK s \in Stat : s = tree[c][p]
    BY <1>8, StatsOfTree
  <1>13. s.kind \in {"block", "cond"}
    <2>1. s.kind \notin LeafKind /\ s.kind \in Kind
      BY <1>7, <1>12 DEF OwnedAt, Stat, NodeFields
    <2>. QED BY <1>10, <1>12, <2>1 DEF Kind, IsLoop
  <1>14. d \in X
    BY <1>1, <1>7, <1>11, <1>12, <1>13 DEF ExitFree, OwnedAt
  <1>. QED BY <1>14

LEMMA ReleasesFollow ==
    ASSUME TextIsSound, PassInv, pass = "codegen"
    PROVE  FreesFollowDeclarations
  <1>. DEFINE tree == stat_nodes
  <1>1. /\ tree \in Tree /\ Shape(tree) /\ ParentsFirst(tree) /\ OneOwner(tree)
        /\ DeclsFirst(tree) /\ NoLooseExit(tree) /\ FreesPlaced(tree)
        /\ ReturnsNote(tree, {ReturnScope(InMain)})
    BY SoundText, PassSets DEF PassInv, TypeInv, BuilderTypeOK, TreeInv, Shape
  <1>2. SUFFICES ASSUME NEW b \in ReachableBlocks(tree), NEW i \in DOMAIN tree[b],
                        tree[b][i].kind \in {"free", "return"},
                        NEW v \in Freed(b, tree[b][i]), v # Parameter
                 PROVE  v \in VisitedBefore(tree, b, i)
    BY DEF FreesFollowDeclarations
  <1>. HIDE DEF tree
  <1>3. b \in Block /\ tree[b][i].kind # "decl" /\ i \in Nat \ {0}
    BY <1>1, <1>2, ReachableProps, StatsOfTree
  <1>4. ASSUME NEW j \in DOMAIN tree[b], tree[b][j].kind = "decl"
        PROVE  <<b, j>> \in VisitedBefore(tree, b, i)
    <2>1. j < i /\ j \in Nat \ {0}
      BY <1>1, <1>3, <1>4, DeclsBefore
    <2>. QED BY <1>1, <1>3, <2>1, VisitedBeforeProps
  <1>5. Before(tree)[b] \subseteq VisitedBefore(tree, b, i)
    BY <1>1, <1>3, VisitedBeforeProps
  <1>6. ASSUME NEW c \in Block, v \in to_free[c]
        PROVE  \E j \in DOMAIN tree[c] : v = <<c, j>> /\ tree[c][j].kind = "decl"
    <2>1. IsDeclAt(tree, v) /\ v[1] = c
      BY <1>2, <1>6, FreedProps DEF tree
    <2>. QED BY <2>1 DEF IsDeclAt
  <1>7. Freed(b, tree[b][i]) = to_free[ScopeToFree(tree, b, tree[b][i].scope_id)]
    BY DEF Freed, tree
  <1>8. CASE tree[b][i].kind = "return"
    <2>1. tree[b][i].scope_id = ReturnScope(InMain)
      BY <1>1, <1>3, <1>8 DEF ReturnsNote
    <2>2. \E j \in DOMAIN tree[Root] : v = <<Root, j>> /\ tree[Root][j].kind = "decl"
      <3>1. CASE InMain
        <4>1. v \in to_free[Global]
          BY <1>2, <1>7, <2>1, <3>1
          DEF ReturnScope, ScopeToFree, MainScope, FuncProcScope, CurrentScope, LoopScope
        <4>2. IsDeclAt(tree, v) /\ v[1] = Root
          BY <3>1, <4>1, FreedProps, SoundText DEF tree
        <4>. QED BY <4>2 DEF IsDeclAt
      <3>2. CASE ~InMain
        <4>1. v \in to_free[Root]
          BY <1>2, <1>7, <2>1, <3>2
          DEF ReturnScope, ScopeToFree, MainScope, FuncProcScope, CurrentScope, LoopScope
        <4>. QED BY <1>6, <4>1, RootIsBlock
      <3>. QED BY <3>1, <3>2
    <2>3. PICK j \in DOMAIN tree[Root] : v = <<Root, j>> /\ tree[Root][j].kind = "decl"
      BY <2>2
    <2>4. CASE b = Root
      BY <1>4, <2>3, <2>4
    <2>5. CASE b # Root
      BY <1>1, <1>5, <2>3, <2>5, BodyIsVisited
    <2>. QED BY <2>4, <2>5
  <1>9. CASE tree[b][i].kind = "free" /\ tree[b][i].scope_id = CurrentScope
    <2>1. v \in to_free[b]
      BY <1>2, <1>7, <1>9
      DEF ScopeToFree, MainScope, FuncProcScope, CurrentScope, LoopScope
    <2>. QED BY <1>3, <1>4, <1>6, <2>1
  <1>10. CASE tree[b][i].kind = "free" /\ tree[b][i].scope_id # CurrentScope
    <2>1. tree[b][i].scope_id = LoopScope /\ i < Len(tree[b]) /\ IsExit(tree[b][i + 1])
      BY <1>1, <1>3, <1>10 DEF FreesPlaced
    <2>2. PICK n \in DOMAIN tree[b] : n = i + 1
      <3>1. Len(tree[b]) \in Nat /\ DOMAIN tree[b] = 1..Len(tree[b])
        BY <1>1, <1>3, StatsOfTree
      <3>2. i + 1 \in DOMAIN tree[b]
        BY <1>3, <2>1, <3>1
      <3>. QED BY ONLY <3>2
    <2>3. Loops(tree)[b] # {} /\ InLoop(tree, b)
      BY <1>1, <2>1, <2>2, ExitsInLoops, LoopIsVisited
    <2>4. PICK c \in Block :
              /\ Loops(tree)[b] = {c}
              /\ b # c => \A j \in DOMAIN tree[c] :
                            tree[c][j].kind = "decl" => <<c, j>> \in Before(tree)[b]
      BY <2>3 DEF InLoop
    <2>5. LoopAround(tree, b) = c
      <3>1. Loops(tree)[b] = {c}
        BY <2>4
      <3>. QED BY ONLY <1>1, <1>3, <3>1, LoopIsAround, c \in Block
    <2>6. v \in to_free[c]
      BY <1>2, <1>7, <2>1, <2>5
      DEF ScopeToFree, MainScope, FuncProcScope, CurrentScope, LoopScope
    <2>7. PICK j \in DOMAIN tree[c] : v = <<c, j>> /\ tree[c][j].kind = "decl"
      BY <1>6, <2>6
    <2>. QED BY <1>4, <1>5, <2>4, <2>7
  <1>. QED BY <1>2, <1>8, <1>9, <1>10

(***************************************************************************)
(* The code generator never meets a release whose variable has no value    *)
(* yet, in every subroutine whose declarations are where they should be.   *)
(***************************************************************************)
THEOREM CodeGenSeesDeclarations ==
    ASSUME TextIsSound
    PROVE  Spec => []CodeGenNeverThrows
  <1>1. Init => Inv /\ CodeGenNeverThrows
    BY InvInit DEF Init, CodeGenNeverThrows
  <1>2. Inv /\ CodeGenNeverThrows /\ [Next]_vars => (Inv /\ CodeGenNeverThrows)'
    <2>. SUFFICES ASSUME Inv, CodeGenNeverThrows, [Next]_vars PROVE CodeGenNeverThrows'
      BY InvStep
    <2>1. CASE CodeGen
      <3>1. FreesFollowDeclarations
        BY <2>1, ReleasesFollow DEF CodeGen, Inv
      <3>. QED BY <2>1, <3>1 DEF CodeGen, CodeGenNeverThrows
    <2>2. CASE Building \/ BreakCheck \/ DeclCheck \/ AddFree \/ Define \/ ReturnCheck
               \/ BreakPrune \/ ScopesToFree
      <3>1. pass' # "codegen_crashed"
        BY <2>2
        DEF Building, BreakCheck, DeclCheck, AddFree, Define, ReturnCheck, BreakPrune,
            ScopesToFree, Checks, Rewrites
      <3>. QED BY <3>1 DEF CodeGenNeverThrows
    <2>3. CASE Run
      <3>1. pass' = pass
        BY <2>3, RunCases DEF RunUnchanged, Inv
      <3>. QED BY <3>1 DEF CodeGenNeverThrows
    <2>4. CASE UNCHANGED vars
      BY <2>4 DEF vars, CodeGenNeverThrows
    <2>. QED BY <2>1, <2>2, <2>3, <2>4 DEF Next, Passes, Done
  <1>. QED BY <1>1, <1>2, PTL DEF Spec

=============================================================================
