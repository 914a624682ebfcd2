---------------------------- MODULE PassLemmas ----------------------------
(***************************************************************************)
(* Lemmas the proofs about ControlFlow, Lifetime and CodeGenCFG share, and *)
(* those about CodeGenCFG that no variable and no constant of it is in.    *)
(* First the stacks of frames, the statements, what ASTBuilder makes of    *)
(* the tree and what a step of an execution does to its stack.  Then the   *)
(* functions of PassFunctions: that their recursive parts satisfy the      *)
(* equations that define them, which blocks a walk reaches, and what       *)
(* adding the releases and pruning leave of a tree.  Then the steps of a   *)
(* pruning walk.  Last, what the code generator needs: the operations of   *)
(* one MLIR block, the loops around each block of the tree, the labels     *)
(* that say which loops have their stack pointer saved, and the paths      *)
(* through the tree and from operation to operation.                       *)
(***************************************************************************)
EXTENDS PassFunctions, ASTBuilder, Execution, Paths, Operations,
        FiniteSetTheorems, WellFoundedInduction, TLAPS

-----------------------------------------------------------------------------
(* Statements, frames, steps.                                              *)

\* Lengths are natural numbers: the three cases the proofs split on.
LEMMA OneOrMore == \A n \in Nat : /\ n # 0 => n = 1 \/ n > 1
                                  /\ n > 1 => n # 1 /\ n # 0
  OBVIOUS

\* A sequence is empty exactly when its length is zero.
LEMMA LenProps ==
    ASSUME NEW S, NEW stack \in Seq(S)
    PROVE  Len(stack) \in Nat /\ (stack # <<>> <=> Len(stack) # 0)
  OBVIOUS

\* A nonempty stack has one frame or more than one.
LEMMA OneFrameOrMore ==
    ASSUME NEW S, NEW stack \in Seq(S), stack # <<>>
    PROVE  Len(stack) = 1 \/ Len(stack) > 1
  BY LenProps, OneOrMore

\* Below(stack, k) is a stack of k - 1 frames and agrees with the stack.
LEMMA BelowProps ==
    ASSUME NEW S, NEW stack \in Seq(S), NEW k \in 1..(Len(stack) + 1)
    PROVE  /\ Below(stack, k) \in Seq(S)
           /\ Len(Below(stack, k)) = k - 1
           /\ \A i \in 1..(k - 1) : Below(stack, k)[i] = stack[i]
  BY DEF Below

\* Pushing a frame leaves the others alone.
LEMMA AppendProps ==
    ASSUME NEW S, NEW stack \in Seq(S), NEW f \in S
    PROVE  /\ Append(stack, f) \in Seq(S)
           /\ Len(Append(stack, f)) = Len(stack) + 1
           /\ \A i \in 1..Len(stack) : Append(stack, f)[i] = stack[i]
           /\ Append(stack, f)[Len(stack) + 1] = f
  OBVIOUS

\* Replacing the top frame leaves the others alone.
LEMMA SetTopProps ==
    ASSUME NEW S, NEW stack \in Seq(S), stack # <<>>, NEW f \in S
    PROVE  /\ SetTop(stack, f) \in Seq(S)
           /\ Len(SetTop(stack, f)) = Len(stack)
           /\ \A i \in 1..(Len(stack) - 1) : SetTop(stack, f)[i] = stack[i]
           /\ SetTop(stack, f)[Len(stack)] = f
  BY DEF SetTop

\* The frames the model builds are frames.
LEMMA FrameProps ==
    /\ \A b \in Block : /\ Enter(b) \in Frame
                        /\ Enter(b).block = b /\ Enter(b).pc = 1
    /\ \A f \in Frame : /\ Advance(f) \in Frame
                        /\ Advance(f).block = f.block
                        /\ Advance(f).pc = f.pc + 1
  BY DEF Enter, Advance, Frame

\* A statement's blocks are blocks, and leaves have none.
LEMMA StatProps ==
    ASSUME NEW s \in Stat
    PROVE  /\ SubBlocks(s) \subseteq Block
           /\ s.kind \in LeafKind => SubBlocks(s) = {}
           /\ s.kind \notin LeafKind => s.body \in Block /\ s.body \in SubBlocks(s)
           /\ s.kind # "cond" => SubBlocks(s) \subseteq {s.body}
  BY MaxBlocksAssumption
  DEF Stat, NodeFields, SubBlocks, Block, NoBlock, LeafKind, ExitKind

\* The statements the parser makes are statements.
LEMMA NewStats ==
    /\ \A k \in LeafKind : Leaf(k) \in Stat
    /\ \A k \in Kind \ LeafKind, b \in Block : Owning(k, b) \in Stat
  <1>1. ASSUME NEW k \in LeafKind PROVE Leaf(k) \in Stat
    BY DEF Leaf, Stat, NodeFields, NoBlock, NoScope, Kind
  <1>2. ASSUME NEW k \in Kind \ LeafKind, NEW b \in Block PROVE Owning(k, b) \in Stat
    <2>1. Owning(k, b) = [kind |-> k, body |-> b, alt |-> NoBlock, scope_id |-> NoScope]
      BY DEF Owning, Leaf
    <2>2. b # NoBlock
      BY MaxBlocksAssumption DEF Block, NoBlock
    <2>. QED BY <2>1, <2>2 DEF Stat, NodeFields, NoScope, NoBlock
  <1>. QED BY <1>1, <1>2

\* A conditional with an else block is a statement.
LEMMA WithElse ==
    ASSUME NEW s \in Stat, s.kind = "cond", NEW b \in Block
    PROVE  [s EXCEPT !.alt = b] \in Stat
  BY DEF Stat, NodeFields

\* The body is a block.
LEMMA RootIsBlock == Root \in Block
  BY MaxBlocksAssumption DEF Root, Block

\* The frame a walk is at, when there is one.
LEMMA TopProps ==
    ASSUME NEW S, NEW stack \in Seq(S), stack # <<>>
    PROVE  /\ Top(stack) \in S
           /\ Pop(stack) \in Seq(S)
  <1>1. Len(stack) \in 1..(Len(stack) + 1)
    OBVIOUS
  <1>. QED BY <1>1, BelowProps DEF Top, Pop

\* The statement a frame is at is a statement.
LEMMA StatAtProps ==
    ASSUME NEW tree \in Tree, NEW f \in Frame, InRange(tree, f)
    PROVE  /\ StatAt(tree, f) \in Stat
           /\ f.pc \in 1..Len(tree[f.block])
  BY DEF Tree, Frame, InRange, StatAt

\* Reading the text keeps the tree a tree.
LEMMA BuildTypeOK ==
    ASSUME BuilderTypeOK, Build
    PROVE  BuilderTypeOK'
  <1>. USE DEF BuilderTypeOK
  <1>1. ASSUME open # <<>>, NEW s \in Stat, PushBack(s)
        PROVE  stat_nodes' \in Tree
    <2>1. Top(open) \in Block
      BY <1>1, TopProps
    <2>. QED BY <1>1, <2>1 DEF PushBack, Tree
  <1>2. CASE ReadLeaf
    <2>1. PICK k \in LeafKinds : PushBack(Leaf(k))
      BY <1>2 DEF ReadLeaf
    <2>2. Leaf(k) \in Stat
      BY NewStats, ASTBuilderAssumption
    <2>. QED BY <1>1, <1>2, <2>1, <2>2 DEF ReadLeaf, Reading
  <1>3. CASE OpenBody
    <2>1. PICK k \in LoopKinds \cup {"block", "cond"} : PushBack(Owning(k, used + 1))
      BY <1>3 DEF OpenBody
    <2>2. k \in Kind \ LeafKind
      BY ASTBuilderAssumption DEF Kind, LeafKind, LoopKind, ExitKind
    <2>3. used + 1 \in Block
      BY <1>3, MaxBlocksAssumption DEF OpenBody, Block
    <2>4. Owning(k, used + 1) \in Stat
      BY <2>2, <2>3, NewStats
    <2>5. stat_nodes' \in Tree
      BY <1>1, <1>3, <2>1, <2>4 DEF OpenBody, Reading
    <2>. QED BY <1>3, <2>3, <2>5 DEF OpenBody
  <1>4. CASE OpenElse
    <2>. DEFINE parent == open[Len(open) - 1]
                last   == Len(stat_nodes[parent])
    <2>1. used + 1 \in Block /\ used + 1 # NoBlock
      BY <1>4, MaxBlocksAssumption DEF OpenElse, Block, NoBlock
    <2>2. parent \in Block /\ stat_nodes[parent] \in Seq(Stat)
      BY <1>4 DEF OpenElse, Tree
    <2>3. last \in 1..Len(stat_nodes[parent]) /\ stat_nodes[parent][last].kind = "cond"
      BY <1>4, <2>2 DEF OpenElse
    <2>4. [stat_nodes[parent][last] EXCEPT !.alt = used + 1] \in Stat
      <3>1. stat_nodes[parent][last] \in Stat
        BY <2>2, <2>3
      <3>. QED BY ONLY <2>1, <2>3, <3>1, WithElse
    <2>5. stat_nodes' = [stat_nodes EXCEPT ![parent][last].alt = used + 1]
      BY <1>4 DEF OpenElse
    <2>6. stat_nodes' \in Tree
      BY <2>2, <2>3, <2>4, <2>5 DEF Tree
    <2>7. open' \in Seq(Block)
      <3>1. open # <<>> /\ open' = SetTop(open, used + 1)
        BY <1>4 DEF OpenElse
      <3>. QED BY <3>1, <2>1, SetTopProps
    <2>. QED BY <1>4, <2>1, <2>6, <2>7 DEF OpenElse
  <1>5. CASE CloseBody
    <2>1. open # <<>>
      BY <1>5 DEF CloseBody
    <2>. QED BY <1>5, <2>1, TopProps DEF CloseBody
  <1>6. CASE CloseSubroutine
    <2>1. "return" \in LeafKind
      BY DEF LeafKind
    <2>2. Leaf("return") \in Stat
      BY <2>1, NewStats
    <2>3. open # <<>>
      BY <1>6 DEF CloseSubroutine
    <2>. QED BY <1>1, <1>6, <2>2, <2>3 DEF CloseSubroutine
  <1>. QED BY <1>2, <1>3, <1>4, <1>5, <1>6 DEF Build

\* What the steps an execution is made of do to its stack: afterwards the
\* stack is what was below frame k, its last frame moved on (ContinueAfter)
\* or a new frame on top of it (ContinueIn).
LEMMA RunStepProps ==
    ASSUME run \in Seq(Frame), NEW k \in 2..(Len(run) + 1)
    PROVE  /\ run[k - 1] \in Frame
           /\ ContinueAfter(k) =>
                /\ run' \in Seq(Frame) /\ Len(run') = k - 1
                /\ \A i \in 1..(k - 2) : run'[i] = run[i]
                /\ run'[k - 1] = Advance(run[k - 1])
           /\ \A b \in Block : ContinueIn(k, b) =>
                /\ run' \in Seq(Frame) /\ Len(run') = k
                /\ \A i \in 1..(k - 1) : run'[i] = run[i]
                /\ run'[k] = Enter(b)
  <1>. DEFINE outer == Below(run, k)
  <1>1. /\ outer \in Seq(Frame) /\ Len(outer) = k - 1 /\ outer # <<>>
        /\ \A i \in 1..(k - 1) : outer[i] = run[i]
    BY BelowProps
  <1>2. run[k - 1] \in Frame
    OBVIOUS
  <1>3. Advance(run[k - 1]) \in Frame /\ \A b \in Block : Enter(b) \in Frame
    BY <1>2, FrameProps
  <1>. HIDE DEF outer
  <1>4. ASSUME ContinueAfter(k)
        PROVE  /\ run' \in Seq(Frame) /\ Len(run') = k - 1
               /\ \A i \in 1..(k - 2) : run'[i] = run[i]
               /\ run'[k - 1] = Advance(run[k - 1])
    <2>. DEFINE f == Advance(run[k - 1])
    <2>1. run' = SetTop(outer, f)
      BY <1>4 DEF ContinueAfter, outer
    <2>2. f \in Frame
      BY <1>3
    <2>. HIDE DEF f
    <2>3. /\ SetTop(outer, f) \in Seq(Frame) /\ Len(SetTop(outer, f)) = Len(outer)
          /\ \A i \in 1..(Len(outer) - 1) : SetTop(outer, f)[i] = outer[i]
          /\ SetTop(outer, f)[Len(outer)] = f
      <3>1. outer \in Seq(Frame) /\ outer # <<>>
        BY <1>1
      <3>. QED BY ONLY <3>1, <2>2, SetTopProps
    <2>4. 1..(Len(outer) - 1) = 1..(k - 2) /\ Len(outer) = k - 1
      BY <1>1
    <2>. QED BY <1>1, <2>1, <2>3, <2>4 DEF f
  <1>5. ASSUME NEW b \in Block, ContinueIn(k, b)
        PROVE  /\ run' \in Seq(Frame) /\ Len(run') = k
               /\ \A i \in 1..(k - 1) : run'[i] = run[i]
               /\ run'[k] = Enter(b)
    <2>1. run' = Append(outer, Enter(b))
      BY <1>5 DEF ContinueIn, outer
    <2>2. Enter(b) \in Frame
      BY <1>3
    <2>3. run' \in Seq(Frame) /\ Len(run') = k
      BY <1>1, <2>1, <2>2, AppendProps
    <2>4. \A i \in 1..(k - 1) : run'[i] = run[i]
      BY <1>1, <2>1, <2>2, AppendProps
    <2>5. run'[k] = Enter(b)
      BY <1>1, <2>1, <2>2, AppendProps
    <2>. QED BY <2>3, <2>4, <2>5
  <1>. QED BY <1>2, <1>4, <1>5

-----------------------------------------------------------------------------
(* Least elements, greatest elements, fixed points.                        *)

\* A nonempty set of natural numbers has a least element, and Min is it.
LEMMA LeastNumber ==
    ASSUME NEW S \in SUBSET Nat, S # {}
    PROVE  /\ \E m \in S : \A x \in S : m <= x
           /\ Min(S) \in S /\ \A x \in S : Min(S) <= x
  <1>1. IsWellFoundedOn(OpToRel(<, Nat), Nat)
    BY NatLessThanWellFounded
  <1>2. PICK m \in S : \A x \in S : <<x, m>> \notin OpToRel(<, Nat)
    BY <1>1, WFMin, Zenon
  <1>3. \A x \in S : m <= x
    <2>1. TAKE x \in S
    <2>2. x \in Nat /\ m \in Nat
      BY <1>2
    <2>3. ~(x < m)
      BY <1>2, <2>2 DEF OpToRel
    <2>. QED BY <2>2, <2>3
  <1>4. Min(S) \in S /\ \A x \in S : Min(S) <= x
    BY <1>2, <1>3 DEF Min
  <1>. QED BY <1>2, <1>3, <1>4

\* A nonempty set of blocks has a greatest element.
LEMMA GreatestBlock ==
    ASSUME NEW S \in SUBSET Block, S # {}
    PROVE  \E m \in S : \A x \in S : x <= m
  <1>. DEFINE D == {MaxBlocks - x : x \in S}
  <1>1. D \in SUBSET Nat /\ D # {}
    BY MaxBlocksAssumption DEF Block
  <1>2. PICK d \in D : \A x \in D : d <= x
    BY <1>1, LeastNumber, Zenon
  <1>3. PICK m \in S : d = MaxBlocks - m
    BY <1>2
  <1>4. ASSUME NEW x \in S PROVE x <= m
    <2>1. MaxBlocks - m <= MaxBlocks - x
      BY <1>2, <1>3
    <2>2. x \in 1..MaxBlocks /\ m \in 1..MaxBlocks /\ MaxBlocks \in Nat
      BY MaxBlocksAssumption DEF Block
    <2>. QED BY ONLY <2>1, <2>2
  <1>. QED BY <1>3, <1>4

\* A monotone function on the subsets of a set has a fixed point.
LEMMA FixedPoint ==
    ASSUME NEW S, NEW F \in [SUBSET S -> SUBSET S],
           \A X, Y \in SUBSET S : X \subseteq Y => F[X] \subseteq F[Y]
    PROVE  \E X \in SUBSET S : F[X] = X
  <1>. DEFINE U == UNION {Y \in SUBSET S : Y \subseteq F[Y]}
  <1>1. U \in SUBSET S
    OBVIOUS
  <1>2. \A Y \in SUBSET S : Y \subseteq F[Y] => Y \subseteq U
    OBVIOUS
  <1>3. U \subseteq F[U]
    <2>1. ASSUME NEW x \in U PROVE x \in F[U]
      <3>1. PICK Y \in SUBSET S : Y \subseteq F[Y] /\ x \in Y
        OBVIOUS
      <3>2. F[Y] \subseteq F[U]
        BY <1>1, <1>2, <3>1
      <3>. QED BY <3>1, <3>2
    <2>. QED BY <2>1
  <1>4. F[U] \in SUBSET S
    BY <1>1
  <1>5. F[U] \subseteq F[F[U]]
    BY <1>1, <1>3, <1>4
  <1>6. F[U] \subseteq U
    BY <1>2, <1>4, <1>5
  <1>7. F[U] = U
    BY <1>3, <1>6
  <1>. QED BY <1>1, <1>7

-----------------------------------------------------------------------------
(* Which blocks a walk reaches.                                            *)

\* A statement's position in the tree, and the blocks of the first statements
\* of a block.
Kids(tree, cut, b) == UNION {SubBlocks(tree[b][i]) : i \in 1..cut[b]}

\* A walk that stops inside the lists, or at their ends.
CutOf(tree, cut) == cut \in [Block -> Nat] /\ \A b \in Block : cut[b] <= Len(tree[b])

\* The blocks of the first statements are blocks.
LEMMA KidsAreBlocks ==
    ASSUME NEW tree \in Tree, NEW cut, CutOf(tree, cut), NEW b \in Block
    PROVE  Kids(tree, cut, b) \subseteq Block
  <1>1. ASSUME NEW i \in 1..cut[b] PROVE SubBlocks(tree[b][i]) \subseteq Block
    <2>1. i \in 1..Len(tree[b]) /\ tree[b] \in Seq(Stat)
      BY DEF CutOf, Tree
    <2>2. tree[b][i] \in Stat
      BY ONLY <2>1
    <2>. QED BY <2>2, StatProps
  <1>. QED BY <1>1 DEF Kids

\* WalkedFrom satisfies the equation of its definition.
LEMMA WalkedFromDef ==
    ASSUME NEW tree \in Tree, NEW cut, CutOf(tree, cut)
    PROVE  \A b \in Block : WalkedFrom(tree, cut, b) =
              {b} \cup UNION {WalkedFrom(tree, cut, c) : c \in Kids(tree, cut, b)}
  <1>. DEFINE S == Block \X Block
              F == [X \in SUBSET S |->
                      {p \in S : p[1] = p[2] \/
                                 \E c \in Kids(tree, cut, p[1]) : <<c, p[2]>> \in X}]
              Of(f) == [b \in Block |-> {b} \cup UNION {f[c] : c \in Kids(tree, cut, b)}]
              below == CHOOSE f : f = Of(f)
  <1>1. \A b \in Block : Kids(tree, cut, b) \subseteq Block
    BY KidsAreBlocks
  <1>2. F \in [SUBSET S -> SUBSET S]
    OBVIOUS
  <1>3. \A X, Y \in SUBSET S : X \subseteq Y => F[X] \subseteq F[Y]
    OBVIOUS
  <1>4. PICK X \in SUBSET S : F[X] = X
    <2>. HIDE DEF S, F
    <2>. QED BY <1>2, <1>3, FixedPoint
  <1>. DEFINE f == [b \in Block |-> {c \in Block : <<b, c>> \in X}]
  <1>5. \A b, x \in Block : <<b, x>> \in X <=>
            x = b \/ \E c \in Kids(tree, cut, b) : <<c, x>> \in X
    BY <1>4
  <1>6. f = Of(f)
    <2>1. ASSUME NEW b \in Block
          PROVE  f[b] = {b} \cup UNION {f[c] : c \in Kids(tree, cut, b)}
      <3>1. \A c \in Kids(tree, cut, b) : c \in Block
        BY <1>1
      <3>2. \A c \in Block : f[c] = {x \in Block : <<c, x>> \in X}
        OBVIOUS
      <3>. HIDE DEF f
      <3>3. ASSUME NEW x \in f[b] PROVE x = b \/ \E c \in Kids(tree, cut, b) : x \in f[c]
        BY <1>5, <3>1, <3>2
      <3>4. ASSUME NEW c \in Kids(tree, cut, b), NEW x \in f[c] PROVE x \in f[b]
        BY <1>5, <3>1, <3>2
      <3>5. b \in f[b]
        BY <1>5, <3>2
      <3>. QED BY ONLY <3>3, <3>4, <3>5
    <2>. QED BY <2>1
  <1>. HIDE DEF f
  <1>7. below = Of(below)
    <2>. HIDE DEF Of
    <2>. QED BY <1>6
  <1>8. \A b \in Block : WalkedFrom(tree, cut, b) = below[b]
    BY DEF WalkedFrom, Kids
  <1>. HIDE DEF below
  <1>. QED BY <1>1, <1>7, <1>8

\* ASTBuilder numbers the blocks as it opens them.
ParentsFirst(tree) ==
    \A b \in Block : \A i \in DOMAIN tree[b] : \A c \in SubBlocks(tree[b][i]) : b < c

\* No two statements own the same block.
OneOwner(tree) ==
    \A b1, b2 \in Block : \A i \in DOMAIN tree[b1] : \A j \in DOMAIN tree[b2] :
        SubBlocks(tree[b1][i]) \cap SubBlocks(tree[b2][j]) # {} => b1 = b2 /\ i = j

\* The blocks under a block have greater numbers.
LEMMA KidsAreGreater ==
    ASSUME NEW tree \in Tree, ParentsFirst(tree), NEW cut, CutOf(tree, cut),
           NEW b \in Block, NEW c \in Kids(tree, cut, b)
    PROVE  c \in Block /\ b < c
  <1>1. c \in Block
    BY KidsAreBlocks
  <1>2. PICK i \in 1..cut[b] : c \in SubBlocks(tree[b][i])
    BY DEF Kids
  <1>3. i \in DOMAIN tree[b]
    BY DEF CutOf, Tree
  <1>. QED BY <1>1, <1>2, <1>3 DEF ParentsFirst

\* What a walk from block b reaches: b, with a block all the blocks of its
\* first statements, and nothing that is not reached that way.
ReachedWell(tree, cut, b) ==
    LET W == WalkedFrom(tree, cut, b)
    IN /\ W \subseteq Block
       /\ b \in W
       /\ \A x \in W : Kids(tree, cut, x) \subseteq W
       /\ \A x \in W \ {b} : \E c \in W : x \in Kids(tree, cut, c)

LEMMA WalkedFromProps ==
    ASSUME NEW tree \in Tree, ParentsFirst(tree), NEW cut, CutOf(tree, cut)
    PROVE  \A b \in Block : ReachedWell(tree, cut, b)
  <1>. DEFINE W(b) == WalkedFrom(tree, cut, b)
              Bad  == {b \in Block : ~ReachedWell(tree, cut, b)}
  <1>1. ASSUME NEW b \in Block, \A c \in Kids(tree, cut, b) : ReachedWell(tree, cut, c)
        PROVE  ReachedWell(tree, cut, b)
    <2>1. W(b) = {b} \cup UNION {W(c) : c \in Kids(tree, cut, b)}
      BY WalkedFromDef
    <2>2. \A c \in Kids(tree, cut, b) :
             /\ W(c) \subseteq Block /\ c \in W(c)
             /\ \A x \in W(c) : Kids(tree, cut, x) \subseteq W(c)
             /\ \A x \in W(c) \ {c} : \E d \in W(c) : x \in Kids(tree, cut, d)
      BY <1>1 DEF ReachedWell
    <2>. HIDE DEF W
    <2>3. b \in W(b) /\ W(b) \subseteq Block
      BY <2>1, <2>2
    <2>4. \A c \in Kids(tree, cut, b) : W(c) \subseteq W(b)
      BY <2>1
    <2>5. ASSUME NEW x \in W(b) PROVE Kids(tree, cut, x) \subseteq W(b)
      <3>1. CASE x = b
        BY <2>2, <2>4, <3>1
      <3>2. CASE x # b
        <4>1. PICK c \in Kids(tree, cut, b) : x \in W(c)
          BY <2>1, <3>2
        <4>. QED BY <2>2, <2>4, <4>1
      <3>. QED BY <3>1, <3>2
    <2>6. ASSUME NEW x \in W(b) \ {b} PROVE \E d \in W(b) : x \in Kids(tree, cut, d)
      <3>1. PICK c \in Kids(tree, cut, b) : x \in W(c)
        BY <2>1
      <3>2. CASE x = c
        BY <2>3, <3>2
      <3>3. CASE x # c
        BY <2>2, <2>4, <3>1, <3>3
      <3>. QED BY <3>2, <3>3
    <2>. QED BY <2>3, <2>5, <2>6 DEF ReachedWell, W
  <1>2. Bad = {}
    <2>1. SUFFICES ASSUME Bad # {} PROVE FALSE
      OBVIOUS
    <2>2. Bad \in SUBSET Block
      OBVIOUS
    <2>3. PICK b \in Bad : \A x \in Bad : x <= b
      <3>. HIDE DEF Bad
      <3>. QED BY <2>1, <2>2, GreatestBlock
    <2>4. ASSUME NEW c \in Kids(tree, cut, b) PROVE ReachedWell(tree, cut, c)
      <3>1. c \in Block /\ b < c
        BY KidsAreGreater
      <3>2. c \notin Bad
        BY <2>3, <3>1 DEF Block
      <3>. QED BY <3>1, <3>2
    <2>. QED BY <1>1, <2>3, <2>4
  <1>. QED BY <1>2

-----------------------------------------------------------------------------
(* The verdicts of the walks.                                              *)

\* The statements of a tree are statements.
LEMMA StatsOfTree ==
    ASSUME NEW tree \in Tree, NEW b \in Block
    PROVE  /\ Len(tree[b]) \in Nat /\ DOMAIN tree[b] = 1..Len(tree[b])
           /\ tree[b] \in Seq(Stat)
           /\ \A i \in DOMAIN tree[b] : tree[b][i] \in Stat /\ i \in Nat \ {0}
  <1>1. tree[b] \in Seq(Stat)
    BY DEF Tree
  <1>. QED BY ONLY <1>1

\* Of a nested block or a conditional, the blocks are in the tree.
LEMMA BodiesAreBlocks ==
    ASSUME NEW s \in Stat, s.kind \in {"block", "cond"}
    PROVE  /\ s.body \in Block
           /\ s.alt # NoBlock => s.alt \in Block
           /\ s.kind = "block" => SubBlocks(s) = {s.body}
           /\ s.alt # NoBlock => SubBlocks(s) = {s.body, s.alt}
  <1>1. s.kind \notin LeafKind
    BY DEF LeafKind, ExitKind
  <1>2. s.body \in Block /\ s.alt \in Block \cup {NoBlock} /\ (s.kind # "cond" => s.alt = NoBlock)
    BY <1>1, StatProps DEF Stat, NodeFields
  <1>3. NoBlock \notin Block
    BY MaxBlocksAssumption DEF NoBlock, Block
  <1>. QED BY ONLY <1>1, <1>2, <1>3, "block" # "cond" DEF SubBlocks

\* A block returns when a statement of it returns surely.
LEMMA ReturningDef ==
    ASSUME NEW tree \in Tree
    PROVE  /\ Returning(tree) \subseteq Block
           /\ \A b \in Block : b \in Returning(tree) <=>
                 \E i \in DOMAIN tree[b] : ReturnsSurely(tree[b][i], Returning(tree))
  <1>. DEFINE F == [X \in SUBSET Block |->
                      {b \in Block : \E i \in DOMAIN tree[b] : ReturnsSurely(tree[b][i], X)}]
              Does(s, f) == \/ s.kind = "return"
                            \/ s.kind = "block" /\ f[s.body]
                            \/ s.kind = "cond" /\ s.alt # NoBlock /\ f[s.body] /\ f[s.alt]
              Of(f) == [b \in Block |-> \E i \in DOMAIN tree[b] : Does(tree[b][i], f)]
              returns == CHOOSE f : f = Of(f)
  <1>1. F \in [SUBSET Block -> SUBSET Block]
    OBVIOUS
  <1>2. \A X, Y \in SUBSET Block : X \subseteq Y => F[X] \subseteq F[Y]
    BY DEF ReturnsSurely
  <1>3. PICK X \in SUBSET Block : F[X] = X
    <2>. HIDE DEF F
    <2>. QED BY <1>1, <1>2, FixedPoint
  <1>4. ASSUME NEW s \in Stat, NEW f, NEW Z \in SUBSET Block,
               \A b \in Block : f[b] <=> b \in Z
        PROVE  Does(s, f) <=> ReturnsSurely(s, Z)
    <2>1. CASE s.kind = "block"
      BY <1>4, <2>1, BodiesAreBlocks DEF ReturnsSurely
    <2>2. CASE s.kind = "cond" /\ s.alt # NoBlock
      BY <1>4, <2>2, BodiesAreBlocks DEF ReturnsSurely
    <2>3. CASE ~(s.kind = "block" \/ (s.kind = "cond" /\ s.alt # NoBlock))
      BY <2>3 DEF ReturnsSurely
    <2>. QED BY <2>1, <2>2, <2>3
  <1>. HIDE DEF Does
  <1>. DEFINE f == [b \in Block |-> b \in X]
  <1>5. f = Of(f)
    <2>1. \A b \in Block : f[b] <=> b \in X
      OBVIOUS
    <2>2. ASSUME NEW b \in Block PROVE f[b] = \E i \in DOMAIN tree[b] : Does(tree[b][i], f)
      <3>1. b \in X <=> \E i \in DOMAIN tree[b] : ReturnsSurely(tree[b][i], X)
        BY <1>3
      <3>2. \A i \in DOMAIN tree[b] : Does(tree[b][i], f) <=> ReturnsSurely(tree[b][i], X)
        <4>. HIDE DEF f
        <4>. QED BY <1>4, <2>1, StatsOfTree
      <3>3. f[b] = (b \in X)
        OBVIOUS
      <3>. HIDE DEF f
      <3>. DEFINE does == \E i \in DOMAIN tree[b] : Does(tree[b][i], f)
      <3>4. does \in BOOLEAN
        OBVIOUS
      <3>5. b \in X <=> does
        BY <3>1, <3>2
      <3>6. f[b] = does
        <4>. HIDE DEF does
        <4>. QED BY ONLY <3>3, <3>4, <3>5
      <3>. QED BY ONLY <3>6
    <2>. QED BY <2>2
  <1>6. returns = Of(returns)
    <2>. HIDE DEF f, Of
    <2>. QED BY <1>5
  <1>7. Returning(tree) = {b \in Block : returns[b]}
    BY DEF Returning, Does
  <1>8. \A b \in Block : returns[b] <=> \E i \in DOMAIN tree[b] : Does(tree[b][i], returns)
    <2>. HIDE DEF returns
    <2>. QED BY <1>6
  <1>. HIDE DEF returns
  <1>9. \A b \in Block : returns[b] <=> b \in Returning(tree)
    BY <1>7
  <1>10. \A b \in Block : \A i \in DOMAIN tree[b] :
            Does(tree[b][i], returns) <=> ReturnsSurely(tree[b][i], Returning(tree))
    BY <1>4, <1>7, <1>9, StatsOfTree
  <1>. QED BY <1>7, <1>8, <1>9, <1>10

(***************************************************************************)
(* No break or continue is outside a loop: there are blocks, the body of   *)
(* the subroutine among them, that have none and own no others but bodies  *)
(* of loops.                                                               *)
(***************************************************************************)
ExitFree(tree, X) ==
    /\ Root \in X
    /\ \A b \in X : \A i \in DOMAIN tree[b] :
          /\ ~IsExit(tree[b][i])
          /\ tree[b][i].kind \in {"block", "cond"} => SubBlocks(tree[b][i]) \subseteq X

NoLooseExit(tree) == \E X \in SUBSET Block : ExitFree(tree, X)

\* The blocks a break or continue gets out of.
LooseIn(tree, Z) ==
    \A b \in Block : b \in Z <=>
        \E i \in DOMAIN tree[b] :
            \/ IsExit(tree[b][i])
            \/ tree[b][i].kind \in {"block", "cond"} /\ SubBlocks(tree[b][i]) \cap Z # {}

LEMMA LooseDef ==
    ASSUME NEW tree \in Tree
    PROVE  \E Z \in SUBSET Block : LooseIn(tree, Z) /\ (HasLooseExit(tree) <=> Root \in Z)
  <1>. DEFINE Of(f) == [b \in Block |-> \E i \in DOMAIN tree[b] :
                          \/ IsExit(tree[b][i])
                          \/ tree[b][i].kind \in {"block", "cond"} /\
                             \E c \in SubBlocks(tree[b][i]) : f[c]]
              F == [X \in SUBSET Block |-> {b \in Block : \E i \in DOMAIN tree[b] :
                          \/ IsExit(tree[b][i])
                          \/ tree[b][i].kind \in {"block", "cond"} /\
                             \E c \in SubBlocks(tree[b][i]) : c \in X}]
              loose == CHOOSE f : f = Of(f)
  <1>1. F \in [SUBSET Block -> SUBSET Block]
    OBVIOUS
  <1>2. \A X, Y \in SUBSET Block : X \subseteq Y => F[X] \subseteq F[Y]
    OBVIOUS
  <1>3. PICK X \in SUBSET Block : F[X] = X
    <2>. HIDE DEF F
    <2>. QED BY <1>1, <1>2, FixedPoint
  <1>. DEFINE f == [b \in Block |-> b \in X]
  <1>4. \A b \in Block : \A i \in DOMAIN tree[b] : SubBlocks(tree[b][i]) \subseteq Block
    BY StatsOfTree, StatProps
  <1>5. f = Of(f)
    <2>1. ASSUME NEW b \in Block PROVE f[b] = Of(f)[b]
      <3>. DEFINE is == \E i \in DOMAIN tree[b] :
                          \/ IsExit(tree[b][i])
                          \/ tree[b][i].kind \in {"block", "cond"} /\
                             \E c \in SubBlocks(tree[b][i]) : f[c]
      <3>1. is \in BOOLEAN
        OBVIOUS
      <3>2. b \in X <=> \E i \in DOMAIN tree[b] :
                          \/ IsExit(tree[b][i])
                          \/ tree[b][i].kind \in {"block", "cond"} /\
                             \E c \in SubBlocks(tree[b][i]) : c \in X
        BY <1>3
      <3>3. \A c \in Block : f[c] = (c \in X)
        OBVIOUS
      <3>. HIDE DEF f
      <3>4. b \in X <=> is
        BY <1>4, <3>2, <3>3
      <3>5. Of(f)[b] = is
        OBVIOUS
      <3>. HIDE DEF is, Of
      <3>. QED BY ONLY <3>1, <3>3, <3>4, <3>5
    <2>. QED BY <2>1
  <1>6. loose = Of(loose)
    <2>. HIDE DEF f, Of
    <2>. QED BY <1>5
  <1>7. HasLooseExit(tree) <=> loose[Root]
    BY DEF HasLooseExit
  <1>8. \A b \in Block : loose[b] <=> \E i \in DOMAIN tree[b] :
                          \/ IsExit(tree[b][i])
                          \/ tree[b][i].kind \in {"block", "cond"} /\
                             \E c \in SubBlocks(tree[b][i]) : loose[c]
    <2>. HIDE DEF loose
    <2>. QED BY <1>6
  <1>. HIDE DEF loose
  <1>. DEFINE Z == {b \in Block : loose[b]}
  <1>9. \A b \in Block : \A i \in DOMAIN tree[b] :
            SubBlocks(tree[b][i]) \cap Z # {} <=> \E c \in SubBlocks(tree[b][i]) : loose[c]
    BY <1>4
  <1>10. LooseIn(tree, Z)
    BY <1>8, <1>9 DEF LooseIn
  <1>11. HasLooseExit(tree) <=> Root \in Z
    BY <1>7, RootIsBlock
  <1>. QED BY <1>10, <1>11

LEMMA NoLooseExitIsAccepted ==
    ASSUME NEW tree \in Tree, ~HasLooseExit(tree)
    PROVE  NoLooseExit(tree)
  <1>1. PICK Z \in SUBSET Block : LooseIn(tree, Z) /\ Root \notin Z
    BY LooseDef
  <1>2. \A b \in Block : \A i \in DOMAIN tree[b] : SubBlocks(tree[b][i]) \subseteq Block
    BY StatsOfTree, StatProps
  <1>3. ExitFree(tree, Block \ Z)
    BY <1>1, <1>2, RootIsBlock DEF ExitFree, LooseIn
  <1>. QED BY <1>3 DEF NoLooseExit

\* In a tree whose blocks own later ones the converse holds as well.
LEMMA ExitFreeIsAccepted ==
    ASSUME NEW tree \in Tree, ParentsFirst(tree), NEW X \in SUBSET Block, ExitFree(tree, X)
    PROVE  ~HasLooseExit(tree)
  <1>1. PICK Z \in SUBSET Block : LooseIn(tree, Z) /\ (HasLooseExit(tree) <=> Root \in Z)
    BY LooseDef
  <1>2. X \cap Z = {}
    <2>1. SUFFICES ASSUME X \cap Z # {} PROVE FALSE
      OBVIOUS
    <2>2. PICK b \in X \cap Z : \A x \in X \cap Z : x <= b
      BY <2>1, GreatestBlock
    <2>3. PICK i \in DOMAIN tree[b] :
             tree[b][i].kind \in {"block", "cond"} /\ SubBlocks(tree[b][i]) \cap Z # {}
      BY <1>1 DEF LooseIn, ExitFree
    <2>4. PICK c \in SubBlocks(tree[b][i]) : c \in Z
      BY <2>3
    <2>5. c \in X /\ b < c /\ b \in Block /\ c \in Block
      BY <2>3, <2>4 DEF ExitFree, ParentsFirst
    <2>. QED BY <2>2, <2>4, <2>5 DEF Block
  <1>. QED BY <1>1, <1>2 DEF ExitFree

-----------------------------------------------------------------------------
(* The scopes a release reaches.                                           *)

\* The position of the statement that owns a block.
LEMMA OwnersDef ==
    ASSUME NEW tree \in Tree
    PROVE  /\ \A b, c \in Block : \A j \in DOMAIN tree[c] :
                 b \in SubBlocks(tree[c][j]) => <<c, j>> \in Owners(tree, b)
           /\ \A b \in Block : \A o \in Owners(tree, b) :
                 /\ o[1] \in Block /\ o[2] \in DOMAIN tree[o[1]] /\ o = <<o[1], o[2]>>
                 /\ b \in SubBlocks(tree[o[1]][o[2]])
           /\ ParentsFirst(tree) => Owners(tree, Root) = {}
           /\ OneOwner(tree) => \A b, c \in Block : \A j \in DOMAIN tree[c] :
                 b \in SubBlocks(tree[c][j]) => Owners(tree, b) = {<<c, j>>}
  <1>1. \A b, c \in Block : \A j \in DOMAIN tree[c] :
            b \in SubBlocks(tree[c][j]) => <<c, j>> \in Owners(tree, b)
    BY DEF Owners
  <1>2. \A b \in Block : \A o \in Owners(tree, b) :
            /\ o[1] \in Block /\ o[2] \in DOMAIN tree[o[1]] /\ o = <<o[1], o[2]>>
            /\ b \in SubBlocks(tree[o[1]][o[2]])
    BY DEF Owners
  <1>3. ASSUME ParentsFirst(tree) PROVE Owners(tree, Root) = {}
    <2>1. \A c \in Block : ~(c < Root)
      BY DEF Block, Root
    <2>. QED BY <1>2, <1>3, <2>1, RootIsBlock DEF ParentsFirst
  <1>4. ASSUME OneOwner(tree), NEW b \in Block, NEW c \in Block, NEW j \in DOMAIN tree[c],
               b \in SubBlocks(tree[c][j])
        PROVE  Owners(tree, b) = {<<c, j>>}
    BY <1>1, <1>2, <1>4 DEF OneOwner
  <1>. QED BY <1>1, <1>2, <1>3, <1>4

\* The bodies of the innermost loops around the blocks, as LoopAround has it.
Loops(tree) ==
    CHOOSE loop : loop = [c \in Block |->
        UNION {IF IsLoop(tree[o[1]][o[2]]) THEN {c} ELSE loop[o[1]] : o \in Owners(tree, c)}]

\* LoopAround satisfies the equation of its definition.
LEMMA LoopsDef ==
    ASSUME NEW tree \in Tree
    PROVE  /\ \A b \in Block : \A x : x \in Loops(tree)[b] <=>
                 \E o \in Owners(tree, b) :
                    \/ IsLoop(tree[o[1]][o[2]]) /\ x = b
                    \/ ~IsLoop(tree[o[1]][o[2]]) /\ x \in Loops(tree)[o[1]]
           /\ \A b \in Block : LoopAround(tree, b) = CHOOSE c \in Block : c \in Loops(tree)[b]
  <1>. DEFINE Is(o) == IsLoop(tree[o[1]][o[2]])
              S == Block \X Block
              F == [X \in SUBSET S |-> {p \in S : \E o \in Owners(tree, p[1]) :
                       (Is(o) /\ p[2] = p[1]) \/ (~Is(o) /\ <<o[1], p[2]>> \in X)}]
              Of(f) == [c \in Block |-> UNION {IF Is(o) THEN {c} ELSE f[o[1]] :
                                                o \in Owners(tree, c)}]
              loop == CHOOSE f : f = Of(f)
  <1>1. F \in [SUBSET S -> SUBSET S]
    OBVIOUS
  <1>2. \A X, Y \in SUBSET S : X \subseteq Y => F[X] \subseteq F[Y]
    OBVIOUS
  <1>3. PICK X \in SUBSET S : F[X] = X
    <2>. HIDE DEF S, F
    <2>. QED BY <1>1, <1>2, FixedPoint
  <1>. DEFINE f == [b \in Block |-> {c \in Block : <<b, c>> \in X}]
  <1>4. \A b, x \in Block : <<b, x>> \in X <=>
            \E o \in Owners(tree, b) : (Is(o) /\ x = b) \/ (~Is(o) /\ <<o[1], x>> \in X)
    BY <1>3
  <1>. HIDE DEF Is
  <1>5. f = Of(f)
    <2>1. ASSUME NEW b \in Block PROVE f[b] = Of(f)[b]
      <3>1. \A o \in Owners(tree, b) : o[1] \in Block
        BY OwnersDef
      <3>2. \A c \in Block : f[c] = {x \in Block : <<c, x>> \in X}
        OBVIOUS
      <3>. HIDE DEF f
      <3>3. Of(f)[b] = UNION {IF Is(o) THEN {b} ELSE f[o[1]] : o \in Owners(tree, b)}
        OBVIOUS
      <3>. HIDE DEF Of
      <3>4. ASSUME NEW x \in f[b] PROVE x \in Of(f)[b]
        <4>0. x \in Block /\ <<b, x>> \in X
          BY <3>2
        <4>1. PICK o \in Owners(tree, b) : (Is(o) /\ x = b) \/ (~Is(o) /\ <<o[1], x>> \in X)
          BY <1>4, <4>0, Zenon
        <4>2. x \in (IF Is(o) THEN {b} ELSE f[o[1]])
          BY <3>1, <3>2, <4>1
        <4>. QED BY <3>3, <4>2
      <3>5. ASSUME NEW x \in Of(f)[b] PROVE x \in f[b]
        <4>1. PICK o \in Owners(tree, b) : x \in (IF Is(o) THEN {b} ELSE f[o[1]])
          BY <3>3
        <4>2. x \in Block /\ ((Is(o) /\ x = b) \/ (~Is(o) /\ <<o[1], x>> \in X))
          BY <3>1, <3>2, <4>1
        <4>3. <<b, x>> \in X
          BY <1>4, <4>2, Zenon
        <4>. QED BY <3>2, <4>2, <4>3
      <3>. QED BY <3>4, <3>5
    <2>. QED BY <2>1
  <1>6. loop = Of(loop)
    <2>. HIDE DEF f, Of
    <2>. QED BY <1>5
  <1>7. Loops(tree) = loop
    BY DEF Loops, Is
  <1>8. \A b \in Block : loop[b] = UNION {IF Is(o) THEN {b} ELSE loop[o[1]] : o \in Owners(tree, b)}
    <2>. HIDE DEF loop
    <2>. QED BY <1>6
  <1>9. \A b \in Block : LoopAround(tree, b) = CHOOSE c \in Block : c \in loop[b]
    BY DEF LoopAround, Is
  <1>. HIDE DEF loop
  <1>10. ASSUME NEW b \in Block, NEW x
         PROVE  x \in loop[b] <=>
                   \E o \in Owners(tree, b) : (Is(o) /\ x = b) \/ (~Is(o) /\ x \in loop[o[1]])
    BY <1>8
  <1>. QED BY <1>7, <1>9, <1>10 DEF Is

\* In a tree whose blocks have one owner, the loop around a block is the block
\* or the loop around its owner's block; there is none around the body.
LEMMA LoopAroundProps ==
    ASSUME NEW tree \in Tree, ParentsFirst(tree), OneOwner(tree)
    PROVE  /\ Loops(tree)[Root] = {}
           /\ \A c \in Block : \A j \in DOMAIN tree[c] : \A b \in SubBlocks(tree[c][j]) :
                Loops(tree)[b] = IF IsLoop(tree[c][j]) THEN {b} ELSE Loops(tree)[c]
           /\ \A b, c \in Block : Loops(tree)[b] = {c} => LoopAround(tree, b) = c
  <1>1. Loops(tree)[Root] = {}
    BY LoopsDef, OwnersDef, RootIsBlock
  <1>2. ASSUME NEW c \in Block, NEW j \in DOMAIN tree[c], NEW b \in SubBlocks(tree[c][j])
        PROVE  Loops(tree)[b] = IF IsLoop(tree[c][j]) THEN {b} ELSE Loops(tree)[c]
    <2>1. b \in Block
      BY StatsOfTree, StatProps
    <2>2. Owners(tree, b) = {<<c, j>>}
      BY <2>1, OwnersDef
    <2>. DEFINE o == <<c, j>>
    <2>3. o[1] = c /\ o[2] = j
      OBVIOUS
    <2>4. \A x : x \in Loops(tree)[b] <=>
                    \/ IsLoop(tree[o[1]][o[2]]) /\ x = b
                    \/ ~IsLoop(tree[o[1]][o[2]]) /\ x \in Loops(tree)[o[1]]
      <3>. HIDE DEF o
      <3>. QED BY <2>1, <2>2, LoopsDef DEF o
    <2>. HIDE DEF o
    <2>5. \A x : x \in Loops(tree)[b] <=>
                    \/ IsLoop(tree[c][j]) /\ x = b
                    \/ ~IsLoop(tree[c][j]) /\ x \in Loops(tree)[c]
      BY <2>3, <2>4
    <2>6. CASE IsLoop(tree[c][j])
      BY <2>5, <2>6
    <2>7. CASE ~IsLoop(tree[c][j])
      BY <2>5, <2>7
    <2>. QED BY <2>6, <2>7
  <1>3. ASSUME NEW b \in Block, NEW c \in Block, Loops(tree)[b] = {c}
        PROVE  LoopAround(tree, b) = c
    BY <1>3, LoopsDef
  <1>. QED BY <1>1, <1>2, <1>3

(***************************************************************************)
(* in_nested_scope at a statement: never in the body of the subroutine;    *)
(* always in a loop's body and in an else block, when only declarations    *)
(* are before the statement.                                               *)
(***************************************************************************)
LEMMA InNestedScopeProps ==
    ASSUME NEW tree \in Tree, ParentsFirst(tree), NEW b \in Block, NEW i \in DOMAIN tree[b]
    PROVE  /\ b = Root => ~InNestedScope(tree, b, i)
           /\ (\A j \in 1..(i - 1) : tree[b][j].kind = "decl") =>
                \A o \in Owners(tree, b) :
                  IsLoop(tree[o[1]][o[2]]) \/ b = tree[o[1]][o[2]].alt => InNestedScope(tree, b, i)
  <1>. DEFINE Clears(s, clears) == \/ IsLoop(s) \/ s.alt # NoBlock
                                   \/ s.kind \in {"block", "cond"} /\ s.body \in clears
              leaves == CHOOSE leaves : leaves = [c \in Block |->
                 LET below == UNION {leaves[d] : d \in UNION {SubBlocks(tree[c][j]) :
                                                               j \in DOMAIN tree[c]}}
                 IN IF \E j \in DOMAIN tree[c] : Clears(tree[c][j], below)
                    THEN below \cup {c} ELSE below]
              StillSet(c, n) == \A j \in 1..(n - 1) : ~Clears(tree[c][j], leaves[Root])
              Sets(c, o) == \/ IsLoop(tree[o[1]][o[2]])
                            \/ c = tree[o[1]][o[2]].alt
              Of(f) == [c \in Block |-> \E o \in Owners(tree, c) :
                          \/ IsLoop(tree[o[1]][o[2]])
                          \/ c = tree[o[1]][o[2]].alt
                          \/ f[o[1]] /\ StillSet(o[1], o[2])]
              at == CHOOSE f : f = Of(f)
  <1>1. InNestedScope(tree, b, i) <=> at[b] /\ StillSet(b, i)
    BY DEF InNestedScope
  <1>2. ASSUME \A j \in 1..(i - 1) : tree[b][j].kind = "decl" PROVE StillSet(b, i)
    <2>1. ASSUME NEW j \in 1..(i - 1) PROVE ~Clears(tree[b][j], leaves[Root])
      <3>1. j \in DOMAIN tree[b]
        BY StatsOfTree
      <3>2. tree[b][j] \in Stat /\ tree[b][j].kind = "decl"
        BY <1>2, <3>1, StatsOfTree
      <3>. QED BY ONLY <3>2 DEF Stat, IsLoop, LoopKind
    <2>. QED BY <2>1
  <1>. HIDE DEF Clears, StillSet, leaves
  <1>. DEFINE F == [X \in SUBSET Block |-> {c \in Block : \E o \in Owners(tree, c) :
                      Sets(c, o) \/ (o[1] \in X /\ StillSet(o[1], o[2]))}]
  <1>3. F \in [SUBSET Block -> SUBSET Block]
    OBVIOUS
  <1>4. \A X, Y \in SUBSET Block : X \subseteq Y => F[X] \subseteq F[Y]
    OBVIOUS
  <1>5. PICK X \in SUBSET Block : F[X] = X
    <2>. HIDE DEF F
    <2>. QED BY <1>3, <1>4, FixedPoint
  <1>. DEFINE f == [c \in Block |-> c \in X]
  <1>6. f = Of(f)
    <2>1. ASSUME NEW c \in Block PROVE f[c] = Of(f)[c]
      <3>. DEFINE is == \E o \in Owners(tree, c) :
                          \/ IsLoop(tree[o[1]][o[2]])
                          \/ c = tree[o[1]][o[2]].alt
                          \/ f[o[1]] /\ StillSet(o[1], o[2])
      <3>1. is \in BOOLEAN
        OBVIOUS
      <3>2. c \in X <=> \E o \in Owners(tree, c) :
                            Sets(c, o) \/ (o[1] \in X /\ StillSet(o[1], o[2]))
        BY <1>5
      <3>3. \A d \in Block : f[d] = (d \in X)
        OBVIOUS
      <3>4. \A o \in Owners(tree, c) : o[1] \in Block
        BY OwnersDef
      <3>. HIDE DEF f
      <3>5. c \in X <=> is
        BY <3>2, <3>3, <3>4
      <3>6. Of(f)[c] = is
        OBVIOUS
      <3>. HIDE DEF is, Of
      <3>. QED BY ONLY <3>1, <3>3, <3>5, <3>6
    <2>. QED BY <2>1
  <1>7. at = Of(at)
    <2>. HIDE DEF f, Of
    <2>. QED BY <1>6
  <1>8. at[b] <=> \E o \in Owners(tree, b) :
                    Sets(b, o) \/ (at[o[1]] /\ StillSet(o[1], o[2]))
    <2>. HIDE DEF at
    <2>. QED BY <1>7
  <1>. HIDE DEF at
  <1>. QED BY <1>1, <1>2, <1>8, OwnersDef

-----------------------------------------------------------------------------
(* The order in which the code generator visits the tree.                  *)

\* The positions in a block and the blocks below it, and those up to a
\* statement of a block, as VisitedBefore has them.
InsideOf(tree, d) == UNION {{c} \X DOMAIN tree[c] : c \in BlocksFrom(tree, d)}
UpTo(tree, c, n)  ==
    ({c} \X (1..(n - 1))) \cup
    UNION {InsideOf(tree, d) : d \in UNION {SubBlocks(tree[c][j]) : j \in 1..(n - 1)}}
Between(tree, c, o) ==
    UpTo(tree, o[1], o[2]) \cup {o} \cup
    (IF c = tree[o[1]][o[2]].alt THEN InsideOf(tree, tree[o[1]][o[2]].body) ELSE {})

\* What has been visited when the visit of a block starts.
Before(tree) ==
    CHOOSE before : before = [c \in Block |->
        UNION {before[o[1]] \cup UpTo(tree, o[1], o[2]) \cup {o} \cup
               (IF c = tree[o[1]][o[2]].alt THEN InsideOf(tree, tree[o[1]][o[2]].body) ELSE {}) :
               o \in Owners(tree, c)}]

\* Inside and in front of a block there are positions.
LEMMA BetweenProps ==
    ASSUME NEW tree \in Tree, ParentsFirst(tree), NEW c \in Block, NEW o \in Owners(tree, c)
    PROVE  Between(tree, c, o) \subseteq Block \X Nat
  <1>1. ASSUME NEW d \in Block PROVE InsideOf(tree, d) \subseteq Block \X Nat
    <2>1. CutOf(tree, [e \in Block |-> Len(tree[e])])
      BY StatsOfTree DEF CutOf
    <2>2. BlocksFrom(tree, d) \subseteq Block
      BY <2>1, WalkedFromProps DEF ReachedWell, BlocksFrom
    <2>3. \A e \in BlocksFrom(tree, d) : {e} \X DOMAIN tree[e] \subseteq Block \X Nat
      BY <2>2, StatsOfTree
    <2>. QED BY <2>3 DEF InsideOf
  <1>2. o[1] \in Block /\ o[2] \in DOMAIN tree[o[1]] /\ o[2] \in Nat /\ o = <<o[1], o[2]>>
    BY OwnersDef, StatsOfTree
  <1>3. \A j \in DOMAIN tree[o[1]] : SubBlocks(tree[o[1]][j]) \subseteq Block
    BY <1>2, StatsOfTree, StatProps
  <1>4. \A j \in 1..(o[2] - 1) : j \in DOMAIN tree[o[1]]
    BY <1>2, StatsOfTree
  <1>5. UpTo(tree, o[1], o[2]) \subseteq Block \X Nat
    <2>1. {o[1]} \X (1..(o[2] - 1)) \subseteq Block \X Nat
      BY <1>2
    <2>2. \A d \in UNION {SubBlocks(tree[o[1]][j]) : j \in 1..(o[2] - 1)} : d \in Block
      BY <1>3, <1>4
    <2>3. \A d \in UNION {SubBlocks(tree[o[1]][j]) : j \in 1..(o[2] - 1)} :
             InsideOf(tree, d) \subseteq Block \X Nat
      BY <1>1, <2>2
    <2>. QED BY <2>1, <2>3 DEF UpTo
  <1>6. c = tree[o[1]][o[2]].alt => tree[o[1]][o[2]].body \in Block
    <2>1. tree[o[1]][o[2]] \in Stat
      BY <1>2, StatsOfTree
    <2>2. c # NoBlock
      BY MaxBlocksAssumption DEF Block, NoBlock
    <2>. QED BY ONLY <2>1, <2>2, BodiesAreBlocks DEF Stat
  <1>7. c = tree[o[1]][o[2]].alt =>
           InsideOf(tree, tree[o[1]][o[2]].body) \subseteq Block \X Nat
    BY <1>1, <1>6
  <1>8. o \in Block \X Nat
    BY <1>2
  <1>. QED BY <1>5, <1>7, <1>8 DEF Between

\* VisitedBefore satisfies the equation of its definition.
LEMMA VisitedBeforeDef ==
    ASSUME NEW tree \in Tree, ParentsFirst(tree)
    PROVE  /\ \A b \in Block : \A v : v \in Before(tree)[b] <=>
                 \E o \in Owners(tree, b) : v \in Before(tree)[o[1]] \/ v \in Between(tree, b, o)
           /\ \A b, i : VisitedBefore(tree, b, i) = Before(tree)[b] \cup UpTo(tree, b, i)
  <1>. DEFINE P == Block \X Nat
              S == Block \X P
              F == [X \in SUBSET S |-> {p \in S : \E o \in Owners(tree, p[1]) :
                       <<o[1], p[2]>> \in X \/ p[2] \in Between(tree, p[1], o)}]
              Part(f, c, o) == f[o[1]] \cup UpTo(tree, o[1], o[2]) \cup {o} \cup
                                (IF c = tree[o[1]][o[2]].alt
                                 THEN InsideOf(tree, tree[o[1]][o[2]].body) ELSE {})
              Of(f) == [c \in Block |-> UNION {Part(f, c, o) : o \in Owners(tree, c)}]
              before == CHOOSE f : f = Of(f)
  <1>1. F \in [SUBSET S -> SUBSET S]
    OBVIOUS
  <1>2. \A X, Y \in SUBSET S : X \subseteq Y => F[X] \subseteq F[Y]
    OBVIOUS
  <1>3. PICK X \in SUBSET S : F[X] = X
    <2>. HIDE DEF S, F
    <2>. QED BY <1>1, <1>2, FixedPoint
  <1>4. ASSUME NEW f, NEW b \in Block, NEW v
        PROVE  v \in Of(f)[b] <=>
                  \E o \in Owners(tree, b) : v \in f[o[1]] \/ v \in Between(tree, b, o)
    <2>1. \A o : Part(f, b, o) = f[o[1]] \cup Between(tree, b, o)
      BY DEF Between
    <2>. HIDE DEF Part
    <2>2. Of(f)[b] = UNION {Part(f, b, o) : o \in Owners(tree, b)}
      OBVIOUS
    <2>. HIDE DEF Of
    <2>. QED BY <2>1, <2>2
  <1>5. ASSUME NEW b \in Block, NEW v \in P
        PROVE  <<b, v>> \in X <=>
                  \E o \in Owners(tree, b) : <<o[1], v>> \in X \/ v \in Between(tree, b, o)
    <2>0. <<b, v>> \in S /\ <<b, v>>[1] = b /\ <<b, v>>[2] = v
      <3>. HIDE DEF P
      <3>. QED OBVIOUS
    <2>1. PICK p \in S : p = <<b, v>> /\ p[1] = b /\ p[2] = v
      <3>. HIDE DEF S
      <3>. QED BY ONLY <2>0
    <2>2. p \in X <=> \E o \in Owners(tree, p[1]) :
                          <<o[1], p[2]>> \in X \/ p[2] \in Between(tree, p[1], o)
      BY <1>3
    <2>. QED BY ONLY <2>1, <2>2
  <1>. DEFINE f == [b \in Block |-> {v \in P : <<b, v>> \in X}]
  <1>6. f = Of(f)
    <2>1. ASSUME NEW b \in Block PROVE f[b] = Of(f)[b]
      <3>1. \A o \in Owners(tree, b) : o[1] \in Block /\ Between(tree, b, o) \subseteq P
        BY OwnersDef, BetweenProps
      <3>2. \A c \in Block : f[c] = {v \in P : <<c, v>> \in X}
        OBVIOUS
      <3>. HIDE DEF f
      <3>3. \A v : v \in Of(f)[b] <=>
                \E o \in Owners(tree, b) : v \in f[o[1]] \/ v \in Between(tree, b, o)
        <4>. HIDE DEF Of
        <4>. QED BY <1>4
      <3>. HIDE DEF Of, P
      <3>4. ASSUME NEW v \in f[b] PROVE v \in Of(f)[b]
        <4>1. v \in P /\ <<b, v>> \in X
          BY <3>2
        <4>2. PICK o \in Owners(tree, b) : <<o[1], v>> \in X \/ v \in Between(tree, b, o)
          BY <1>5, <4>1, Zenon
        <4>3. v \in f[o[1]] \/ v \in Between(tree, b, o)
          BY <3>1, <3>2, <4>1, <4>2
        <4>. QED BY <3>3, <4>3
      <3>5. ASSUME NEW v \in Of(f)[b] PROVE v \in f[b]
        <4>1. PICK o \in Owners(tree, b) : v \in f[o[1]] \/ v \in Between(tree, b, o)
          BY <3>3
        <4>2. v \in P /\ (<<o[1], v>> \in X \/ v \in Between(tree, b, o))
          BY <3>1, <3>2, <4>1
        <4>3. <<b, v>> \in X
          BY <1>5, <4>2, Zenon
        <4>. QED BY <3>2, <4>2, <4>3
      <3>. QED BY ONLY <3>4, <3>5
    <2>. QED BY <2>1
  <1>7. before = Of(before)
    <2>. HIDE DEF f, Of
    <2>. QED BY <1>6
  <1>8. Before(tree) = before
    BY DEF Before
  <1>9. \A b, i : VisitedBefore(tree, b, i) = before[b] \cup UpTo(tree, b, i)
    BY DEF VisitedBefore, UpTo, InsideOf
  <1>. HIDE DEF before, Of
  <1>10. ASSUME NEW b \in Block, NEW v
         PROVE  v \in before[b] <=>
                   \E o \in Owners(tree, b) : v \in before[o[1]] \/ v \in Between(tree, b, o)
    BY <1>4, <1>7
  <1>. QED BY <1>8, <1>9, <1>10

\* The positions before a block's owner, and before a statement in its block.
LEMMA VisitedBeforeProps ==
    ASSUME NEW tree \in Tree, ParentsFirst(tree)
    PROVE  /\ \A b \in Block, i, j \in Nat \ {0} :
                 j < i => <<b, j>> \in VisitedBefore(tree, b, i)
           /\ \A b \in Block : \A i : Before(tree)[b] \subseteq VisitedBefore(tree, b, i)
           /\ \A b \in Block : \A o \in Owners(tree, b) :
                /\ Before(tree)[o[1]] \subseteq Before(tree)[b]
                /\ \A j \in 1..(o[2] - 1) : <<o[1], j>> \in Before(tree)[b]
  <1>1. ASSUME NEW b \in Block, NEW i \in Nat \ {0}, NEW j \in Nat \ {0}, j < i
        PROVE  <<b, j>> \in VisitedBefore(tree, b, i)
    BY <1>1, VisitedBeforeDef DEF UpTo
  <1>2. ASSUME NEW b \in Block, NEW o \in Owners(tree, b), NEW j \in 1..(o[2] - 1)
        PROVE  <<o[1], j>> \in Before(tree)[b]
    <2>1. <<o[1], j>> \in Between(tree, b, o)
      BY DEF Between, UpTo
    <2>. QED BY <2>1, VisitedBeforeDef
  <1>. QED BY <1>1, <1>2, VisitedBeforeDef

-----------------------------------------------------------------------------
(* What pruning leaves of a tree.                                          *)

\* Every block is a beginning of what it was.
Shortened(old, new) ==
    /\ new \in Tree
    /\ \A b \in Block : /\ Len(new[b]) <= Len(old[b])
                        /\ \A i \in DOMAIN new[b] : i \in DOMAIN old[b] /\ new[b][i] = old[b][i]

(***************************************************************************)
(* The walk reaches the blocks W: from a block of W it goes to no others,  *)
(* and a block of W that has statements to stop at now ends with the first.*)
(***************************************************************************)
PrunedAt(old, new, stops, W) ==
    /\ Root \in W
    /\ \A b \in Block \ W : new[b] = old[b]
    /\ \A b \in W :
          /\ \A i \in DOMAIN new[b] : SubBlocks(new[b][i]) \subseteq W
          /\ \A i \in DOMAIN new[b] : i \in stops[b] => i = Len(new[b])
          /\ stops[b] = {} => new[b] = old[b]
          /\ stops[b] # {} => Len(new[b]) \in stops[b]

LEMMA PrunedProps ==
    ASSUME NEW tree \in Tree, ParentsFirst(tree), NEW stops \in [Block -> SUBSET Nat],
           \A b \in Block : stops[b] \subseteq DOMAIN tree[b],
           NEW cut, cut = [b \in Block |-> IF stops[b] = {} THEN Len(tree[b])
                                                            ELSE Min(stops[b])],
           NEW new, new = [b \in Block |-> IF b \in Walked(tree, cut)
                                           THEN SubSeq(tree[b], 1, cut[b]) ELSE tree[b]]
    PROVE  /\ Shortened(tree, new)
           /\ \E W \in SUBSET Block : PrunedAt(tree, new, stops, W)
  <1>. DEFINE W == Walked(tree, cut)
  <1>1. ASSUME NEW b \in Block
        PROVE  /\ cut[b] \in Nat /\ cut[b] <= Len(tree[b])
               /\ stops[b] = {} => cut[b] = Len(tree[b])
               /\ stops[b] # {} => cut[b] \in stops[b] /\ \A i \in stops[b] : cut[b] <= i
    <2>1. CASE stops[b] = {}
      BY <2>1, StatsOfTree
    <2>2. CASE stops[b] # {}
      <3>1. Min(stops[b]) \in stops[b] /\ \A i \in stops[b] : Min(stops[b]) <= i
        BY <2>2, LeastNumber
      <3>2. cut[b] = Min(stops[b])
        BY <2>2
      <3>3. cut[b] \in 1..Len(tree[b])
        BY <3>1, <3>2, StatsOfTree
      <3>. QED BY <2>2, <3>1, <3>2, <3>3
    <2>. QED BY <2>1, <2>2
  <1>2. CutOf(tree, cut)
    BY <1>1 DEF CutOf
  <1>3. ReachedWell(tree, cut, Root)
    BY <1>2, RootIsBlock, WalkedFromProps
  <1>4. /\ W \subseteq Block /\ Root \in W
        /\ \A b \in W : \A i \in 1..cut[b] : SubBlocks(tree[b][i]) \subseteq W
    <2>1. /\ W \subseteq Block /\ Root \in W
          /\ \A b \in W : Kids(tree, cut, b) \subseteq W
      BY <1>3 DEF ReachedWell, Walked
    <2>. HIDE DEF W
    <2>2. \A b \in W : \A i \in 1..cut[b] : SubBlocks(tree[b][i]) \subseteq Kids(tree, cut, b)
      BY DEF Kids
    <2>. QED BY <2>1, <2>2
  <1>. HIDE DEF W
  <1>5. \A b \in Block : new[b] = IF b \in W THEN SubSeq(tree[b], 1, cut[b]) ELSE tree[b]
    BY DEF W
  <1>6. ASSUME NEW b \in Block
        PROVE  /\ SubSeq(tree[b], 1, cut[b]) \in Seq(Stat)
               /\ Len(SubSeq(tree[b], 1, cut[b])) = cut[b]
               /\ DOMAIN SubSeq(tree[b], 1, cut[b]) = 1..cut[b]
               /\ \A i \in 1..cut[b] : SubSeq(tree[b], 1, cut[b])[i] = tree[b][i]
    <2>1. tree[b] \in Seq(Stat)
      BY StatsOfTree
    <2>2. cut[b] \in 0..Len(tree[b])
      BY <1>1, <2>1
    <2>. QED BY ONLY <2>1, <2>2
  <1>7. Shortened(tree, new)
    <2>1. new \in Tree
      BY <1>5, <1>6, StatsOfTree DEF Tree
    <2>2. ASSUME NEW b \in Block
          PROVE  /\ Len(new[b]) <= Len(tree[b])
                 /\ \A i \in DOMAIN new[b] : i \in DOMAIN tree[b] /\ new[b][i] = tree[b][i]
      <3>1. CASE b \in W
        <4>1. /\ Len(new[b]) = cut[b] /\ DOMAIN new[b] = 1..cut[b]
              /\ \A i \in 1..cut[b] : new[b][i] = tree[b][i]
          BY <1>5, <1>6, <3>1
        <4>2. \A i \in 1..cut[b] : i \in DOMAIN tree[b]
          BY <1>1, StatsOfTree
        <4>. QED BY <1>1, <4>1, <4>2
      <3>2. CASE b \notin W
        <4>1. new[b] = tree[b] /\ Len(tree[b]) \in Nat
          BY <1>5, <3>2, StatsOfTree
        <4>. QED BY ONLY <4>1
      <3>. QED BY <3>1, <3>2
    <2>. QED BY <2>1, <2>2 DEF Shortened
  <1>8. PrunedAt(tree, new, stops, W)
    <2>1. ASSUME NEW b \in W
          PROVE  /\ \A i \in DOMAIN new[b] : SubBlocks(new[b][i]) \subseteq W
                 /\ \A i \in DOMAIN new[b] : i \in stops[b] => i = Len(new[b])
                 /\ stops[b] = {} => new[b] = tree[b]
                 /\ stops[b] # {} => Len(new[b]) \in stops[b]
      <3>1. b \in Block
        BY <1>4
      <3>2. /\ Len(new[b]) = cut[b] /\ DOMAIN new[b] = 1..cut[b]
            /\ \A i \in 1..cut[b] : new[b][i] = tree[b][i]
        BY <1>5, <1>6, <3>1
      <3>3. stops[b] = {} => new[b] = tree[b]
        <4>1. tree[b] \in Seq(Stat) /\ (stops[b] = {} => cut[b] = Len(tree[b]))
          BY <1>1, <3>1, StatsOfTree
        <4>2. stops[b] = {} => new[b] = SubSeq(tree[b], 1, Len(tree[b]))
          BY <1>5, <3>1, <4>1
        <4>. QED BY ONLY <4>1, <4>2
      <3>4. \A i \in DOMAIN new[b] : i \in stops[b] => i = Len(new[b])
        BY <1>1, <3>1, <3>2
      <3>5. stops[b] # {} => Len(new[b]) \in stops[b]
        BY <1>1, <3>1, <3>2
      <3>. QED BY <1>4, <3>2, <3>3, <3>4, <3>5
    <2>. QED BY <1>4, <1>5, <2>1 DEF PrunedAt
  <1>. QED BY <1>4, <1>7, <1>8

\* Where a walk that stops at given statements ends in each block.
CutAt(tree, stops) ==
    [b \in Block |-> IF stops[b] = {} THEN Len(tree[b]) ELSE Min(stops[b])]

StopsIn(tree, stops) ==
    stops \in [Block -> SUBSET Nat] /\ \A b \in Block : stops[b] \subseteq DOMAIN tree[b]

LEMMA CutAtProps ==
    ASSUME NEW tree \in Tree, NEW stops, StopsIn(tree, stops)
    PROVE  /\ CutOf(tree, CutAt(tree, stops))
           /\ \A b \in Block :
                /\ stops[b] = {} => CutAt(tree, stops)[b] = Len(tree[b])
                /\ stops[b] # {} => /\ CutAt(tree, stops)[b] \in stops[b]
                                    /\ \A i \in stops[b] : CutAt(tree, stops)[b] <= i
  <1>1. ASSUME NEW b \in Block
        PROVE  /\ CutAt(tree, stops)[b] \in Nat /\ CutAt(tree, stops)[b] <= Len(tree[b])
               /\ stops[b] = {} => CutAt(tree, stops)[b] = Len(tree[b])
               /\ stops[b] # {} => /\ CutAt(tree, stops)[b] \in stops[b]
                                   /\ \A i \in stops[b] : CutAt(tree, stops)[b] <= i
    <2>1. CASE stops[b] = {}
      BY <2>1, StatsOfTree DEF CutAt
    <2>2. CASE stops[b] # {}
      <3>1. Min(stops[b]) \in stops[b] /\ \A i \in stops[b] : Min(stops[b]) <= i
        BY <2>2, LeastNumber DEF StopsIn
      <3>2. CutAt(tree, stops)[b] = Min(stops[b])
        BY <2>2 DEF CutAt
      <3>3. CutAt(tree, stops)[b] \in 1..Len(tree[b])
        BY <3>1, <3>2, StatsOfTree DEF StopsIn
      <3>. QED BY <2>2, <3>1, <3>2, <3>3
    <2>. QED BY <2>1, <2>2
  <1>2. CutAt(tree, stops) = [b \in Block |-> CutAt(tree, stops)[b]]
    BY DEF CutAt
  <1>. QED BY <1>1, <1>2 DEF CutOf

\* The tree such a walk leaves.
PrunedBy(tree, stops) ==
    [b \in Block |-> IF b \in Walked(tree, CutAt(tree, stops))
                     THEN SubSeq(tree[b], 1, CutAt(tree, stops)[b]) ELSE tree[b]]

\* Where BreakContinuePruneWalker stops.
Exits(tree) == [b \in Block |-> {i \in 1..Len(tree[b]) : IsExit(tree[b][i])}]

LEMMA ExitPrunedDef ==
    ASSUME NEW tree \in Tree
    PROVE  StopsIn(tree, Exits(tree)) /\ ExitPruned(tree) = PrunedBy(tree, Exits(tree))
  <1>. DEFINE cut == FirstOrLast(tree, IsExit)
  <1>1. cut = CutAt(tree, Exits(tree))
    <2>1. ASSUME NEW b \in Block
          PROVE  cut[b] = IF Exits(tree)[b] = {} THEN Len(tree[b]) ELSE Min(Exits(tree)[b])
      <3>. DEFINE I == {i \in 1..Len(tree[b]) : IsExit(tree[b][i])}
      <3>1. cut[b] = IF (IF I # {} THEN Min(I) ELSE 0) = 0 THEN Len(tree[b])
                     ELSE IF I # {} THEN Min(I) ELSE 0
        BY DEF FirstOrLast, SelectInSeq
      <3>2. I # {} => Min(I) # 0
        <4>1. I \in SUBSET Nat /\ 0 \notin I
          OBVIOUS
        <4>. QED BY <4>1, LeastNumber
      <3>3. Exits(tree)[b] = I
        BY DEF Exits
      <3>. QED BY <3>1, <3>2, <3>3
    <2>. QED BY <2>1 DEF FirstOrLast, CutAt
  <1>2. ExitPruned(tree) = [b \in Block |-> IF b \in Walked(tree, cut)
                                            THEN SubSeq(tree[b], 1, cut[b]) ELSE tree[b]]
    BY DEF ExitPruned, CutAfter
  <1>3. StopsIn(tree, Exits(tree))
    BY StatsOfTree DEF Exits, StopsIn
  <1>. HIDE DEF cut
  <1>. QED BY <1>1, <1>2, <1>3 DEF PrunedBy

LEMMA ExitPrunedProps ==
    ASSUME NEW tree \in Tree, ParentsFirst(tree)
    PROVE  /\ Shortened(tree, ExitPruned(tree))
           /\ \E W \in SUBSET Block : PrunedAt(tree, ExitPruned(tree), Exits(tree), W)
  BY ExitPrunedDef, PrunedProps DEF PrunedBy, CutAt, StopsIn

\* Where ControlFlowReturnErrorWalker stops.
Returns(tree) ==
    [b \in Block |-> {i \in 1..Len(tree[b]) : ReturnsSurely(tree[b][i], Returning(tree))}]

LEMMA ReturnPrunedDef ==
    ASSUME NEW tree \in Tree
    PROVE  StopsIn(tree, Returns(tree)) /\ ReturnPruned(tree) = PrunedBy(tree, Returns(tree))
  <1>. DEFINE cut == FirstOrLast(tree, LAMBDA s : ReturnsSurely(s, Returning(tree)))
  <1>1. cut = CutAt(tree, Returns(tree))
    <2>1. ASSUME NEW b \in Block
          PROVE  cut[b] = IF Returns(tree)[b] = {} THEN Len(tree[b]) ELSE Min(Returns(tree)[b])
      <3>. DEFINE I == {i \in 1..Len(tree[b]) : ReturnsSurely(tree[b][i], Returning(tree))}
      <3>1. cut[b] = IF (IF I # {} THEN Min(I) ELSE 0) = 0 THEN Len(tree[b])
                     ELSE IF I # {} THEN Min(I) ELSE 0
        BY DEF FirstOrLast, SelectInSeq
      <3>2. I # {} => Min(I) # 0
        <4>1. I \in SUBSET Nat /\ 0 \notin I
          OBVIOUS
        <4>. QED BY <4>1, LeastNumber
      <3>3. Returns(tree)[b] = I
        BY DEF Returns
      <3>. QED BY <3>1, <3>2, <3>3
    <2>. QED BY <2>1 DEF FirstOrLast, CutAt
  <1>2. ReturnPruned(tree) = [b \in Block |-> IF b \in Walked(tree, cut)
                                              THEN SubSeq(tree[b], 1, cut[b]) ELSE tree[b]]
    BY DEF ReturnPruned, CutAfter
  <1>3. StopsIn(tree, Returns(tree))
    BY StatsOfTree DEF Returns, StopsIn
  <1>. HIDE DEF cut
  <1>. QED BY <1>1, <1>2, <1>3 DEF PrunedBy

LEMMA ReturnPrunedProps ==
    ASSUME NEW tree \in Tree, ParentsFirst(tree)
    PROVE  /\ Shortened(tree, ReturnPruned(tree))
           /\ \E W \in SUBSET Block : PrunedAt(tree, ReturnPruned(tree), Returns(tree), W)
  BY ReturnPrunedDef, PrunedProps DEF PrunedBy, CutAt, StopsIn

-----------------------------------------------------------------------------
(* What adding the releases makes of a tree.                               *)

\* A statement after the visit: a return may have got its free_node.
Marked(old, new, in_main) ==
    /\ new \in Stat
    /\ new.kind = old.kind /\ new.body = old.body /\ new.alt = old.alt
    /\ new = old \/ (old.kind = "return" /\ new.scope_id = ReturnScope(in_main))

\* A list of statements with a release put in as statement e.
Released(old, new, e, scope_id, in_main) ==
    /\ Len(new) = Len(old) + 1
    /\ new[e] = FreeNode(scope_id)
    /\ \A i \in 1..(e - 1) : Marked(old[i], new[i], in_main)
    /\ \A i \in (e + 1)..(Len(old) + 1) : Marked(old[i - 1], new[i], in_main)

(***************************************************************************)
(* The walk reaches the blocks W; each gets one release, at its end or     *)
(* before its first break or continue, and what it owns up to there is     *)
(* reached as well.                                                        *)
(***************************************************************************)
ReleasedIn(old, new, b, e, W, in_main) ==
    /\ \/ e = Len(old[b]) + 1 /\ Released(old[b], new[b], e, CurrentScope, in_main)
       \/ /\ e <= Len(old[b]) /\ IsExit(old[b][e])
          /\ Released(old[b], new[b], e, LoopScope, in_main)
    /\ \A i \in 1..(e - 1) : ~IsExit(old[b][i]) /\ SubBlocks(old[b][i]) \subseteq W

ReleasesAt(old, new, W, in_main) ==
    /\ Root \in W
    /\ \A b \in Block \ W : new[b] = old[b]
    /\ \A b \in W : \E e \in 1..(Len(old[b]) + 1) : ReleasedIn(old, new, b, e, W, in_main)

\* A concatenation has the elements of the one and then of the other.
LEMMA ConcatProps ==
    ASSUME NEW S, NEW a \in Seq(S), NEW b \in Seq(S)
    PROVE  /\ a \o b \in Seq(S) /\ Len(a \o b) = Len(a) + Len(b)
           /\ \A j \in 1..Len(a) : (a \o b)[j] = a[j]
           /\ \A j \in (Len(a) + 1)..(Len(a) + Len(b)) : (a \o b)[j] = b[j - Len(a)]
  OBVIOUS

\* Inserting an element moves those behind it by one.
LEMMA InsertAtProps ==
    ASSUME NEW S, NEW s \in Seq(S), NEW i \in 1..Len(s), NEW e \in S
    PROVE  /\ InsertAt(s, i, e) \in Seq(S)
           /\ Len(InsertAt(s, i, e)) = Len(s) + 1
           /\ \A j \in 1..(i - 1) : InsertAt(s, i, e)[j] = s[j]
           /\ InsertAt(s, i, e)[i] = e
           /\ \A j \in (i + 1)..(Len(s) + 1) : InsertAt(s, i, e)[j] = s[j - 1]
  <1>. DEFINE front == SubSeq(s, 1, i - 1)
              back  == SubSeq(s, i, Len(s))
  <1>1. /\ front \in Seq(S) /\ Len(front) = i - 1
        /\ \A j \in 1..(i - 1) : front[j] = s[j]
    OBVIOUS
  <1>2. /\ back \in Seq(S) /\ Len(back) = Len(s) - i + 1
        /\ \A j \in 1..(Len(s) - i + 1) : back[j] = s[i + j - 1]
    OBVIOUS
  <1>. HIDE DEF front, back
  <1>. DEFINE head == front \o <<e>>
  <1>3. /\ head \in Seq(S) /\ Len(head) = i
        /\ \A j \in 1..(i - 1) : head[j] = s[j]
        /\ head[i] = e
    BY <1>1
  <1>4. InsertAt(s, i, e) = head \o back
    BY DEF InsertAt, front, back
  <1>. HIDE DEF head
  <1>5. head \o back \in Seq(S) /\ Len(head \o back) = Len(s) + 1
    <2>1. head \o back \in Seq(S) /\ Len(head \o back) = Len(head) + Len(back)
      BY ONLY <1>2, <1>3, ConcatProps
    <2>2. Len(s) \in Nat
      OBVIOUS
    <2>. QED BY <1>2, <1>3, <2>1, <2>2
  <1>6. \A j \in 1..i : (head \o back)[j] = head[j]
    BY <1>2, <1>3, ConcatProps
  <1>7. ASSUME NEW j \in (i + 1)..(Len(s) + 1) PROVE (head \o back)[j] = s[j - 1]
    <2>1. (head \o back)[j] = back[j - i]
      BY <1>2, <1>3
    <2>2. j - i \in 1..(Len(s) - i + 1) /\ i + (j - i) - 1 = j - 1
      OBVIOUS
    <2>. QED BY <1>2, <2>1, <2>2
  <1>. QED BY <1>3, <1>4, <1>5, <1>6, <1>7

\* AddFreeNodes releases in the blocks it walks.
LEMMA AddFreeNodesProps ==
    ASSUME NEW tree \in Tree, ParentsFirst(tree), NEW in_main \in BOOLEAN
    PROVE  /\ AddFreeNodes(tree, in_main) \in Tree
           /\ \E W \in SUBSET Block : ReleasesAt(tree, AddFreeNodes(tree, in_main), W, in_main)
  <1>. DEFINE new  == AddFreeNodes(tree, in_main)
              cut  == FirstOrLast(tree, IsExit)
              W    == Walked(tree, cut)
              exit(b) == SelectInSeq(tree[b], IsExit)
              marks(b) == [i \in DOMAIN tree[b] |->
                             IF i <= cut[b] /\ tree[b][i].kind = "return"
                             THEN [tree[b][i] EXCEPT !.scope_id = ReturnScope(in_main)]
                             ELSE tree[b][i]]
  <1>1. \A b \in Block : new[b] =
            CASE b \notin W -> tree[b]
              [] b \in W /\ exit(b) = 0 -> Append(marks(b), FreeNode(CurrentScope))
              [] b \in W /\ exit(b) # 0 -> InsertAt(marks(b), exit(b), FreeNode(LoopScope))
    BY DEF AddFreeNodes, FreeBeforeExit
  <1>2. ASSUME NEW b \in Block
        PROVE  /\ exit(b) \in 0..Len(tree[b])
               /\ exit(b) = 0 => \A i \in 1..Len(tree[b]) : ~IsExit(tree[b][i])
               /\ exit(b) # 0 => /\ IsExit(tree[b][exit(b)])
                                 /\ \A i \in 1..(exit(b) - 1) : ~IsExit(tree[b][i])
               /\ cut[b] = IF exit(b) = 0 THEN Len(tree[b]) ELSE exit(b)
    <2>. DEFINE I == {i \in 1..Len(tree[b]) : IsExit(tree[b][i])}
    <2>1. exit(b) = IF I # {} THEN Min(I) ELSE 0
      BY DEF SelectInSeq
    <2>2. I \in SUBSET Nat /\ I \subseteq 1..Len(tree[b]) /\ Len(tree[b]) \in Nat
      BY StatsOfTree
    <2>3. I # {} => Min(I) \in I /\ \A i \in I : Min(I) <= i
      <3>. HIDE DEF I
      <3>. QED BY <2>2, LeastNumber
    <2>4. cut[b] = IF exit(b) = 0 THEN Len(tree[b]) ELSE exit(b)
      BY DEF FirstOrLast
    <2>5. \A i \in 1..Len(tree[b]) : IsExit(tree[b][i]) <=> i \in I
      OBVIOUS
    <2>. HIDE DEF I, exit
    <2>6. CASE I = {}
      BY <2>1, <2>2, <2>4, <2>5, <2>6
    <2>7. CASE I # {}
      <3>0. exit(b) = Min(I)
        BY <2>1, <2>7
      <3>1. exit(b) \in I /\ exit(b) \in 1..Len(tree[b]) /\ exit(b) # 0
        <4>1. Min(I) \in I
          BY ONLY <2>3, <2>7
        <4>2. exit(b) \in I
          BY ONLY <3>0, <4>1
        <4>3. exit(b) \in 1..Len(tree[b])
          BY ONLY <2>2, <4>2, Zenon
        <4>4. exit(b) # 0
          BY ONLY <4>3
        <4>. QED BY ONLY <4>2, <4>3, <4>4
      <3>2. \A i \in 1..(exit(b) - 1) : i \notin I /\ i \in 1..Len(tree[b])
        BY <2>1, <2>2, <2>3, <2>7, <3>1
      <3>. QED BY <2>4, <2>5, <3>1, <3>2
    <2>. QED BY <2>6, <2>7
  <1>. HIDE DEF exit
  <1>3. CutOf(tree, cut)
    <2>1. ASSUME NEW b \in Block PROVE cut[b] \in Nat /\ cut[b] <= Len(tree[b])
      <3>1. Len(tree[b]) \in Nat /\ exit(b) \in 0..Len(tree[b])
            /\ cut[b] = IF exit(b) = 0 THEN Len(tree[b]) ELSE exit(b)
        BY <1>2, StatsOfTree
      <3>. HIDE DEF cut
      <3>. QED BY ONLY <3>1
    <2>2. cut = [b \in Block |-> cut[b]]
      BY DEF FirstOrLast
    <2>. HIDE DEF cut
    <2>. QED BY <2>1, <2>2 DEF CutOf
  <1>4. /\ W \subseteq Block /\ Root \in W
        /\ \A b \in W : \A i \in 1..cut[b] : SubBlocks(tree[b][i]) \subseteq W
    <2>1. ReachedWell(tree, cut, Root)
      BY <1>3, RootIsBlock, WalkedFromProps
    <2>2. /\ W \subseteq Block /\ Root \in W
          /\ \A b \in W : Kids(tree, cut, b) \subseteq W
      BY <2>1 DEF ReachedWell, Walked
    <2>. HIDE DEF W, cut
    <2>3. \A b \in W : \A i \in 1..cut[b] : SubBlocks(tree[b][i]) \subseteq Kids(tree, cut, b)
      BY DEF Kids
    <2>. QED BY <2>2, <2>3
  <1>. HIDE DEF W, cut
  <1>5. FreeNode(CurrentScope) \in Stat /\ FreeNode(LoopScope) \in Stat
    BY DEF FreeNode, Leaf, Stat, NodeFields, Kind, LeafKind, CurrentScope, LoopScope,
           NoScope, NoBlock
  <1>6. ReturnScope(in_main) \in 0..4
    BY DEF ReturnScope, MainScope, FuncProcScope
  <1>7. ASSUME NEW b \in Block
        PROVE  /\ marks(b) \in Seq(Stat) /\ Len(marks(b)) = Len(tree[b])
               /\ \A i \in 1..Len(tree[b]) : Marked(tree[b][i], marks(b)[i], in_main)
    <2>1. ASSUME NEW i \in DOMAIN tree[b]
          PROVE  Marked(tree[b][i], marks(b)[i], in_main) /\ marks(b)[i] \in Stat
      <3>1. tree[b][i] \in Stat
        BY StatsOfTree
      <3>2. marks(b)[i] = tree[b][i] \/
            (tree[b][i].kind = "return" /\
             marks(b)[i] = [tree[b][i] EXCEPT !.scope_id = ReturnScope(in_main)])
        OBVIOUS
      <3>. HIDE DEF marks
      <3>3. [tree[b][i] EXCEPT !.scope_id = ReturnScope(in_main)] \in Stat
        BY ONLY <3>1, <1>6 DEF Stat, NodeFields
      <3>4. PICK s \in Stat : s = tree[b][i]
        BY <3>1
      <3>5. [s EXCEPT !.scope_id = ReturnScope(in_main)].kind = s.kind
            /\ [s EXCEPT !.scope_id = ReturnScope(in_main)].body = s.body
            /\ [s EXCEPT !.scope_id = ReturnScope(in_main)].alt = s.alt
            /\ [s EXCEPT !.scope_id = ReturnScope(in_main)].scope_id = ReturnScope(in_main)
        BY DEF Stat, NodeFields
      <3>. QED BY <3>2, <3>3, <3>4, <3>5 DEF Marked
    <2>2. marks(b) = [i \in 1..Len(tree[b]) |-> marks(b)[i]] /\ Len(tree[b]) \in Nat
      BY StatsOfTree
    <2>3. \A i \in 1..Len(tree[b]) : Marked(tree[b][i], marks(b)[i], in_main) /\ marks(b)[i] \in Stat
      BY <2>1, StatsOfTree
    <2>. HIDE DEF marks
    <2>4. PICK f : f = marks(b)
      OBVIOUS
    <2>5. f = [i \in 1..Len(tree[b]) |-> f[i]] /\ \A i \in 1..Len(tree[b]) : f[i] \in Stat
      BY ONLY <2>2, <2>3, <2>4
    <2>6. f \in Seq(Stat) /\ Len(f) = Len(tree[b])
      BY ONLY <2>2, <2>5
    <2>. QED BY <2>3, <2>4, <2>6
  <1>. HIDE DEF marks, new
  <1>8. ASSUME NEW b \in W
        PROVE  new[b] \in Seq(Stat) /\
               \E e \in 1..(Len(tree[b]) + 1) : ReleasedIn(tree, new, b, e, W, in_main)
    <2>0. b \in Block /\ Len(tree[b]) \in Nat
      BY <1>4, StatsOfTree
    <2>1. CASE exit(b) = 0
      <3>. DEFINE e == Len(tree[b]) + 1
      <3>1. new[b] = Append(marks(b), FreeNode(CurrentScope))
        BY <1>1, <2>0, <2>1
      <3>2. /\ new[b] \in Seq(Stat) /\ Len(new[b]) = e /\ new[b][e] = FreeNode(CurrentScope)
            /\ \A i \in 1..(e - 1) : new[b][i] = marks(b)[i]
        BY <1>5, <1>7, <2>0, <3>1, AppendProps
      <3>3. \A i \in 1..(e - 1) : i \in 1..Len(tree[b]) /\ i \in 1..cut[b]
        BY <1>2, <2>0, <2>1
      <3>4. Released(tree[b], new[b], e, CurrentScope, in_main)
        BY <1>7, <2>0, <3>2, <3>3 DEF Released
      <3>5. \A i \in 1..(e - 1) : ~IsExit(tree[b][i]) /\ SubBlocks(tree[b][i]) \subseteq W
        BY <1>2, <1>4, <2>0, <2>1, <3>3
      <3>6. e \in 1..(Len(tree[b]) + 1)
        BY <2>0
      <3>. HIDE DEF e
      <3>. QED BY <3>2, <3>4, <3>5, <3>6 DEF ReleasedIn, e
    <2>2. CASE exit(b) # 0
      <3>. DEFINE e == exit(b)
      <3>1. new[b] = InsertAt(marks(b), e, FreeNode(LoopScope))
        BY <1>1, <2>0, <2>2
      <3>2. e \in 1..Len(tree[b]) /\ e \in 1..Len(marks(b))
        BY <1>2, <1>7, <2>0, <2>2
      <3>. HIDE DEF e
      <3>3. /\ new[b] \in Seq(Stat) /\ Len(new[b]) = Len(tree[b]) + 1
            /\ new[b][e] = FreeNode(LoopScope)
            /\ \A i \in 1..(e - 1) : new[b][i] = marks(b)[i]
            /\ \A i \in (e + 1)..(Len(tree[b]) + 1) : new[b][i] = marks(b)[i - 1]
        <4>1. PICK s \in Seq(Stat) : s = marks(b) /\ Len(s) = Len(tree[b])
          BY <1>7, <2>0
        <4>2. PICK f \in Stat : f = FreeNode(LoopScope)
          BY <1>5
        <4>3. e \in 1..Len(s)
          BY <3>2, <4>1
        <4>4. new[b] = InsertAt(s, e, f)
          BY <3>1, <4>1, <4>2
        <4>5. /\ InsertAt(s, e, f) \in Seq(Stat) /\ Len(InsertAt(s, e, f)) = Len(s) + 1
              /\ InsertAt(s, e, f)[e] = f
              /\ \A i \in 1..(e - 1) : InsertAt(s, e, f)[i] = s[i]
              /\ \A i \in (e + 1)..(Len(s) + 1) : InsertAt(s, e, f)[i] = s[i - 1]
          BY ONLY <4>3, InsertAtProps, f \in Stat, s \in Seq(Stat)
        <4>. QED BY ONLY <4>1, <4>2, <4>4, <4>5
      <3>4. \A i \in 1..(e - 1) : i \in 1..Len(tree[b]) /\ i \in 1..cut[b]
        BY <1>2, <2>0, <2>2, <3>2 DEF e
      <3>5. \A i \in (e + 1)..(Len(tree[b]) + 1) : i - 1 \in 1..Len(tree[b])
        BY <2>0, <3>2
      <3>6. Released(tree[b], new[b], e, LoopScope, in_main)
        BY <1>7, <2>0, <3>3, <3>4, <3>5 DEF Released
      <3>7. \A i \in 1..(e - 1) : ~IsExit(tree[b][i]) /\ SubBlocks(tree[b][i]) \subseteq W
        BY <1>2, <1>4, <2>0, <2>2, <3>4 DEF e
      <3>8. e <= Len(tree[b]) /\ IsExit(tree[b][e])
        BY <1>2, <2>0, <2>2, <3>2 DEF e
      <3>9. e \in 1..(Len(tree[b]) + 1)
        BY <2>0, <3>2
      <3>. QED BY <3>3, <3>6, <3>7, <3>8, <3>9 DEF ReleasedIn
    <2>. QED BY <2>1, <2>2
  <1>9. \A b \in Block \ W : new[b] = tree[b]
    BY <1>1
  <1>10. new \in Tree
    <2>1. \A b \in Block : new[b] \in Seq(Stat)
      BY <1>8, <1>9, StatsOfTree
    <2>2. new = [b \in Block |-> new[b]]
      BY DEF new, AddFreeNodes
    <2>. QED BY <2>1, <2>2 DEF Tree
  <1>11. ReleasesAt(tree, new, W, in_main)
    BY <1>4, <1>8, <1>9 DEF ReleasesAt
  <1>. QED BY <1>4, <1>10, <1>11 DEF new

(***************************************************************************)
(* Where the statements of a tree with releases come from: statement e of  *)
(* a block is new, those before it are where they were, those behind it    *)
(* have moved by one.                                                      *)
(***************************************************************************)
CameFrom(old, new, b, i, j, in_main) ==
    j \in DOMAIN old[b] /\ Marked(old[b][j], new[b][i], in_main)

OneMore(old, new, b, e, in_main) ==
    \A i \in DOMAIN new[b] :
        \/ i < e /\ CameFrom(old, new, b, i, i, in_main)
        \/ i = e /\ new[b][i].kind = "free" /\ SubBlocks(new[b][i]) = {}
        \/ i > e /\ CameFrom(old, new, b, i, i - 1, in_main)

\* A release that is not the last statement stands before a break or continue,
\* and no statement is lost.
LEMMA ReleasesPlaced ==
    ASSUME NEW old \in Tree, NEW new \in Tree, NEW W, NEW in_main,
           ReleasesAt(old, new, W, in_main), NEW b \in Block
    PROVE  /\ \E e \in Nat : /\ OneMore(old, new, b, e, in_main)
                             /\ \A i \in DOMAIN new[b] : i > e =>
                                   e + 1 \in DOMAIN new[b] /\ IsExit(new[b][e + 1])
           /\ \A j \in DOMAIN old[b] : \E i \in DOMAIN new[b] : Marked(old[b][j], new[b][i], in_main)
  <1>1. /\ Len(new[b]) \in Nat /\ DOMAIN new[b] = 1..Len(new[b])
        /\ Len(old[b]) \in Nat /\ DOMAIN old[b] = 1..Len(old[b])
    BY StatsOfTree
  <1>2. CASE b \notin W
    <2>1. new[b] = old[b]
      BY <1>2 DEF ReleasesAt
    <2>2. \A i \in DOMAIN new[b] : Marked(old[b][i], new[b][i], in_main)
      BY <2>1, StatsOfTree DEF Marked
    <2>3. PICK e \in Nat : e = Len(old[b]) + 1
      BY <1>1
    <2>4. \A i \in DOMAIN new[b] : i < e /\ ~(i > e)
      BY <1>1, <2>1, <2>3
    <2>. QED BY <2>1, <2>2, <2>3, <2>4 DEF OneMore, CameFrom
  <1>3. CASE b \in W
    <2>1. PICK e \in 1..(Len(old[b]) + 1) : ReleasedIn(old, new, b, e, W, in_main)
      BY <1>3 DEF ReleasesAt
    <2>2. PICK sid : /\ Released(old[b], new[b], e, sid, in_main)
                     /\ e = Len(old[b]) + 1 \/ IsExit(old[b][e])
      BY <2>1 DEF ReleasedIn
    <2>3. e \in Nat /\ Len(new[b]) = Len(old[b]) + 1
      BY <1>1, <2>2 DEF Released
    <2>4. ASSUME NEW i \in DOMAIN new[b], i > e
          PROVE  e + 1 \in DOMAIN new[b] /\ IsExit(new[b][e + 1])
      <3>1. e + 1 \in DOMAIN new[b] /\ e + 1 \in (e + 1)..(Len(old[b]) + 1) /\ e # Len(old[b]) + 1
        BY <1>1, <2>3, <2>4
      <3>2. PICK m : m = e + 1 /\ m - 1 = e
        BY <2>3
      <3>3. Marked(old[b][e], new[b][m], in_main)
        BY <2>2, <3>1, <3>2 DEF Released
      <3>. QED BY <2>2, <3>1, <3>2, <3>3 DEF Marked, IsExit
    <2>5. ASSUME NEW j \in DOMAIN old[b]
          PROVE  \E i \in DOMAIN new[b] : Marked(old[b][j], new[b][i], in_main)
      <3>1. CASE j < e
        <4>1. j \in 1..(e - 1) /\ j \in DOMAIN new[b]
          BY <1>1, <2>3, <3>1
        <4>. QED BY <2>2, <4>1 DEF Released
      <3>2. CASE j >= e
        <4>1. PICK i : i = j + 1 /\ i - 1 = j
          BY <1>1
        <4>2. i \in (e + 1)..(Len(old[b]) + 1) /\ i \in DOMAIN new[b]
          BY <1>1, <2>3, <3>2, <4>1
        <4>. QED BY <2>2, <4>1, <4>2 DEF Released
      <3>3. j < e \/ j >= e
        BY <1>1, <2>3
      <3>. QED BY <3>1, <3>2, <3>3
    <2>6. OneMore(old, new, b, e, in_main)
      <3>1. SubBlocks(FreeNode(sid)) = {} /\ FreeNode(sid).kind = "free"
        BY DEF FreeNode, Leaf, SubBlocks
      <3>2. ASSUME NEW i \in DOMAIN new[b]
            PROVE  \/ i < e /\ CameFrom(old, new, b, i, i, in_main)
                   \/ i = e /\ new[b][i].kind = "free" /\ SubBlocks(new[b][i]) = {}
                   \/ i > e /\ CameFrom(old, new, b, i, i - 1, in_main)
        <4>1. i \in 1..(Len(old[b]) + 1)
          BY <1>1, <2>3
        <4>2. CASE i < e
          <5>1. i \in 1..(e - 1) /\ i \in DOMAIN old[b]
            BY <1>1, <2>3, <4>1, <4>2
          <5>. QED BY <2>2, <4>2, <5>1 DEF Released, CameFrom
        <4>3. CASE i = e
          BY <2>2, <3>1, <4>3 DEF Released
        <4>4. CASE i > e
          <5>1. i \in (e + 1)..(Len(old[b]) + 1) /\ i - 1 \in DOMAIN old[b]
            BY <1>1, <2>3, <4>1, <4>4
          <5>. QED BY <2>2, <4>4, <5>1 DEF Released, CameFrom
        <4>5. i < e \/ i = e \/ i > e
          BY <2>3, <4>1
        <4>. QED BY <4>2, <4>3, <4>4, <4>5
      <3>. QED BY <3>2 DEF OneMore
    <2>. QED BY <2>3, <2>4, <2>5, <2>6
  <1>. QED BY <1>2, <1>3

-----------------------------------------------------------------------------
(* The text as ASTBuilder reads it.                                        *)

Shape(tree) == ParentsFirst(tree) /\ OneOwner(tree)

\* The blocks that are owned have been opened.
Opened(tree, n) ==
    \A b \in Block : \A i \in DOMAIN tree[b] : \A c \in SubBlocks(tree[b][i]) : c <= n

NoFrees(tree) == \A b \in Block : \A i \in DOMAIN tree[b] : tree[b][i].kind # "free"

\* Which scopes the returns note.
ReturnsNote(tree, S) ==
    \A b \in Block : \A i \in DOMAIN tree[b] :
        tree[b][i].kind = "return" => tree[b][i].scope_id \in S

\* A tree in which statement q of block p is new, or has got a new block.
LEMMA NewOwner ==
    ASSUME NEW old \in Tree, NEW new \in Tree, NEW n \in Nat, NEW p \in Block, NEW q \in Nat,
           Shape(old), Opened(old, n), p <= n,
           \A b \in Block : \A i \in DOMAIN new[b] : b # p \/ i # q =>
              i \in DOMAIN old[b] /\ new[b][i] = old[b][i],
           \A c \in SubBlocks(new[p][q]) :
              c = n + 1 \/ (q \in DOMAIN old[p] /\ c \in SubBlocks(old[p][q]))
    PROVE  Shape(new) /\ Opened(new, n + 1)
  <1>. DEFINE At(t, b, i) == SubBlocks(t[b][i])
  <1>1. ASSUME NEW b \in Block, NEW i \in DOMAIN new[b], NEW c \in At(new, b, i)
        PROVE  /\ c \in Block /\ b < c /\ c <= n + 1
               /\ \/ c = n + 1 /\ b = p /\ i = q
                  \/ c <= n /\ i \in DOMAIN old[b] /\ c \in At(old, b, i)
    <2>1. c \in Block
      BY StatsOfTree, StatProps
    <2>2. CASE i \in DOMAIN old[b] /\ c \in At(old, b, i)
      <3>1. b < c /\ c <= n
        BY <2>2 DEF Shape, ParentsFirst, Opened
      <3>. QED BY <2>1, <2>2, <3>1 DEF Block
    <2>3. CASE ~(i \in DOMAIN old[b] /\ c \in At(old, b, i))
      <3>1. b = p /\ i = q /\ c = n + 1
        BY <2>3
      <3>. QED BY <2>1, <3>1 DEF Block
    <2>. QED BY <2>2, <2>3
  <1>. HIDE DEF At
  <1>2. n + 1 > n /\ \A c \in Block : c <= n => c # n + 1
    BY DEF Block
  <1>3. ParentsFirst(new) /\ Opened(new, n + 1)
    BY <1>1 DEF ParentsFirst, Opened, At
  <1>4. ASSUME NEW b1 \in Block, NEW b2 \in Block, NEW i \in DOMAIN new[b1], NEW j \in DOMAIN new[b2],
               NEW c \in At(new, b1, i), c \in At(new, b2, j)
        PROVE  b1 = b2 /\ i = j
    <2>1. CASE c = n + 1
      BY <1>1, <1>2, <1>4, <2>1
    <2>2. CASE c # n + 1
      <3>1. /\ i \in DOMAIN old[b1] /\ c \in At(old, b1, i)
            /\ j \in DOMAIN old[b2] /\ c \in At(old, b2, j)
        BY <1>1, <1>4, <2>2
      <3>. QED BY <3>1 DEF Shape, OneOwner, At
    <2>. QED BY <2>1, <2>2
  <1>5. OneOwner(new)
    BY <1>4 DEF OneOwner, At
  <1>. QED BY <1>3, <1>5 DEF Shape

\* A tree with one statement more.
Pushed(tree, p, s) == [tree EXCEPT ![p] = Append(@, s)]

LEMMA PushedTree ==
    ASSUME NEW tree \in Tree, NEW p \in Block, NEW s \in Stat,
           NEW new, new = Pushed(tree, p, s)
    PROVE  /\ new \in Tree
           /\ Len(tree[p]) + 1 \in Nat
           /\ new[p][Len(tree[p]) + 1] = s
           /\ \A b \in Block : \A i \in DOMAIN new[b] : b # p \/ i # Len(tree[p]) + 1 =>
                i \in DOMAIN tree[b] /\ new[b][i] = tree[b][i]
  <1>1. tree[p] \in Seq(Stat) /\ Len(tree[p]) \in Nat /\ DOMAIN tree[p] = 1..Len(tree[p])
    BY StatsOfTree
  <1>2. /\ Append(tree[p], s) \in Seq(Stat)
        /\ Len(Append(tree[p], s)) = Len(tree[p]) + 1
        /\ \A i \in 1..Len(tree[p]) : Append(tree[p], s)[i] = tree[p][i]
        /\ Append(tree[p], s)[Len(tree[p]) + 1] = s
        /\ DOMAIN Append(tree[p], s) = 1..(Len(tree[p]) + 1)
    BY ONLY <1>1, s \in Stat
  <1>3. new \in Tree
    BY <1>2 DEF Tree, Pushed
  <1>4. new[p] = Append(tree[p], s) /\ \A b \in Block \ {p} : new[b] = tree[b]
    BY DEF Tree, Pushed
  <1>. QED BY <1>1, <1>2, <1>3, <1>4

\* What is known of the tree while the text is read.
BuildInv ==
    /\ Shape(stat_nodes) /\ Opened(stat_nodes, used)
    /\ \A k \in DOMAIN open : open[k] <= used
    /\ NoFrees(stat_nodes) /\ ReturnsNote(stat_nodes, {NoScope})

\* Reading the text keeps it.
LEMMA BuildKeepsInv ==
    ASSUME BuilderTypeOK, BuildInv, Build
    PROVE  BuildInv'
  <1>. USE DEF BuilderTypeOK
  <1>0. used \in Nat /\ Len(open) \in Nat /\ DOMAIN open = 1..Len(open)
    BY DEF Block
  <1>1. open # <<>> => Top(open) \in Block /\ Top(open) <= used
    BY <1>0 DEF BuildInv, Top
  <1>10. \A k \in 1..Len(open) : open[k] \in Nat /\ open[k] <= used
    <2>1. \A k \in 1..Len(open) : open[k] \in Block
      OBVIOUS
    <2>. QED BY <1>0, <2>1 DEF BuildInv, Block
  <1>11. PICK L \in Nat : L = Len(open)
    BY <1>0
  <1>2. ASSUME open # <<>>, NEW s \in Stat, PushBack(s), \A c \in SubBlocks(s) : c = used + 1,
               s.kind # "free", s.kind = "return" => s.scope_id = NoScope
        PROVE  /\ Shape(stat_nodes') /\ Opened(stat_nodes', used + 1)
               /\ NoFrees(stat_nodes') /\ ReturnsNote(stat_nodes', {NoScope})
               /\ SubBlocks(s) = {} => Opened(stat_nodes', used)
    <2>1. PICK p \in Block : p = Top(open)
      BY <1>1, <1>2
    <2>3. PICK tree \in Tree : tree = stat_nodes
      OBVIOUS
    <2>2. PICK new : new = stat_nodes' /\ new = [tree EXCEPT ![p] = Append(@, s)]
      BY <1>2, <2>1, <2>3 DEF PushBack
    <2>4. PICK q \in Nat : q = Len(tree[p]) + 1
      BY <2>1, <2>3, StatsOfTree
    <2>5. /\ new \in Tree /\ new[p][q] = s
          /\ \A b \in Block : \A i \in DOMAIN new[b] : b # p \/ i # q =>
                i \in DOMAIN tree[b] /\ new[b][i] = tree[b][i]
      <3>1. new = Pushed(tree, p, s)
        BY <2>2 DEF Pushed
      <3>2. /\ new \in Tree
            /\ new[p][Len(tree[p]) + 1] = s
            /\ \A b \in Block : \A i \in DOMAIN new[b] : b # p \/ i # Len(tree[p]) + 1 =>
                 i \in DOMAIN tree[b] /\ new[b][i] = tree[b][i]
        BY ONLY <3>1, PushedTree, p \in Block, tree \in Tree, s \in Stat
      <3>. QED BY ONLY <2>4, <3>2
    <2>6. Shape(new) /\ Opened(new, used + 1)
      <3>1. PICK n \in Nat : n = used
        BY <1>0
      <3>2. Shape(tree) /\ Opened(tree, n) /\ p <= n
        BY <1>1, <1>2, <2>1, <2>3, <3>1 DEF BuildInv
      <3>3. \A c \in SubBlocks(new[p][q]) : c = n + 1
        BY <1>2, <2>5, <3>1
      <3>4. Shape(new) /\ Opened(new, n + 1)
        BY ONLY <2>5, <3>2, <3>3, NewOwner, p \in Block, tree \in Tree, q \in Nat, n \in Nat
      <3>. QED BY <3>1, <3>4
    <2>7. NoFrees(new) /\ ReturnsNote(new, {NoScope})
      BY <1>2, <2>3, <2>5 DEF BuildInv, NoFrees, ReturnsNote
    <2>8. SubBlocks(s) = {} => Opened(new, used)
      BY <2>3, <2>5 DEF BuildInv, Opened
    <2>. QED BY <2>2, <2>6, <2>7, <2>8
  <1>3. ASSUME NEW k \in LeafKind \ {"free"}, open # <<>>, PushBack(Leaf(k)), used' = used
        PROVE  /\ Shape(stat_nodes') /\ Opened(stat_nodes', used')
               /\ NoFrees(stat_nodes') /\ ReturnsNote(stat_nodes', {NoScope})
    <2>1. PICK s \in Stat : s = Leaf(k)
      BY NewStats
    <2>2. s.kind = k /\ s.scope_id = NoScope /\ SubBlocks(s) = {}
      BY <2>1 DEF Leaf, SubBlocks
    <2>. QED BY <1>2, <1>3, <2>1, <2>2
  <1>4. CASE ReadLeaf
    <2>1. PICK k \in LeafKinds : PushBack(Leaf(k))
      BY <1>4 DEF ReadLeaf
    <2>2. k \in LeafKind \ {"free"} /\ open # <<>> /\ used' = used /\ open' = open
      BY <1>4, ASTBuilderAssumption DEF ReadLeaf, Reading
    <2>. QED BY <1>3, <2>1, <2>2 DEF BuildInv
  <1>5. CASE OpenBody
    <2>1. PICK k \in LoopKinds \cup {"block", "cond"} : PushBack(Owning(k, used + 1))
      BY <1>5 DEF OpenBody
    <2>2. k \in Kind \ LeafKind /\ used + 1 \in Block
      BY <1>5, ASTBuilderAssumption, MaxBlocksAssumption
      DEF Kind, LeafKind, LoopKind, ExitKind, OpenBody, Block
    <2>3. PICK s \in Stat : s = Owning(k, used + 1)
      BY <2>2, NewStats
    <2>4. s.kind = k /\ s.body = used + 1 /\ s.alt = NoBlock
      BY <2>3 DEF Owning, Leaf
    <2>5. s.kind # "free" /\ s.kind # "return" /\ \A c \in SubBlocks(s) : c = used + 1
      BY <2>2, <2>4 DEF LeafKind, SubBlocks
    <2>6. open # <<>> /\ used' = used + 1 /\ open' = Append(open, used + 1)
      BY <1>5 DEF OpenBody, Reading
    <2>7. \A k1 \in DOMAIN open' : open'[k1] <= used'
      <3>1. /\ Len(open') = Len(open) + 1 /\ open' \in Seq(Block)
            /\ \A k1 \in 1..Len(open) : open'[k1] = open[k1]
            /\ open'[Len(open) + 1] = used + 1
        BY <2>2, <2>6, AppendProps
      <3>3. DOMAIN open' = 1..(Len(open) + 1)
        BY <3>1
      <3>4. ASSUME NEW k1 \in 1..(Len(open) + 1) PROVE open'[k1] <= used + 1
        <4>1. k1 \in 1..L \/ k1 = L + 1
          BY <1>11
        <4>. QED BY <1>0, <1>10, <1>11, <3>1, <4>1
      <3>. QED BY <2>6, <3>3, <3>4
    <2>. QED BY <1>2, <2>1, <2>3, <2>5, <2>6, <2>7 DEF BuildInv
  <1>. DEFINE parent == open[Len(open) - 1]
              last   == Len(stat_nodes[parent])
  <1>6. CASE OpenElse
    <2>1. /\ Len(open) > 1 /\ last > 0 /\ used + 1 \in Block
          /\ stat_nodes[parent][last].kind = "cond"
          /\ stat_nodes' = [stat_nodes EXCEPT ![parent][last].alt = used + 1]
          /\ used' = used + 1 /\ open' = SetTop(open, used + 1)
      BY <1>6, MaxBlocksAssumption DEF OpenElse, Block
    <2>2. PICK p \in Block : p = parent /\ p <= used
      <3>1. Len(open) - 1 \in 1..Len(open)
        BY <1>0, <2>1
      <3>2. parent \in Block
        BY <3>1
      <3>. QED BY <1>10, <3>1, <3>2
    <2>3. PICK tree \in Tree : tree = stat_nodes
      OBVIOUS
    <2>4. PICK q \in Nat : q = last /\ q \in DOMAIN tree[p] /\ tree[p][q] \in Stat
      BY <2>1, <2>2, <2>3, StatsOfTree
    <2>5. PICK s \in Stat : /\ s = [tree[p][q] EXCEPT !.alt = used + 1]
                            /\ s.kind = "cond"
                            /\ \A c \in SubBlocks(s) : c = used + 1 \/ c \in SubBlocks(tree[p][q])
      <3>1. PICK s0 \in Stat : s0 = tree[p][q] /\ s0.kind = "cond"
        BY <2>1, <2>2, <2>3, <2>4
      <3>2. [s0 EXCEPT !.alt = used + 1] \in Stat
        BY ONLY <2>1, <3>1, WithElse
      <3>3. [s0 EXCEPT !.alt = used + 1].kind = s0.kind
            /\ [s0 EXCEPT !.alt = used + 1].body = s0.body
            /\ [s0 EXCEPT !.alt = used + 1].alt = used + 1
        BY DEF Stat, NodeFields
      <3>. QED BY <3>1, <3>2, <3>3 DEF SubBlocks
    <2>6. PICK new : new = stat_nodes' /\ new = [tree EXCEPT ![p] = [@ EXCEPT ![q] = s]]
      BY <2>1, <2>2, <2>3, <2>4, <2>5
    <2>7. tree[p] \in Seq(Stat) /\ DOMAIN tree[p] = 1..Len(tree[p])
      BY StatsOfTree
    <2>8. /\ [tree[p] EXCEPT ![q] = s] \in Seq(Stat)
          /\ DOMAIN [tree[p] EXCEPT ![q] = s] = DOMAIN tree[p]
      BY ONLY <2>4, <2>7, s \in Stat
    <2>9. new \in Tree
      BY <2>6, <2>8 DEF Tree
    <2>10. /\ \A b \in Block : \A i \in DOMAIN new[b] : b # p \/ i # q =>
                i \in DOMAIN tree[b] /\ new[b][i] = tree[b][i]
           /\ new[p][q] = s
      BY <2>4, <2>6, <2>8 DEF Tree
    <2>11. Shape(new) /\ Opened(new, used + 1)
      <3>1. PICK n \in Nat : n = used
        BY <1>0
      <3>2. Shape(tree) /\ Opened(tree, n) /\ p <= n
        BY <2>2, <2>3, <3>1 DEF BuildInv
      <3>3. \A c \in SubBlocks(new[p][q]) :
               c = n + 1 \/ (q \in DOMAIN tree[p] /\ c \in SubBlocks(tree[p][q]))
        BY <2>4, <2>5, <2>10, <3>1
      <3>4. Shape(new) /\ Opened(new, n + 1)
        BY ONLY <2>9, <2>10, <3>2, <3>3, NewOwner, p \in Block, tree \in Tree, q \in Nat, n \in Nat
      <3>. QED BY <3>1, <3>4
    <2>12. NoFrees(new) /\ ReturnsNote(new, {NoScope})
      <3>1. NoFrees(tree) /\ ReturnsNote(tree, {NoScope})
        BY <2>3 DEF BuildInv
      <3>2. new[p][q].kind = "cond"
        BY <2>5, <2>10
      <3>. QED BY ONLY <2>10, <3>1, <3>2 DEF NoFrees, ReturnsNote
    <2>13. \A k1 \in DOMAIN open' : open'[k1] <= used'
      <3>1. /\ Len(open') = Len(open) /\ open' \in Seq(Block)
            /\ \A k1 \in 1..(Len(open) - 1) : open'[k1] = open[k1]
            /\ open'[Len(open)] = used + 1
        <4>1. open # <<>>
          BY <2>1
        <4>2. PICK c \in Block : c = used + 1
          BY <2>1
        <4>3. PICK o \in Seq(Block) : o = open
          OBVIOUS
        <4>4. /\ SetTop(o, c) \in Seq(Block)
              /\ Len(SetTop(o, c)) = Len(o)
              /\ \A i \in 1..(Len(o) - 1) : SetTop(o, c)[i] = o[i]
              /\ SetTop(o, c)[Len(o)] = c
          BY ONLY <4>1, <4>3, SetTopProps, o \in Seq(Block), c \in Block
        <4>. QED BY <2>1, <4>2, <4>3, <4>4
      <3>3. DOMAIN open' = 1..Len(open)
        BY <3>1
      <3>4. ASSUME NEW k1 \in 1..Len(open) PROVE open'[k1] <= used + 1
        <4>1. PICK k2 \in 1..L : k2 = k1
          BY <1>11
        <4>2. CASE k2 = L
          BY <1>0, <1>11, <3>1, <4>1, <4>2
        <4>3. CASE k2 # L
          <5>1. k2 \in 1..(L - 1)
            BY <4>3
          <5>2. open'[k2] = open[k2] /\ open[k2] \in Nat /\ open[k2] <= used
            BY ONLY <1>10, <1>11, <3>1, <5>1, k2 \in 1..L
          <5>. QED BY <1>0, <4>1, <5>2
        <4>. QED BY <4>2, <4>3
      <3>. QED BY <2>1, <3>3, <3>4
    <2>. QED BY <2>1, <2>6, <2>11, <2>12, <2>13 DEF BuildInv
  <1>7. CASE CloseBody
    <2>1. open # <<>> /\ open' = Pop(open) /\ UNCHANGED <<stat_nodes, used>>
      BY <1>7 DEF CloseBody
    <2>2. Len(open) \in 1..(Len(open) + 1)
      BY <1>0, <1>7 DEF CloseBody
    <2>3. /\ open' \in Seq(Block) /\ Len(open') = Len(open) - 1
          /\ \A k \in 1..(Len(open) - 1) : open'[k] = open[k]
      BY <2>1, <2>2, BelowProps DEF Pop
    <2>4. DOMAIN open' = 1..(L - 1)
      BY <1>11, <2>3
    <2>5. ASSUME NEW k \in 1..(L - 1) PROVE open'[k] <= used
      <3>1. k \in 1..L
        OBVIOUS
      <3>. QED BY <1>10, <1>11, <2>3, <3>1
    <2>. QED BY <2>1, <2>4, <2>5 DEF BuildInv
  <1>8. CASE CloseSubroutine
    <2>1. open # <<>> /\ open' = <<>> /\ used' = used
      BY <1>8, LenProps DEF CloseSubroutine
    <2>2. CASE UNCHANGED stat_nodes
      BY <2>1, <2>2 DEF BuildInv
    <2>3. CASE PushBack(Leaf("return"))
      <3>1. PICK k \in LeafKind \ {"free"} : k = "return"
        BY DEF LeafKind
      <3>2. PushBack(Leaf(k))
        BY <2>3, <3>1
      <3>3. /\ Shape(stat_nodes') /\ Opened(stat_nodes', used')
            /\ NoFrees(stat_nodes') /\ ReturnsNote(stat_nodes', {NoScope})
        BY <1>3, <2>1, <3>2
      <3>. QED BY <2>1, <3>3 DEF BuildInv
    <2>. QED BY <1>8, <2>2, <2>3 DEF CloseSubroutine
  <1>. QED BY <1>4, <1>5, <1>6, <1>7, <1>8 DEF Build

-----------------------------------------------------------------------------
(* The pruning walks, step by step.                                        *)

\* A frame of the walk that is not past a statement to stop at, and one whose
\* block has just been cut behind such a statement.
BeforeStop(tree, stops, nodes, f) ==
    /\ nodes[f.block] = tree[f.block]
    /\ f.pc <= Len(tree[f.block]) + 1
    /\ \A i \in stops[f.block] : i >= f.pc

BehindStop(tree, stops, nodes, f) ==
    /\ nodes[f.block] = SubSeq(tree[f.block], 1, CutAt(tree, stops)[f.block])
    /\ f.pc = CutAt(tree, stops)[f.block] + 1

\* The walk is inside the block of this frame: it has left the blocks of the
\* statements before.  A walk that goes on behind the statement it cuts
\* at, to find the end of the block, has the mode "stays".
Halfway(tree, stops, V, nodes, mode, f) ==
    /\ f.block \in Walked(tree, CutAt(tree, stops)) \ V
    /\ \A i \in 1..(f.pc - 1) : SubBlocks(tree[f.block][i]) \subseteq V
    /\ \/ BeforeStop(tree, stops, nodes, f)
       \/ mode = "stays" /\ BehindStop(tree, stops, nodes, f)

\* The walk has left this block: it is cut and so is all that is below it.
Left(tree, stops, V, nodes, b) ==
    /\ b \in Walked(tree, CutAt(tree, stops))
    /\ nodes[b] = SubSeq(tree[b], 1, CutAt(tree, stops)[b])
    /\ Kids(tree, CutAt(tree, stops), b) \subseteq V

OnStack(stack, b) == \E k \in 1..Len(stack) : stack[k].block = b

\* The walk has left the blocks V and is inside those on its stack, each one
\* below the one before; what it has not come to is untouched.
WalkOf(tree, stops, V, nodes, stack, mode) ==
    /\ \A b \in V : Left(tree, stops, V, nodes, b)
    /\ \A b \in Block \ V : ~OnStack(stack, b) => nodes[b] = tree[b]
    /\ \A k \in 1..Len(stack) : Halfway(tree, stops, V, nodes, mode, stack[k])
    /\ \A j, k \in 1..Len(stack) : j < k => stack[j].block < stack[k].block

\* resize(i + 1): the block of the frame ends at the statement the walk is at.
CutHere(nodes, f) == [nodes EXCEPT ![f.block] = SubSeq(@, 1, f.pc)]

\* The walk is at a statement it cuts at, and has left its blocks.
AtStop(tree, stops, V, nodes, f) ==
    /\ InRange(nodes, f)
    /\ SubBlocks(StatAt(nodes, f)) \subseteq V
    /\ f.pc \in stops[f.block]

\* The beginning of a sequence.
LEMMA PrefixProps ==
    ASSUME NEW S, NEW s \in Seq(S), NEW m \in 0..Len(s)
    PROVE  /\ SubSeq(s, 1, m) \in Seq(S)
           /\ Len(SubSeq(s, 1, m)) = m
  OBVIOUS

\* The blocks a walk reaches are blocks.
LEMMA WalkedBlocks ==
    ASSUME NEW tree \in Tree, ParentsFirst(tree), NEW stops, StopsIn(tree, stops),
           NEW W, W = Walked(tree, CutAt(tree, stops))
    PROVE  /\ W \subseteq Block /\ Root \in W
           /\ \A b \in W : Kids(tree, CutAt(tree, stops), b) \subseteq W
           /\ \A x \in W \ {Root} : \E c \in W : x \in Kids(tree, CutAt(tree, stops), c)
  <1>1. ReachedWell(tree, CutAt(tree, stops), Root)
    BY CutAtProps, WalkedFromProps, RootIsBlock
  <1>. QED BY <1>1 DEF ReachedWell, Walked

\* A walk that has not begun.
LEMMA WalkStarts ==
    ASSUME NEW tree \in Tree, ParentsFirst(tree), NEW stops, StopsIn(tree, stops),
           NEW stack, stack = <<Enter(Root)>>, NEW mode
    PROVE  WalkOf(tree, stops, {}, tree, stack, mode)
  <1>1. Len(stack) = 1 /\ stack[1].block = Root /\ stack[1].pc = 1
    BY FrameProps, RootIsBlock
  <1>2. Root \in Walked(tree, CutAt(tree, stops))
    BY WalkedBlocks
  <1>3. \A i \in stops[Root] : i >= 1
    BY RootIsBlock, StatsOfTree DEF StopsIn
  <1>4. BeforeStop(tree, stops, tree, stack[1])
    BY <1>1, <1>3, RootIsBlock, StatsOfTree DEF BeforeStop
  <1>. HIDE DEF BeforeStop
  <1>5. ASSUME NEW k \in 1..Len(stack)
        PROVE  Halfway(tree, stops, {}, tree, mode, stack[k])
    <2>1. k = 1
      BY <1>1
    <2>. QED BY <1>1, <1>2, <1>4, <2>1 DEF Halfway
  <1>6. \A j, k \in 1..Len(stack) : j < k => stack[j].block < stack[k].block
    BY <1>1
  <1>. QED BY <1>5, <1>6 DEF WalkOf

\* The frame on top of the walk's stack.
LEMMA WalkTop ==
    ASSUME NEW tree \in Tree, ParentsFirst(tree), NEW stops, StopsIn(tree, stops),
           NEW V, NEW nodes \in Tree, NEW stack \in Seq(Frame), stack # <<>>,
           NEW mode, WalkOf(tree, stops, V, nodes, stack, mode),
           NEW f, f = Top(stack), NEW cut, cut = CutAt(tree, stops)
    PROVE  /\ Len(stack) \in Nat \ {0} /\ f = stack[Len(stack)]
           /\ f.block \in Block \ V /\ f.pc \in Nat \ {0} /\ f \in Frame
           /\ InRange(nodes, f) =>
                /\ BeforeStop(tree, stops, nodes, f)
                /\ f.pc \in 1..cut[f.block] /\ f.pc <= Len(tree[f.block])
                /\ StatAt(nodes, f) = tree[f.block][f.pc] /\ StatAt(nodes, f) \in Stat
                /\ f.pc \in stops[f.block] => cut[f.block] = f.pc
  <1>1. Len(stack) \in Nat \ {0} /\ Len(stack) \in 1..Len(stack)
    BY LenProps, OneOrMore
  <1>2. f = stack[Len(stack)] /\ f \in Frame
    BY TopProps DEF Top
  <1>3. /\ f.block \in Walked(tree, cut) \ V
        /\ \/ BeforeStop(tree, stops, nodes, f)
           \/ BehindStop(tree, stops, nodes, f)
    BY <1>1, <1>2 DEF WalkOf, Halfway
  <1>4. PICK b \in Block \ V : b = f.block
    BY <1>3, WalkedBlocks
  <1>5. PICK pc \in Nat \ {0} : pc = f.pc
    BY <1>2 DEF Frame
  <1>6. /\ Len(tree[b]) \in Nat /\ tree[b] \in Seq(Stat) /\ nodes[b] \in Seq(Stat)
        /\ cut[b] \in Nat /\ cut[b] <= Len(tree[b])
        /\ stops[b] = {} => cut[b] = Len(tree[b])
        /\ stops[b] # {} => cut[b] \in stops[b] /\ \A i \in stops[b] : cut[b] <= i
    BY CutAtProps, StatsOfTree DEF CutOf
  <1>7. ASSUME InRange(nodes, f)
        PROVE  /\ BeforeStop(tree, stops, nodes, f)
               /\ pc \in 1..cut[b] /\ pc <= Len(tree[b])
               /\ StatAt(nodes, f) = tree[b][pc] /\ StatAt(nodes, f) \in Stat
               /\ pc \in stops[b] => cut[b] = pc
    <2>1. BeforeStop(tree, stops, nodes, f)
      <3>1. SUFFICES ASSUME BehindStop(tree, stops, nodes, f) PROVE FALSE
        BY <1>3
      <3>2. nodes[b] = SubSeq(tree[b], 1, cut[b]) /\ pc = cut[b] + 1
        BY <1>4, <1>5, <3>1 DEF BehindStop
      <3>3. Len(SubSeq(tree[b], 1, cut[b])) = cut[b]
        <4>1. cut[b] \in 0..Len(tree[b])
          BY <1>6
        <4>. QED BY <1>6, <4>1, PrefixProps
      <3>. QED BY <1>4, <1>5, <1>6, <1>7, <3>2, <3>3 DEF InRange
    <2>2. nodes[b] = tree[b] /\ \A i \in stops[b] : i >= pc
      BY <1>4, <1>5, <2>1 DEF BeforeStop
    <2>3. pc <= Len(tree[b])
      BY <1>4, <1>5, <1>7, <2>2 DEF InRange
    <2>4. pc \in 1..cut[b] /\ (pc \in stops[b] => cut[b] = pc)
      BY <1>6, <2>2, <2>3
    <2>5. tree[b][pc] \in Stat
      BY <2>3, <1>6
    <2>. QED BY <1>4, <1>5, <2>1, <2>2, <2>3, <2>4, <2>5 DEF StatAt
  <1>. QED BY <1>1, <1>2, <1>4, <1>5, <1>7

\* Down into a block of the statement the walk is at.
LEMMA WalkDescends ==
    ASSUME NEW tree \in Tree, ParentsFirst(tree), NEW stops, StopsIn(tree, stops),
           NEW V, NEW nodes \in Tree, NEW stack \in Seq(Frame), stack # <<>>,
           NEW mode, WalkOf(tree, stops, V, nodes, stack, mode),
           NEW f, f = Top(stack), InRange(nodes, f),
           NEW c \in SubBlocks(StatAt(nodes, f)), c \notin V,
           NEW new, new = Append(stack, Enter(c))
    PROVE  WalkOf(tree, stops, V, nodes, new, mode)
  <1>. DEFINE cut == CutAt(tree, stops)
  <1>1. /\ Len(stack) \in Nat \ {0} /\ f = stack[Len(stack)]
        /\ f.block \in Block \ V /\ f.pc \in Nat \ {0} /\ f \in Frame
        /\ f.pc \in 1..cut[f.block] /\ f.pc <= Len(tree[f.block])
        /\ StatAt(nodes, f) = tree[f.block][f.pc] /\ StatAt(nodes, f) \in Stat
    BY WalkTop
  <1>2. c \in Block
    BY <1>1, StatProps
  <1>3. Halfway(tree, stops, V, nodes, mode, f)
    BY <1>1 DEF WalkOf
  <1>4. c \in Walked(tree, cut)
    <2>1. c \in Kids(tree, cut, f.block)
      BY <1>1 DEF Kids
    <2>. QED BY <1>3, <2>1, WalkedBlocks DEF Halfway
  <1>5. f.block < c
    <2>1. f.pc \in DOMAIN tree[f.block]
      BY <1>1, StatsOfTree
    <2>. QED BY <1>1, <1>2, <2>1 DEF ParentsFirst
  <1>. HIDE DEF cut
  <1>6. PICK n \in Nat \ {0} : n = Len(stack)
    BY <1>1
  <1>7. \A k \in 1..n : stack[k] \in Frame /\ stack[k].block \in Nat /\ stack[k].block < c
    <2>1. \A k \in 1..n : stack[k] \in Frame
      BY <1>6
    <2>2. \A k \in 1..n : stack[k].block \in Nat
      BY <2>1 DEF Frame, Block
    <2>3. c \in Nat
      BY <1>2 DEF Block
    <2>4. \A k \in 1..n : k = n \/ stack[k].block < stack[n].block
      BY <1>6 DEF WalkOf
    <2>5. stack[n].block < c
      BY <1>1, <1>5, <1>6
    <2>. QED BY <2>1, <2>2, <2>3, <2>4, <2>5
  <1>8. ~OnStack(stack, c) /\ nodes[c] = tree[c]
    <2>1. ~OnStack(stack, c)
      BY <1>6, <1>7 DEF OnStack
    <2>. QED BY <1>2, <2>1 DEF WalkOf
  <1>9. /\ Len(new) = n + 1
        /\ \A k \in 1..n : new[k] = stack[k]
        /\ new[n + 1] = Enter(c) /\ Enter(c) \in Frame
    BY <1>2, <1>6, FrameProps, AppendProps
  <1>10. Enter(c).block = c /\ Enter(c).pc = 1
    BY <1>2, FrameProps
  <1>11. Halfway(tree, stops, V, nodes, mode, Enter(c))
    <2>1. \A i \in stops[c] : i >= 1
      BY <1>2, StatsOfTree DEF StopsIn
    <2>2. BeforeStop(tree, stops, nodes, Enter(c))
      BY <1>2, <1>8, <1>10, <2>1, StatsOfTree DEF BeforeStop
    <2>. QED BY <1>4, <1>10, <2>2 DEF Halfway, cut
  <1>12. ASSUME NEW k \in 1..Len(new) PROVE Halfway(tree, stops, V, nodes, mode, new[k])
    <2>1. k = n + 1 \/ k \in 1..n
      BY <1>9
    <2>. QED BY <1>6, <1>9, <1>11, <2>1 DEF WalkOf
  <1>13. ASSUME NEW j \in 1..Len(new), NEW k \in 1..Len(new), j < k
         PROVE  new[j].block < new[k].block
    <2>1. j \in 1..n /\ (k = n + 1 \/ k \in 1..n)
      BY <1>9, <1>13
    <2>. QED BY <1>6, <1>7, <1>9, <1>10, <1>13, <2>1 DEF WalkOf
  <1>14. ASSUME NEW b \in Block \ V, ~OnStack(new, b) PROVE nodes[b] = tree[b]
    <2>1. ~OnStack(stack, b)
      BY <1>6, <1>9, <1>14 DEF OnStack
    <2>. QED BY <2>1 DEF WalkOf
  <1>. QED BY <1>12, <1>13, <1>14 DEF WalkOf

\* A step of the frame on top: its block may have been cut.
LEMMA WalkTopMoves ==
    ASSUME NEW tree \in Tree, ParentsFirst(tree), NEW stops, StopsIn(tree, stops),
           NEW V, NEW nodes \in Tree, NEW stack \in Seq(Frame), stack # <<>>,
           NEW mode, WalkOf(tree, stops, V, nodes, stack, mode),
           NEW f, f = Top(stack), NEW nodes2 \in Tree,
           \A b \in Block : b # f.block => nodes2[b] = nodes[b],
           NEW new, new = SetTop(stack, Advance(f)),
           Halfway(tree, stops, V, nodes2, mode, Advance(f))
    PROVE  WalkOf(tree, stops, V, nodes2, new, mode)
  <1>1. /\ Len(stack) \in Nat \ {0} /\ f = stack[Len(stack)]
        /\ f.block \in Block \ V /\ f \in Frame
    BY WalkTop
  <1>2. PICK n \in Nat \ {0} : n = Len(stack)
    BY <1>1
  <1>3. Advance(f) \in Frame /\ Advance(f).block = f.block
    BY <1>1, FrameProps
  <1>4. /\ Len(new) = n
        /\ \A k \in 1..(n - 1) : new[k] = stack[k]
        /\ new[n] = Advance(f)
    <2>1. PICK e \in Frame : e = Advance(f)
      BY <1>3
    <2>2. new = SetTop(stack, e)
      BY <2>1
    <2>3. /\ Len(SetTop(stack, e)) = Len(stack)
          /\ \A k \in 1..(Len(stack) - 1) : SetTop(stack, e)[k] = stack[k]
          /\ SetTop(stack, e)[Len(stack)] = e
      BY SetTopProps
    <2>. QED BY <1>2, <2>1, <2>2, <2>3
  <1>5. \A k \in 1..n : new[k].block = stack[k].block
    <2>1. \A k \in 1..n : k = n \/ k \in 1..(n - 1)
      OBVIOUS
    <2>. QED BY <1>1, <1>2, <1>3, <1>4, <2>1
  <1>6. \A k \in 1..(n - 1) : stack[k].block # f.block
    <2>1. \A k \in 1..(n - 1) : k \in 1..n /\ n \in 1..n /\ k < n
      OBVIOUS
    <2>2. \A k \in 1..n : stack[k].block \in Nat
      <3>1. \A k \in 1..n : stack[k] \in Frame
        BY <1>2
      <3>. QED BY <3>1 DEF Frame, Block
    <2>. QED BY <1>1, <1>2, <2>1, <2>2 DEF WalkOf
  <1>7. ASSUME NEW k \in 1..Len(new) PROVE Halfway(tree, stops, V, nodes2, mode, new[k])
    <2>1. CASE k = n
      BY <1>4, <2>1
    <2>2. CASE k # n
      <3>1. k \in 1..(n - 1) /\ k \in 1..n
        BY <1>4, <2>2
      <3>2. Halfway(tree, stops, V, nodes, mode, stack[k])
        BY <1>2, <3>1 DEF WalkOf
      <3>3. stack[k] \in Frame
        BY <1>2, <3>1
      <3>4. nodes2[stack[k].block] = nodes[stack[k].block]
        BY <1>6, <3>1, <3>3 DEF Frame
      <3>. QED BY <1>4, <3>1, <3>2, <3>4 DEF Halfway, BeforeStop, BehindStop
    <2>. QED BY <2>1, <2>2
  <1>8. ASSUME NEW j \in 1..Len(new), NEW k \in 1..Len(new), j < k
        PROVE  new[j].block < new[k].block
    BY <1>2, <1>4, <1>5, <1>8 DEF WalkOf
  <1>9. ASSUME NEW b \in Block \ V, ~OnStack(new, b) PROVE nodes2[b] = tree[b]
    <2>1. ~OnStack(stack, b)
      BY <1>2, <1>4, <1>5, <1>9 DEF OnStack
    <2>2. b # f.block
      BY <1>1, <1>2, <2>1 DEF OnStack
    <2>. QED BY <2>1, <2>2 DEF WalkOf
  <1>10. ASSUME NEW b \in V PROVE Left(tree, stops, V, nodes2, b)
    <2>1. Left(tree, stops, V, nodes, b)
      BY DEF WalkOf
    <2>2. b \in Block /\ b # f.block
      BY <1>1, <2>1, WalkedBlocks DEF Left
    <2>. QED BY <2>1, <2>2 DEF Left
  <1>. QED BY <1>7, <1>8, <1>9, <1>10 DEF WalkOf

\* On to the next statement.
LEMMA WalkMoves ==
    ASSUME NEW tree \in Tree, ParentsFirst(tree), NEW stops, StopsIn(tree, stops),
           NEW V, NEW nodes \in Tree, NEW stack \in Seq(Frame), stack # <<>>,
           NEW mode, WalkOf(tree, stops, V, nodes, stack, mode),
           NEW f, f = Top(stack), InRange(nodes, f),
           SubBlocks(StatAt(nodes, f)) \subseteq V, f.pc \notin stops[f.block],
           NEW new, new = SetTop(stack, Advance(f))
    PROVE  WalkOf(tree, stops, V, nodes, new, mode)
  <1>1. /\ f.block \in Block \ V /\ f.pc \in Nat \ {0} /\ f \in Frame
        /\ BeforeStop(tree, stops, nodes, f)
        /\ f.pc <= Len(tree[f.block])
        /\ StatAt(nodes, f) = tree[f.block][f.pc]
    BY WalkTop
  <1>2. Advance(f).block = f.block /\ Advance(f).pc = f.pc + 1
    BY <1>1, FrameProps
  <1>3. Halfway(tree, stops, V, nodes, mode, f)
    <2>1. Len(stack) \in 1..Len(stack) /\ f = stack[Len(stack)]
      BY WalkTop
    <2>. QED BY <2>1 DEF WalkOf
  <1>4. \A i \in 1..((f.pc + 1) - 1) : SubBlocks(tree[f.block][i]) \subseteq V
    <2>1. \A i \in 1..((f.pc + 1) - 1) : i = f.pc \/ i \in 1..(f.pc - 1)
      BY <1>1
    <2>. QED BY <1>1, <1>3, <2>1 DEF Halfway
  <1>5. BeforeStop(tree, stops, nodes, Advance(f))
    <2>1. f.pc + 1 <= Len(tree[f.block]) + 1
      BY <1>1, StatsOfTree
    <2>2. \A i \in stops[f.block] : i >= f.pc + 1
      <3>1. \A i \in stops[f.block] : i \in Nat /\ i >= f.pc /\ i # f.pc
        BY <1>1 DEF BeforeStop, StopsIn
      <3>. QED BY <1>1, <3>1
    <2>. QED BY <1>1, <1>2, <2>1, <2>2 DEF BeforeStop
  <1>6. Halfway(tree, stops, V, nodes, mode, Advance(f))
    BY <1>2, <1>3, <1>4, <1>5 DEF Halfway
  <1>. QED BY <1>6, WalkTopMoves

\* The block of the frame on top is cut behind the statement the walk is at.
LEMMA WalkCut ==
    ASSUME NEW tree \in Tree, ParentsFirst(tree), NEW stops, StopsIn(tree, stops),
           NEW V, NEW nodes \in Tree, NEW stack \in Seq(Frame), stack # <<>>,
           NEW mode, WalkOf(tree, stops, V, nodes, stack, mode),
           NEW f, f = Top(stack), AtStop(tree, stops, V, nodes, f),
           NEW nodes2, nodes2 = CutHere(nodes, f)
    PROVE  /\ nodes2 \in Tree
           /\ \A b \in Block : b # f.block => nodes2[b] = nodes[b]
           /\ Left(tree, stops, V, nodes2, f.block)
           /\ f.pc = CutAt(tree, stops)[f.block]
  <1>. DEFINE cut == CutAt(tree, stops)
  <1>1. /\ f.block \in Block \ V /\ f.pc \in Nat \ {0} /\ f \in Frame
        /\ BeforeStop(tree, stops, nodes, f)
        /\ f.pc <= Len(tree[f.block])
        /\ StatAt(nodes, f) = tree[f.block][f.pc]
        /\ cut[f.block] = f.pc
    BY WalkTop DEF AtStop
  <1>2. nodes[f.block] \in Seq(Stat) /\ nodes[f.block] = tree[f.block]
    BY <1>1, StatsOfTree DEF BeforeStop
  <1>3. SubSeq(nodes[f.block], 1, f.pc) \in Seq(Stat)
    <2>1. f.pc \in 1..Len(nodes[f.block])
      BY <1>1, <1>2
    <2>. QED BY ONLY <1>2, <2>1
  <1>4. nodes2 \in Tree
    BY <1>1, <1>3 DEF Tree, CutHere
  <1>5. /\ nodes2[f.block] = SubSeq(tree[f.block], 1, cut[f.block])
        /\ \A b \in Block : b # f.block => nodes2[b] = nodes[b]
    BY <1>1, <1>2 DEF Tree, CutHere
  <1>6. Halfway(tree, stops, V, nodes, mode, f)
    <2>1. Len(stack) \in 1..Len(stack) /\ f = stack[Len(stack)]
      BY WalkTop
    <2>. QED BY <2>1 DEF WalkOf
  <1>7. \A i \in 1..cut[f.block] : SubBlocks(tree[f.block][i]) \subseteq V
    <2>1. \A i \in 1..cut[f.block] : i = f.pc \/ i \in 1..(f.pc - 1)
      BY <1>1
    <2>. QED BY <1>1, <1>6, <2>1 DEF Halfway, AtStop
  <1>8. Left(tree, stops, V, nodes2, f.block)
    <2>1. Kids(tree, cut, f.block) \subseteq V
      BY <1>7 DEF Kids
    <2>. QED BY <1>5, <1>6, <2>1 DEF Left, Halfway
  <1>. QED BY <1>1, <1>4, <1>5, <1>8

\* A walk that cuts a block and goes on to its end.
LEMMA WalkCuts ==
    ASSUME NEW tree \in Tree, ParentsFirst(tree), NEW stops, StopsIn(tree, stops),
           NEW V, NEW nodes \in Tree, NEW stack \in Seq(Frame), stack # <<>>,
           NEW mode, mode = "stays", WalkOf(tree, stops, V, nodes, stack, mode),
           NEW f, f = Top(stack), AtStop(tree, stops, V, nodes, f),
           NEW nodes2, nodes2 = CutHere(nodes, f),
           NEW new, new = SetTop(stack, Advance(f))
    PROVE  WalkOf(tree, stops, V, nodes2, new, mode)
  <1>1. /\ nodes2 \in Tree
        /\ \A b \in Block : b # f.block => nodes2[b] = nodes[b]
        /\ Left(tree, stops, V, nodes2, f.block)
        /\ f.pc = CutAt(tree, stops)[f.block]
    <2>1. nodes2 \in Tree
      BY WalkCut
    <2>2. Left(tree, stops, V, nodes2, f.block)
      BY WalkCut
    <2>3. f.pc = CutAt(tree, stops)[f.block]
      BY WalkTop DEF AtStop
    <2>4. ASSUME NEW b \in Block, b # f.block PROVE nodes2[b] = nodes[b]
      BY <2>4 DEF CutHere, Tree
    <2>. QED BY <2>1, <2>2, <2>3, <2>4
  <1>2. f.block \in Block \ V /\ f.pc \in Nat \ {0} /\ f \in Frame
    BY WalkTop
  <1>3. Advance(f).block = f.block /\ Advance(f).pc = f.pc + 1
    BY <1>2, FrameProps
  <1>4. \A i \in 1..((f.pc + 1) - 1) : SubBlocks(tree[f.block][i]) \subseteq V
    <2>1. \A i \in 1..((f.pc + 1) - 1) : i \in 1..f.pc
      BY <1>2
    <2>2. \A i \in 1..f.pc : SubBlocks(tree[f.block][i]) \subseteq V
      BY <1>1 DEF Left, Kids
    <2>. QED BY <2>1, <2>2
  <1>5. BehindStop(tree, stops, nodes2, Advance(f))
    BY <1>1, <1>3 DEF BehindStop, Left
  <1>6. Halfway(tree, stops, V, nodes2, mode, Advance(f))
    BY <1>1, <1>2, <1>3, <1>4, <1>5 DEF Halfway, Left
  <1>. QED BY <1>1, <1>6, WalkTopMoves

\* A walk that does not cut while it is in a block finds no statement to stop
\* at when it comes to the end.
NoStopLeft(stops, mode, f) == mode = "stays" \/ stops[f.block] = {}

\* At the end of a block everything has been done that leaving it needs.
LEMMA WalkAtEnd ==
    ASSUME NEW tree \in Tree, ParentsFirst(tree), NEW stops, StopsIn(tree, stops),
           NEW V, NEW nodes \in Tree, NEW stack \in Seq(Frame), stack # <<>>,
           NEW mode, WalkOf(tree, stops, V, nodes, stack, mode),
           NEW f, f = Top(stack), ~InRange(nodes, f)
    PROVE  /\ Left(tree, stops, V, nodes, f.block)
           /\ NoStopLeft(stops, mode, f)
  <1>. DEFINE cut == CutAt(tree, stops)
  <1>1. f.block \in Block \ V /\ f.pc \in Nat \ {0} /\ f \in Frame
    BY WalkTop
  <1>2. Halfway(tree, stops, V, nodes, mode, f)
    <2>1. Len(stack) \in 1..Len(stack) /\ f = stack[Len(stack)]
      BY WalkTop
    <2>. QED BY <2>1 DEF WalkOf
  <1>3. PICK b \in Block \ V : b = f.block
    BY <1>1
  <1>4. PICK pc \in Nat \ {0} : pc = f.pc
    BY <1>1
  <1>5. /\ Len(tree[b]) \in Nat /\ tree[b] \in Seq(Stat) /\ stops[b] \subseteq 1..Len(tree[b])
        /\ cut[b] \in Nat /\ cut[b] <= Len(tree[b])
        /\ stops[b] = {} => cut[b] = Len(tree[b])
    BY CutAtProps, StatsOfTree DEF CutOf, StopsIn
  <1>6. CASE BeforeStop(tree, stops, nodes, f)
    <2>1. /\ nodes[b] = tree[b] /\ pc = Len(tree[b]) + 1
          /\ \A i \in stops[b] : i >= pc
      BY <1>3, <1>4, <1>5, <1>6 DEF BeforeStop, InRange
    <2>2. stops[b] = {} /\ cut[b] = Len(tree[b])
      BY <1>5, <2>1
    <2>3. nodes[b] = SubSeq(tree[b], 1, cut[b])
      <3>1. tree[b] = SubSeq(tree[b], 1, Len(tree[b]))
        BY ONLY <1>5
      <3>. QED BY <2>1, <2>2, <3>1
    <2>4. Kids(tree, cut, b) \subseteq V
      <3>1. cut[b] = pc - 1
        BY <1>5, <2>1, <2>2
      <3>. QED BY <1>2, <1>3, <1>4, <3>1 DEF Halfway, Kids
    <2>. QED BY <1>2, <1>3, <2>2, <2>3, <2>4 DEF Left, Halfway, NoStopLeft
  <1>7. CASE mode = "stays" /\ BehindStop(tree, stops, nodes, f)
    <2>1. cut[b] = pc - 1 /\ nodes[b] = SubSeq(tree[b], 1, cut[b])
      BY <1>3, <1>4, <1>5, <1>7 DEF BehindStop
    <2>2. Kids(tree, cut, b) \subseteq V
      BY <1>2, <1>3, <1>4, <2>1 DEF Halfway, Kids
    <2>. QED BY <1>2, <1>3, <1>7, <2>1, <2>2 DEF Left, Halfway, NoStopLeft
  <1>. QED BY <1>2, <1>6, <1>7 DEF Halfway

\* A walk leaves a block, and the body last.
LEMMA WalkLeaves ==
    ASSUME NEW tree \in Tree, ParentsFirst(tree), NEW stops, StopsIn(tree, stops),
           NEW V, NEW nodes \in Tree, NEW stack \in Seq(Frame), stack # <<>>,
           NEW mode, WalkOf(tree, stops, V, nodes, stack, mode),
           NEW f, f = Top(stack), NEW nodes2 \in Tree,
           \A b \in Block : b # f.block => nodes2[b] = nodes[b],
           Left(tree, stops, V, nodes2, f.block)
    PROVE  /\ WalkOf(tree, stops, V \cup {f.block}, nodes2, Pop(stack), mode)
           /\ Len(stack) = 1 /\ f.block = Root => nodes2 = PrunedBy(tree, stops)
  <1>. DEFINE cut == CutAt(tree, stops)
              U == V \cup {f.block}
              new == Pop(stack)
  <1>1. /\ Len(stack) \in Nat \ {0} /\ f = stack[Len(stack)]
        /\ f.block \in Block \ V /\ f \in Frame
    BY WalkTop
  <1>2. PICK n \in Nat \ {0} : n = Len(stack)
    BY <1>1
  <1>3. Len(new) = n - 1 /\ \A k \in 1..(n - 1) : new[k] = stack[k]
    <2>1. n \in 1..(Len(stack) + 1)
      BY <1>2
    <2>. QED BY <1>2, <2>1, BelowProps DEF Pop
  <1>4. \A k \in 1..(n - 1) : stack[k].block \in Block /\ stack[k].block # f.block
    <2>1. \A k \in 1..(n - 1) : k \in 1..n /\ n \in 1..n /\ k < n
      OBVIOUS
    <2>2. \A k \in 1..n : stack[k].block \in Nat /\ stack[k].block \in Block
      <3>1. \A k \in 1..n : stack[k] \in Frame
        BY <1>2
      <3>. QED BY <3>1 DEF Frame, Block
    <2>. QED BY <1>1, <1>2, <2>1, <2>2 DEF WalkOf
  <1>5. ASSUME NEW b \in U PROVE Left(tree, stops, U, nodes2, b)
    <2>1. CASE b = f.block
      BY <2>1 DEF Left
    <2>2. CASE b # f.block
      <3>1. Left(tree, stops, V, nodes, b)
        BY <2>2 DEF WalkOf
      <3>2. b \in Block
        BY <3>1, WalkedBlocks DEF Left
      <3>. QED BY <2>2, <3>1, <3>2 DEF Left
    <2>. QED BY <2>1, <2>2
  <1>. HIDE DEF new, U
  <1>6. \A k \in 1..Len(new) : Halfway(tree, stops, U, nodes2, mode, new[k])
    <2>1. ASSUME NEW k \in 1..(n - 1) PROVE Halfway(tree, stops, U, nodes2, mode, stack[k])
      <3>1. Halfway(tree, stops, V, nodes, mode, stack[k])
        BY <1>2 DEF WalkOf
      <3>2. nodes2[stack[k].block] = nodes[stack[k].block]
        BY <1>4
      <3>. QED BY <1>4, <3>1, <3>2 DEF Halfway, BeforeStop, BehindStop, U
    <2>. QED BY <1>3, <2>1
  <1>7. \A j, k \in 1..Len(new) : j < k => new[j].block < new[k].block
    <2>1. \A j \in 1..(n - 1) : j \in 1..Len(stack)
      BY <1>2
    <2>. QED BY <1>3, <2>1 DEF WalkOf
  <1>8. ASSUME NEW b \in Block \ U, ~OnStack(new, b) PROVE nodes2[b] = tree[b]
    <2>1. b # f.block /\ b \in Block \ V
      BY DEF U
    <2>2. ~OnStack(stack, b)
      <3>1. \A k \in 1..n : k = n \/ k \in 1..(n - 1)
        OBVIOUS
      <3>. QED BY <1>1, <1>2, <1>3, <1>8, <2>1, <3>1 DEF OnStack
    <2>. QED BY <2>1, <2>2 DEF WalkOf
  <1>9. WalkOf(tree, stops, U, nodes2, new, mode)
    BY <1>5, <1>6, <1>7, <1>8 DEF WalkOf
  <1>10. ASSUME Len(stack) = 1, f.block = Root PROVE nodes2 = PrunedBy(tree, stops)
    <2>. DEFINE W == Walked(tree, cut)
    <2>1. /\ W \subseteq Block /\ Root \in W
          /\ \A x \in W \ {Root} : \E c \in W : x \in Kids(tree, cut, c)
      BY WalkedBlocks
    <2>2. U \subseteq W
      BY <1>5 DEF Left
    <2>. HIDE DEF W
    <2>3. W \subseteq U
      <3>1. SUFFICES ASSUME W \ U # {} PROVE FALSE
        OBVIOUS
      <3>2. W \ U \in SUBSET Nat
        <4>1. Block \subseteq Nat
          BY MaxBlocksAssumption DEF Block
        <4>. QED BY <2>1, <4>1
      <3>3. PICK x \in W \ U : \A y \in W \ U : x <= y
        BY <3>1, <3>2, LeastNumber
      <3>4. x # Root
        BY <1>10 DEF U
      <3>5. PICK c \in W : x \in Kids(tree, cut, c)
        BY <2>1, <3>4
      <3>6. c \in Block /\ c < x /\ x \in Block
        BY <2>1, <3>5, CutAtProps, KidsAreGreater
      <3>7. c \in U
        BY <3>3, <3>6 DEF Block
      <3>. QED BY <1>5, <3>5, <3>7 DEF Left
    <2>4. \A b \in Block : ~OnStack(new, b)
      <3>1. Len(new) = 0
        BY <1>2, <1>3, <1>10
      <3>. QED BY <3>1 DEF OnStack
    <2>5. \A b \in Block : nodes2[b] = IF b \in W THEN SubSeq(tree[b], 1, cut[b]) ELSE tree[b]
      BY <1>5, <1>8, <2>2, <2>3, <2>4 DEF Left
    <2>. QED BY <2>5 DEF PrunedBy, W, Tree
  <1>. QED BY <1>9, <1>10 DEF new, U

-----------------------------------------------------------------------------
(* The rules about blocks that the passes keep.                            *)

\* Shortening the blocks keeps one owner for each, and exits in loops.
LEMMA ShortenedKeepsShape ==
    ASSUME NEW old \in Tree, NEW new, Shortened(old, new)
    PROVE  /\ Shape(old) => Shape(new)
           /\ NoLooseExit(old) => NoLooseExit(new)
  <1>1. new \in Tree
    BY DEF Shortened
  <1>2. \A b \in Block : \A i \in DOMAIN new[b] : i \in DOMAIN old[b] /\ new[b][i] = old[b][i]
    BY DEF Shortened
  <1>3. Shape(old) => Shape(new)
    <2>1. ParentsFirst(old) => ParentsFirst(new)
      BY <1>2 DEF ParentsFirst
    <2>2. ASSUME OneOwner(old), NEW b1 \in Block, NEW b2 \in Block,
                 NEW i \in DOMAIN new[b1], NEW j \in DOMAIN new[b2],
                 SubBlocks(new[b1][i]) \cap SubBlocks(new[b2][j]) # {}
          PROVE  b1 = b2 /\ i = j
      <3>1. /\ i \in DOMAIN old[b1] /\ new[b1][i] = old[b1][i]
            /\ j \in DOMAIN old[b2] /\ new[b2][j] = old[b2][j]
        BY <1>2
      <3>. QED BY <2>2, <3>1 DEF OneOwner
    <2>. QED BY <2>1, <2>2 DEF Shape, OneOwner
  <1>4. ASSUME NEW X, ExitFree(old, X), X \subseteq Block PROVE ExitFree(new, X)
    BY <1>2, <1>4 DEF ExitFree
  <1>5. NoLooseExit(old) => NoLooseExit(new)
    BY <1>4 DEF NoLooseExit
  <1>. QED BY <1>3, <1>5

\* So does putting the releases in.
LEMMA ReleasesKeepShape ==
    ASSUME NEW old \in Tree, NEW new \in Tree, NEW W, NEW in_main,
           ReleasesAt(old, new, W, in_main)
    PROVE  /\ Shape(old) => Shape(new)
           /\ NoLooseExit(old) => NoLooseExit(new)
  <1>1. PICK e \in [Block -> Nat] : \A b \in Block : OneMore(old, new, b, e[b], in_main)
    <2>1. \A b \in Block : \E n \in Nat : OneMore(old, new, b, n, in_main)
      BY ReleasesPlaced
    <2>2. [b \in Block |-> CHOOSE n \in Nat : OneMore(old, new, b, n, in_main)] \in [Block -> Nat]
      BY <2>1
    <2>. QED BY <2>1, <2>2
  <1>. DEFINE From(b, i) == IF i < e[b] THEN i ELSE i - 1
  <1>2. ASSUME NEW b \in Block, NEW i \in DOMAIN new[b]
        PROVE  /\ i \in Nat /\ e[b] \in Nat
               /\ i = e[b] => new[b][i].kind = "free" /\ SubBlocks(new[b][i]) = {}
               /\ i # e[b] => /\ From(b, i) \in DOMAIN old[b]
                              /\ Marked(old[b][From(b, i)], new[b][i], in_main)
    <2>1. i \in Nat /\ e[b] \in Nat
      BY StatsOfTree
    <2>2. CASE i = e[b]
      BY <1>1, <2>1, <2>2 DEF OneMore, CameFrom
    <2>3. CASE i # e[b]
      <3>1. PICK j : j = From(b, i)
        OBVIOUS
      <3>2. CameFrom(old, new, b, i, j, in_main)
        BY <1>1, <2>1, <2>3, <3>1 DEF OneMore
      <3>3. j \in DOMAIN old[b] /\ Marked(old[b][j], new[b][i], in_main)
        BY <3>2 DEF CameFrom
      <3>. QED BY <2>1, <2>3, <3>1, <3>3
    <2>. QED BY <2>1, <2>2, <2>3
  <1>. HIDE DEF From
  <1>3. \A s1, s2 : Marked(s1, s2, in_main) => s2.kind = s1.kind /\ SubBlocks(s2) = SubBlocks(s1)
    BY DEF Marked, SubBlocks
  <1>4. ASSUME NEW b \in Block, NEW i \in DOMAIN new[b], NEW c, c \in SubBlocks(new[b][i])
        PROVE  i # e[b] /\ From(b, i) \in DOMAIN old[b] /\ c \in SubBlocks(old[b][From(b, i)])
    BY <1>2, <1>3, <1>4
  <1>5. \A b \in Block : \A i \in DOMAIN new[b] : new[b][i].kind # "free" =>
           /\ From(b, i) \in DOMAIN old[b]
           /\ new[b][i].kind = old[b][From(b, i)].kind
           /\ SubBlocks(new[b][i]) = SubBlocks(old[b][From(b, i)])
    BY <1>2, <1>3
  <1>6. Shape(old) => Shape(new)
    <2>1. ParentsFirst(old) => ParentsFirst(new)
      BY <1>4 DEF ParentsFirst
    <2>2. ASSUME OneOwner(old), NEW b1 \in Block, NEW b2 \in Block,
                 NEW i1 \in DOMAIN new[b1], NEW i2 \in DOMAIN new[b2],
                 NEW c, c \in SubBlocks(new[b1][i1]), c \in SubBlocks(new[b2][i2])
          PROVE  b1 = b2 /\ i1 = i2
      <3>1. PICK j1 \in DOMAIN old[b1] : j1 = From(b1, i1) /\ c \in SubBlocks(old[b1][j1])
        BY <1>4, <2>2
      <3>2. PICK j2 \in DOMAIN old[b2] : j2 = From(b2, i2) /\ c \in SubBlocks(old[b2][j2])
        BY <1>4, <2>2
      <3>3. SubBlocks(old[b1][j1]) \cap SubBlocks(old[b2][j2]) # {}
        BY <3>1, <3>2
      <3>4. b1 = b2 /\ j1 = j2
        BY <2>2, <3>3 DEF OneOwner
      <3>5. i1 # e[b1] /\ i2 # e[b2] /\ i1 \in Nat /\ i2 \in Nat /\ e[b1] \in Nat
        BY <1>2, <1>4, <2>2
      <3>. QED BY <3>1, <3>2, <3>4, <3>5 DEF From
    <2>. QED BY <2>1, <2>2 DEF Shape, OneOwner
  <1>7. ASSUME NEW X, ExitFree(old, X), X \subseteq Block PROVE ExitFree(new, X)
    <2>1. ASSUME NEW b \in X, NEW i \in DOMAIN new[b]
          PROVE  /\ ~IsExit(new[b][i])
                 /\ new[b][i].kind \in {"block", "cond"} => SubBlocks(new[b][i]) \subseteq X
      <3>1. CASE new[b][i].kind = "free"
        BY <3>1 DEF IsExit, ExitKind
      <3>2. CASE new[b][i].kind # "free"
        <4>1. PICK j \in DOMAIN old[b] : /\ new[b][i].kind = old[b][j].kind
                                         /\ SubBlocks(new[b][i]) = SubBlocks(old[b][j])
          BY <1>5, <1>7, <3>2
        <4>. QED BY <1>7, <4>1 DEF ExitFree, IsExit
      <3>. QED BY <3>1, <3>2
    <2>. QED BY <1>7, <2>1 DEF ExitFree
  <1>. QED BY <1>6, <1>7 DEF NoLooseExit

-----------------------------------------------------------------------------
(* The tree the code generator walks.                                      *)

NoExits(tree, b) == \A i \in DOMAIN tree[b] : ~IsExit(tree[b][i])

\* The rule about them, with the kinds as a parameter.
Apart(tree, one) ==
    \A b \in Block \ {Root} : \A i \in DOMAIN tree[b] : tree[b][i].kind \in one =>
        IF i > 1 THEN tree[b][i - 1].kind \in LeafKind
                 ELSE \A c \in Block : \A j \in DOMAIN tree[c] :
                          tree[c][j].body = b => tree[c][j].kind # "block"

\* Statement i of block b in its block: what may stand behind it.
Placed(tree, R, b, i) ==
    /\ IsExit(tree[b][i]) => i = Len(tree[b])
    /\ ReturnsSurely(tree[b][i], R) => i = Len(tree[b]) /\ b \in R

\* What may stand before a statement that emits one operation.
StandsApart(tree, one, Y, b, i) ==
    tree[b][i].kind \in one /\ b # Root =>
        /\ i > 1 => tree[b][i - 1].kind \in {"decl", "plain"}
        /\ i = 1 => \A c \in Y : \A j \in DOMAIN tree[c] :
                        tree[c][j].body = b => tree[c][j].kind # "block"

(***************************************************************************)
(* The tree after the passes, as far as it is walked: Y are the blocks     *)
(* reached, R the ones that return, "terminal" the CondNodes marked.       *)
(***************************************************************************)
TreeFacts(tree, terminal, one, R, Y) ==
    /\ Root \in Y /\ Root \in R /\ NoExits(tree, Root)
    /\ \A b \in Y : \A i \in DOMAIN tree[b] :
          /\ SubBlocks(tree[b][i]) \subseteq Y \ {Root}
          /\ Placed(tree, R, b, i)
          /\ <<b, i>> \in terminal <=> tree[b][i].kind = "cond" /\ ReturnsSurely(tree[b][i], R)
          /\ tree[b][i].kind = "block" => NoExits(tree, tree[b][i].body)
          /\ StandsApart(tree, one, Y, b, i)
    /\ \A b \in Y \cap R : NoExits(tree, b) =>
          Len(tree[b]) > 0 /\ ReturnsSurely(tree[b][Len(tree[b])], R)

\* The releases are put in once per block: where statement i came from.
Source(old, new, b, e, i, j) ==
    /\ i # e /\ j \in DOMAIN old[b]
    /\ j = IF i < e THEN i ELSE i - 1
    /\ new[b][i].kind = old[b][j].kind /\ new[b][i].body = old[b][j].body
    /\ SubBlocks(new[b][i]) = SubBlocks(old[b][j])

\* What is neither a release nor new in a longer tree was a statement of the old one.
LEMMA Sources ==
    ASSUME NEW old \in Tree, NEW new \in Tree, NEW b, NEW e, OneMore(old, new, b, e, FALSE),
           NEW i \in DOMAIN new[b], new[b][i].kind # "free" \/ SubBlocks(new[b][i]) # {},
           e \in Nat, i \in Nat
    PROVE  \E j : Source(old, new, b, e, i, j)
  <1>1. \A s1, s2 : Marked(s1, s2, FALSE) =>
           s2.kind = s1.kind /\ s2.body = s1.body /\ SubBlocks(s2) = SubBlocks(s1)
    BY DEF Marked, SubBlocks
  <1>2. PICK n : n = i - 1
    OBVIOUS
  <1>3. \/ i < e /\ CameFrom(old, new, b, i, i, FALSE)
        \/ i > e /\ CameFrom(old, new, b, i, n, FALSE)
    BY <1>2 DEF OneMore
  <1>4. CASE i < e /\ CameFrom(old, new, b, i, i, FALSE)
    <2>1. i # e
      BY <1>4
    <2>. QED BY <1>1, <1>4, <2>1 DEF CameFrom, Source
  <1>5. CASE i > e /\ CameFrom(old, new, b, i, n, FALSE)
    <2>1. i # e /\ ~(i < e)
      BY <1>5
    <2>. QED BY <1>1, <1>2, <1>5, <2>1 DEF CameFrom, Source
  <1>. QED BY <1>3, <1>4, <1>5

\* Blocks that own later ones still do.
LEMMA ParentsStayFirst ==
    ASSUME NEW old \in Tree, ParentsFirst(old), NEW new \in Tree,
           \A b \in Block : \A i \in DOMAIN new[b] : SubBlocks(new[b][i]) # {} =>
              \E j \in DOMAIN old[b] : SubBlocks(new[b][i]) = SubBlocks(old[b][j])
    PROVE  ParentsFirst(new)
  BY DEF ParentsFirst

\* Removing statements leaves blocks inside blocks of smaller number.
LEMMA ShortenedParents ==
    ASSUME NEW old \in Tree, ParentsFirst(old), NEW new, Shortened(old, new)
    PROVE  ParentsFirst(new)
  BY DEF ParentsFirst, Shortened

\* No break or continue is before statement i of block b.
Early(tree, b, i) == \A j \in 1..(i - 1) : ~IsExit(tree[b][j])

\* What the rule says once the releases are there.
ApartWhenReleased(tree, one, b, i) ==
    tree[b][i].kind \in one /\ b # Root /\ Early(tree, b, i) =>
        /\ i > 1 => tree[b][i - 1].kind \in LeafKind \ {"free"}
        /\ i = 1 => \A c \in Block : \A j \in DOMAIN tree[c] :
                        tree[c][j].body = b => tree[c][j].kind # "block"

-----------------------------------------------------------------------------
(* The operations of one block.                                            *)

NoTerminators(s, n) == \A i \in 1..n : ~IsTerminator(s[i])

\* What the verifier takes.
Ended(s) == Len(s) > 0 /\ IsTerminator(s[Len(s)]) /\ NoTerminators(s, Len(s) - 1)

\* What the walk still emits into: the last d operations are a default branch.
Alive(s, d) ==
    /\ d \in 0..2 /\ d <= Len(s)
    /\ NoTerminators(s, Len(s) - d)
    /\ d > 0 => Ended(s)

\* A terminator has been emitted in front of a default branch.
DoubledAt(s, d) ==
    /\ Len(s) > d
    /\ IsTerminator(s[Len(s)]) /\ IsTerminator(s[Len(s) - d])
    /\ NoTerminators(s, Len(s) - d - 1)
    /\ d = 2 => ~IsTerminator(s[Len(s) - 1])

\* The clean-up of a loop finds it as well: there are three operations.
Twice(s) == Len(s) > 2 /\ (DoubledAt(s, 1) \/ DoubledAt(s, 2))

\* Block b is complete, or is as soon as the block "l" has been cleaned.
ClosedIn(s, b, l) == Ended(s) \/ (b = l /\ Twice(s))

\* Operations "new" in front of the last d ones.
Put(s, d, new) == SubSeq(s, 1, Len(s) - d) \o new \o SubSeq(s, Len(s) - d + 1, Len(s))

\* A concatenation, with the indices of the second part counted from its start.
LEMMA ConcatAt ==
    ASSUME NEW S, NEW a \in Seq(S), NEW b \in Seq(S)
    PROVE  /\ a \o b \in Seq(S) /\ Len(a \o b) = Len(a) + Len(b)
           /\ \A i \in 1..Len(a) : (a \o b)[i] = a[i]
           /\ \A i \in 1..Len(b) : (a \o b)[Len(a) + i] = b[i]
  OBVIOUS

\* Where everything is after that.
IsPut(all, s, d, new) ==
    /\ Len(all) = Len(s) + Len(new)
    /\ \A i \in 1..(Len(s) - d) : all[i] = s[i]
    /\ \A i \in 1..Len(new) : all[(Len(s) - d) + i] = new[i]
    /\ \A i \in 1..d : all[(Len(s) + Len(new) - d) + i] = s[(Len(s) - d) + i]

\* What inserting into a sequence yields.
LEMMA PutProps ==
    ASSUME NEW S, NEW s \in Seq(S), NEW new \in Seq(S), NEW d \in Nat, d <= Len(s)
    PROVE  Put(s, d, new) \in Seq(S) /\ IsPut(Put(s, d, new), s, d, new)
  <1>1. PICK front : front = SubSeq(s, 1, Len(s) - d)
    OBVIOUS
  <1>2. PICK back : back = SubSeq(s, Len(s) - d + 1, Len(s))
    OBVIOUS
  <1>3. front \in Seq(S) /\ back \in Seq(S)
    BY <1>1, <1>2
  <1>4. Len(front) = Len(s) - d
    BY <1>1
  <1>5. \A i \in 1..(Len(s) - d) : front[i] = s[i]
    BY <1>1
  <1>6. Len(back) = d
    BY <1>2
  <1>7. \A i \in 1..d : back[i] = s[(Len(s) - d) + i]
    BY <1>2
  <1>8. PICK head : head = front \o new
    OBVIOUS
  <1>9. head \in Seq(S)
    BY ONLY <1>3, <1>8, new \in Seq(S)
  <1>10. Len(head) = Len(front) + Len(new)
    BY ONLY <1>3, <1>8, new \in Seq(S)
  <1>11. \A i \in 1..Len(front) : head[i] = front[i]
    BY ONLY <1>3, <1>8, new \in Seq(S)
  <1>12. \A i \in 1..Len(new) : head[Len(front) + i] = new[i]
    BY ONLY <1>3, <1>8, new \in Seq(S)
  <1>13. PICK all : all = head \o back
    OBVIOUS
  <1>14. all \in Seq(S)
    BY ONLY <1>3, <1>9, <1>13
  <1>15. Len(all) = Len(head) + Len(back)
    BY ONLY <1>3, <1>9, <1>13
  <1>16. \A i \in 1..Len(head) : all[i] = head[i]
    BY ONLY <1>3, <1>9, <1>13
  <1>17. \A i \in 1..Len(back) : all[Len(head) + i] = back[i]
    BY ONLY <1>3, <1>9, <1>13
  <1>18. Put(s, d, new) = all
    BY <1>1, <1>2, <1>8, <1>13 DEF Put
  <1>19. PICK k \in Nat, m \in Nat : Len(s) = k /\ Len(new) = m
    OBVIOUS
  <1>20. d <= k
    BY <1>19
  <1>21. Len(front) = k - d /\ Len(head) = (k - d) + m /\ Len(all) = k + m
    BY ONLY <1>4, <1>6, <1>10, <1>15, <1>19, <1>20, d \in Nat, k \in Nat, m \in Nat
  <1>22. \A i \in 1..(k - d) : all[i] = s[i]
    <2>1. \A i \in 1..(k - d) : i \in 1..(k - d + m)
      BY <1>20
    <2>. QED BY ONLY <2>1, <1>5, <1>11, <1>16, <1>19, <1>21
  <1>23. \A i \in 1..m : all[(k - d) + i] = new[i]
    <2>1. \A i \in 1..m : (k - d) + i \in 1..(k - d + m)
      BY <1>20
    <2>. QED BY ONLY <2>1, <1>12, <1>16, <1>19, <1>21
  <1>24. \A i \in 1..d : all[(k - d + m) + i] = s[(k - d) + i]
    BY ONLY <1>6, <1>7, <1>17, <1>19, <1>21
  <1>25. k - d + m = k + m - d
    BY <1>20
  <1>26. IsPut(all, s, d, new)
    BY ONLY <1>19, <1>21, <1>22, <1>23, <1>24, <1>25 DEF IsPut
  <1>. QED BY ONLY <1>14, <1>18, <1>26

\* Operations that are no terminators.
LEMMA PutKeepsAlive ==
    ASSUME NEW S, NEW s \in Seq(S), NEW new \in Seq(S), NEW d, Alive(s, d),
           NoTerminators(new, Len(new)), NEW all, all = Put(s, d, new)
    PROVE  all \in Seq(S) /\ Alive(all, d) /\ Len(all) = Len(s) + Len(new)
  <1>1. d \in Nat /\ d \in 0..2 /\ d <= Len(s)
    BY DEF Alive
  <1>2. PICK n, m : n \in Nat /\ m \in Nat /\ Len(s) = n + d /\ n = Len(s) - d /\ m = Len(new)
    <2>1. Len(s) \in Nat /\ Len(new) \in Nat
      OBVIOUS
    <2>2. Len(s) - d \in Nat /\ Len(s) = (Len(s) - d) + d
      BY <1>1, <2>1
    <2>. QED BY <2>1, <2>2
  <1>3. /\ all \in Seq(S) /\ Len(all) = n + m + d /\ n \in Nat /\ m \in Nat /\ Len(s) = n + d
        /\ \A i \in 1..n : all[i] = s[i]
        /\ \A i \in 1..m : all[n + i] = new[i]
        /\ \A i \in 1..d : all[n + m + i] = s[n + i]
    <2>1. /\ all \in Seq(S)
          /\ Len(all) = Len(s) + Len(new)
          /\ \A i \in 1..(Len(s) - d) : all[i] = s[i]
          /\ \A i \in 1..Len(new) : all[(Len(s) - d) + i] = new[i]
          /\ \A i \in 1..d : all[(Len(s) + Len(new) - d) + i] = s[(Len(s) - d) + i]
      <3>1. d \in Nat /\ d <= Len(s)
        BY <1>1
      <3>2. Put(s, d, new) \in Seq(S) /\ IsPut(Put(s, d, new), s, d, new)
        BY ONLY <3>1, PutProps, s \in Seq(S), new \in Seq(S)
      <3>. QED BY ONLY <3>2, all = Put(s, d, new) DEF IsPut
    <2>2. /\ Len(s) - d = n /\ Len(new) = m /\ Len(s) + Len(new) - d = n + m
          /\ Len(s) + Len(new) = n + m + d
      BY ONLY <1>1, <1>2
    <2>. QED BY ONLY <1>2, <2>1, <2>2
  <1>4. NoTerminators(all, n + m)
    <2>1. SUFFICES ASSUME NEW i \in 1..(n + m) PROVE ~IsTerminator(all[i])
      BY DEF NoTerminators
    <2>2. CASE i <= n
      BY <1>2, <1>3, <2>2 DEF Alive, NoTerminators
    <2>3. CASE i > n
      <3>1. i - n \in 1..m /\ i = n + (i - n)
        <4>1. n \in Nat /\ m \in Nat
          BY ONLY <1>2
        <4>. QED BY ONLY <4>1, <2>3, i \in 1..(n + m)
      <3>2. PICK j \in 1..m : i = n + j
        BY ONLY <3>1
      <3>. QED BY <1>2, <1>3, <3>2 DEF NoTerminators
    <2>. QED BY <1>3, <2>2, <2>3
  <1>5. d > 0 => Ended(all)
    <2>1. SUFFICES ASSUME d > 0 PROVE Ended(all)
      OBVIOUS
    <2>2. Ended(s)
      BY <2>1 DEF Alive
    <2>3. d \in 1..d /\ Len(all) = n + m + d /\ Len(all) > 0
      BY <1>1, <1>3, <2>1
    <2>4. IsTerminator(all[Len(all)])
      <3>1. all[n + m + d] = s[n + d]
        BY <1>3, <2>3
      <3>. QED BY <1>3, <2>2, <2>3, <3>1 DEF Ended
    <2>5. NoTerminators(all, Len(all) - 1)
      <3>1. SUFFICES ASSUME NEW i \in 1..(Len(all) - 1) PROVE ~IsTerminator(all[i])
        BY DEF NoTerminators
      <3>2. CASE i <= n + m
        BY <1>3, <1>4, <3>2 DEF NoTerminators
      <3>3. CASE i > n + m
        <4>1. PICK j \in 1..d : i = n + m + j /\ n + j \in 1..(Len(s) - 1)
          BY <1>1, <1>3, <3>3
        <4>. QED BY <1>3, <2>2, <4>1 DEF Ended, NoTerminators
      <3>. QED BY <1>3, <3>2, <3>3
    <2>. QED BY <2>3, <2>4, <2>5 DEF Ended
  <1>6. n + m = Len(all) - d /\ d <= Len(all) /\ Len(all) = Len(s) + Len(new)
    BY <1>1, <1>2, <1>3
  <1>. QED BY <1>1, <1>3, <1>4, <1>5, <1>6 DEF Alive

\* Operations that end in a terminator.
LEMMA PutCloses ==
    ASSUME NEW S, NEW s \in Seq(S), NEW new \in Seq(S), NEW d, Alive(s, d), Ended(new),
           d > 0 => Len(s) + Len(new) > 2, NEW all, all = Put(s, d, new)
    PROVE  /\ all \in Seq(S)
           /\ d = 0 => Ended(all)
           /\ d > 0 => Twice(all)
  <1>1. d \in Nat /\ d \in 0..2 /\ d <= Len(s)
    BY DEF Alive
  <1>2. PICK n, m : n \in Nat /\ m \in Nat /\ Len(s) = n + d /\ n = Len(s) - d /\ m = Len(new)
    <2>1. Len(s) \in Nat /\ Len(new) \in Nat
      OBVIOUS
    <2>2. Len(s) - d \in Nat /\ Len(s) = (Len(s) - d) + d
      BY <1>1, <2>1
    <2>. QED BY <2>1, <2>2
  <1>3. /\ all \in Seq(S) /\ Len(all) = n + m + d /\ n \in Nat /\ m \in Nat /\ Len(s) = n + d
        /\ \A i \in 1..n : all[i] = s[i]
        /\ \A i \in 1..m : all[n + i] = new[i]
        /\ \A i \in 1..d : all[n + m + i] = s[n + i]
    <2>1. /\ all \in Seq(S)
          /\ Len(all) = Len(s) + Len(new)
          /\ \A i \in 1..(Len(s) - d) : all[i] = s[i]
          /\ \A i \in 1..Len(new) : all[(Len(s) - d) + i] = new[i]
          /\ \A i \in 1..d : all[(Len(s) + Len(new) - d) + i] = s[(Len(s) - d) + i]
      <3>1. d \in Nat /\ d <= Len(s)
        BY <1>1
      <3>2. Put(s, d, new) \in Seq(S) /\ IsPut(Put(s, d, new), s, d, new)
        BY ONLY <3>1, PutProps, s \in Seq(S), new \in Seq(S)
      <3>. QED BY ONLY <3>2, all = Put(s, d, new) DEF IsPut
    <2>2. /\ Len(s) - d = n /\ Len(new) = m /\ Len(s) + Len(new) - d = n + m
          /\ Len(s) + Len(new) = n + m + d
      BY ONLY <1>1, <1>2
    <2>. QED BY ONLY <1>2, <2>1, <2>2
  <1>4. m > 0 /\ m \in 1..m
    BY <1>2, <1>3 DEF Ended
  <1>5. IsTerminator(all[n + m])
    BY <1>2, <1>3, <1>4 DEF Ended
  <1>6. NoTerminators(all, n + m - 1)
    <2>1. SUFFICES ASSUME NEW i \in 1..(n + m - 1) PROVE ~IsTerminator(all[i])
      BY DEF NoTerminators
    <2>2. CASE i <= n
      BY <1>2, <1>3, <2>2 DEF Alive, NoTerminators
    <2>3. CASE i > n
      <3>1. i - n \in 1..m /\ i = n + (i - n) /\ i - n \in 1..(m - 1)
        <4>1. n \in Nat /\ m \in Nat
          BY ONLY <1>2
        <4>. QED BY ONLY <4>1, <2>3, i \in 1..(n + m - 1)
      <3>2. PICK j \in 1..m : i = n + j /\ j \in 1..(m - 1)
        BY ONLY <3>1
      <3>. QED BY <1>2, <1>3, <3>2 DEF Ended, NoTerminators
    <2>. QED BY <1>3, <2>2, <2>3
  <1>7. d = 0 => Ended(all)
    <2>1. SUFFICES ASSUME d = 0 PROVE Ended(all)
      OBVIOUS
    <2>2. PICK l : l = Len(all)
      OBVIOUS
    <2>3. l = n + m /\ l > 0 /\ l - 1 = n + m - 1
      BY <1>3, <1>4, <2>1, <2>2
    <2>4. IsTerminator(all[l]) /\ NoTerminators(all, l - 1)
      BY ONLY <1>5, <1>6, <2>3
    <2>. QED BY ONLY <2>2, <2>3, <2>4 DEF Ended
  <1>8. d > 0 => Twice(all)
    <2>1. SUFFICES ASSUME d > 0 PROVE Twice(all)
      OBVIOUS
    <2>2. Ended(s)
      BY <2>1 DEF Alive
    <2>3. d \in 1..d /\ Len(all) = n + m + d /\ Len(all) - d = n + m /\ Len(all) > d
          /\ Len(all) - d - 1 = n + m - 1
      BY <1>1, <1>3, <1>4, <2>1
    <2>4. IsTerminator(all[Len(all)])
      BY <1>3, <2>2, <2>3 DEF Ended
    <2>5. ASSUME d = 2 PROVE ~IsTerminator(all[Len(all) - 1])
      <3>1. 1 \in 1..d /\ Len(all) - 1 = n + m + 1 /\ n + 1 \in 1..(Len(s) - 1)
        BY <1>3, <2>3, <2>5
      <3>. QED BY <1>3, <2>2, <3>1 DEF Ended, NoTerminators
    <2>6. DoubledAt(all, d)
      BY <1>5, <1>6, <2>3, <2>4, <2>5 DEF DoubledAt
    <2>7. Len(all) > 2
      BY <1>1, <1>2, <1>3, <2>1
    <2>8. d = 1 \/ d = 2
      BY <1>1, <2>1
    <2>. QED BY <2>6, <2>7, <2>8 DEF Twice
  <1>. QED BY <1>3, <1>7, <1>8

\* Operations that are taken away at the end.
LEMMA EndedErase ==
    ASSUME NEW S, NEW s \in Seq(S), NEW d \in Nat, DoubledAt(s, d)
    PROVE  Erase(s, d) \in Seq(S) /\ Ended(Erase(s, d))
  <1>1. PICK n \in Nat : n = Len(s) - d /\ n > 0 /\ n <= Len(s)
    <2>1. Len(s) \in Nat /\ Len(s) > d
      BY DEF DoubledAt
    <2>2. Len(s) - d \in Nat /\ Len(s) - d > 0 /\ Len(s) - d <= Len(s)
      BY ONLY <2>1, d \in Nat
    <2>. QED BY ONLY <2>2
  <1>2. PICK t : t = SubSeq(s, 1, n)
    OBVIOUS
  <1>3. t \in Seq(S)
    BY <1>1, <1>2
  <1>4. Len(t) = n
    BY <1>1, <1>2
  <1>5. \A i \in 1..n : t[i] = s[i]
    BY <1>1, <1>2
  <1>6. IsTerminator(s[n]) /\ NoTerminators(s, n - 1)
    <2>1. IsTerminator(s[Len(s) - d]) /\ NoTerminators(s, Len(s) - d - 1)
      BY DEF DoubledAt
    <2>. QED BY ONLY <2>1, <1>1
  <1>7. IsTerminator(t[n])
    <2>1. n \in 1..n
      BY <1>1
    <2>. QED BY ONLY <2>1, <1>5, <1>6
  <1>8. NoTerminators(t, n - 1)
    <2>1. \A i \in 1..(n - 1) : i \in 1..n
      BY <1>1
    <2>. QED BY ONLY <2>1, <1>5, <1>6 DEF NoTerminators
  <1>9. Ended(t)
    BY ONLY <1>1, <1>4, <1>7, <1>8 DEF Ended
  <1>10. Erase(s, d) = t
    BY ONLY <1>1, <1>2 DEF Erase
  <1>. QED BY ONLY <1>3, <1>9, <1>10

\* Complete blocks stay as they are when they are cleaned.
LEMMA CleanedEnded ==
    ASSUME NEW S, NEW s \in Seq(S), Ended(s), NEW by_loop
    PROVE  Cleaned(s, by_loop) = s
  <1>1. PICK n \in Nat : n = Len(s) /\ n > 0
    BY DEF Ended
  <1>2. \A d \in {1, 2} : ~Doubled(s, d)
    <2>1. SUFFICES ASSUME NEW d \in {1, 2}, Doubled(s, d) PROVE FALSE
      OBVIOUS
    <2>2. IsTerminator(s[n - d]) /\ n > d
      <3>1. Len(s) > d /\ IsTerminator(s[Len(s) - d])
        BY <2>1 DEF Doubled
      <3>. QED BY ONLY <3>1, <1>1
    <2>3. n - d \in 1..(n - 1)
      BY <2>2, <1>1
    <2>4. NoTerminators(s, n - 1)
      <3>1. NoTerminators(s, Len(s) - 1)
        BY DEF Ended
      <3>. QED BY ONLY <3>1, <1>1
    <2>. QED BY ONLY <2>2, <2>3, <2>4 DEF NoTerminators
  <1>3. CleanOnce(s, 2) = s /\ CleanOnce(s, 1) = s
    BY ONLY <1>2 DEF CleanOnce
  <1>. QED BY ONLY <1>3 DEF Cleaned

\* The clean-up completes the others.
LEMMA CleanedTwice ==
    ASSUME NEW S, NEW s \in Seq(S), Twice(s), NEW by_loop
    PROVE  Cleaned(s, by_loop) \in Seq(S) /\ Ended(Cleaned(s, by_loop))
  <1>1. PICK n \in Nat : n = Len(s) /\ n > 2
    BY DEF Twice
  <1>2. Cleaned(s, by_loop) = CleanOnce(CleanOnce(s, 2), 1)
    BY <1>1 DEF Cleaned
  <1>3. CASE DoubledAt(s, 2)
    <2>1. Doubled(s, 2)
      BY <1>3 DEF DoubledAt, Doubled
    <2>2. PICK t : t = Erase(s, 2)
      OBVIOUS
    <2>3. CleanOnce(s, 2) = t
      BY <2>1, <2>2 DEF CleanOnce
    <2>4. t \in Seq(S) /\ Ended(t)
      BY <1>3, <2>2, EndedErase
    <2>6. CleanOnce(t, 1) = t
      <3>1. PICK k \in Nat : k = Len(t) /\ k > 0
        BY ONLY <2>4 DEF Ended
      <3>2. ~Doubled(t, 1)
        <4>1. SUFFICES ASSUME Doubled(t, 1) PROVE FALSE
          OBVIOUS
        <4>2. IsTerminator(t[k - 1]) /\ k > 1
          <5>1. Len(t) > 1 /\ IsTerminator(t[Len(t) - 1])
            BY <4>1 DEF Doubled
          <5>. QED BY ONLY <5>1, <3>1
        <4>3. k - 1 \in 1..(k - 1)
          BY <4>2, <3>1
        <4>4. NoTerminators(t, k - 1)
          <5>1. NoTerminators(t, Len(t) - 1)
            BY <2>4 DEF Ended
          <5>. QED BY ONLY <5>1, <3>1
        <4>. QED BY ONLY <4>2, <4>3, <4>4 DEF NoTerminators
      <3>. QED BY ONLY <3>2 DEF CleanOnce
    <2>. QED BY ONLY <1>2, <2>3, <2>4, <2>6
  <1>4. CASE DoubledAt(s, 1)
    <2>1. ~Doubled(s, 2)
      <3>1. NoTerminators(s, n - 2)
        <4>1. NoTerminators(s, Len(s) - 1 - 1) /\ n - 2 = Len(s) - 1 - 1
          BY <1>1, <1>4 DEF DoubledAt
        <4>. QED BY ONLY <4>1
      <3>2. n - 2 \in 1..(n - 2)
        BY <1>1
      <3>. QED BY ONLY <1>1, <3>1, <3>2 DEF NoTerminators, Doubled
    <2>2. CleanOnce(s, 2) = s
      BY <2>1 DEF CleanOnce
    <2>3. Doubled(s, 1)
      BY <1>4 DEF DoubledAt, Doubled
    <2>4. CleanOnce(s, 1) = Erase(s, 1)
      BY <2>3 DEF CleanOnce
    <2>5. Erase(s, 1) \in Seq(S) /\ Ended(Erase(s, 1))
      BY <1>4, EndedErase
    <2>. QED BY ONLY <1>2, <2>2, <2>4, <2>5
  <1>. QED BY <1>3, <1>4 DEF Twice

-----------------------------------------------------------------------------
(* What the statements emit.  IsSeq: a sequence of whatever.               *)

IsSeq(s) == \E S : s \in Seq(S)

\* A sequence has a length, zero if it is empty.
LEMMA SeqProps ==
    ASSUME NEW s, IsSeq(s)
    PROVE  Len(s) \in Nat /\ (s # <<>> <=> Len(s) > 0)
  BY DEF IsSeq

\* Two sequences are sequences over one set.
LEMMA SameUniverse ==
    ASSUME NEW s, IsSeq(s), NEW t, IsSeq(t)
    PROVE  \E S : s \in Seq(S) /\ t \in Seq(S)
  <1>1. PICK A : s \in Seq(A)
    BY DEF IsSeq
  <1>2. PICK B : t \in Seq(B)
    BY DEF IsSeq
  <1>3. s \in Seq(A \cup B)
    BY <1>1
  <1>4. t \in Seq(A \cup B)
    BY <1>2
  <1>. QED BY <1>3, <1>4

\* Sequences of at most two elements.
LEMMA Tuples ==
    ASSUME NEW x, NEW y
    PROVE  /\ IsSeq(<<>>) /\ IsSeq(<<x>>) /\ IsSeq(<<x, y>>)
           /\ Len(<<>>) = 0 /\ Len(<<x>>) = 1 /\ Len(<<x, y>>) = 2
           /\ <<x>>[1] = x /\ <<x, y>>[1] = x /\ <<x, y>>[2] = y
  <1>1. <<>> \in Seq({x, y}) /\ <<x>> \in Seq({x, y}) /\ <<x, y>> \in Seq({x, y})
    OBVIOUS
  <1>. QED BY <1>1 DEF IsSeq

\* Inserting into a block that is alive.
LEMMA PutKeeps ==
    ASSUME NEW s, IsSeq(s), NEW new, IsSeq(new), NEW d, Alive(s, d),
           NoTerminators(new, Len(new))
    PROVE  /\ IsSeq(Put(s, d, new)) /\ Alive(Put(s, d, new), d)
           /\ Len(Put(s, d, new)) = Len(s) + Len(new)
  <1>1. PICK S : s \in Seq(S) /\ new \in Seq(S)
    BY SameUniverse
  <1>2. PICK all : all = Put(s, d, new)
    OBVIOUS
  <1>3. all \in Seq(S) /\ Alive(all, d) /\ Len(all) = Len(s) + Len(new)
    BY <1>1, <1>2, PutKeepsAlive
  <1>4. IsSeq(all)
    BY <1>3 DEF IsSeq
  <1>. QED BY <1>2, <1>3, <1>4

\* Operations with one terminator put into an open block end it, twice in front of a branch.
LEMMA PutEnds ==
    ASSUME NEW s, IsSeq(s), NEW new, IsSeq(new), NEW d, Alive(s, d), Ended(new),
           d > 0 => Len(s) + Len(new) > 2
    PROVE  /\ IsSeq(Put(s, d, new))
           /\ d = 0 => Ended(Put(s, d, new))
           /\ d > 0 => Twice(Put(s, d, new))
  <1>1. PICK S : s \in Seq(S) /\ new \in Seq(S)
    BY SameUniverse
  <1>2. PICK all : all = Put(s, d, new)
    OBVIOUS
  <1>3. /\ all \in Seq(S)
        /\ d = 0 => Ended(all)
        /\ d > 0 => Twice(all)
    BY <1>1, <1>2, PutCloses
  <1>4. IsSeq(all)
    BY <1>3 DEF IsSeq
  <1>. QED BY <1>2, <1>3, <1>4

\* Cleaning a block.
LEMMA CleanedCloses ==
    ASSUME NEW s, IsSeq(s), Ended(s) \/ Twice(s), NEW by_loop
    PROVE  IsSeq(Cleaned(s, by_loop)) /\ Ended(Cleaned(s, by_loop))
  <1>1. PICK S : s \in Seq(S)
    BY DEF IsSeq
  <1>2. CASE Ended(s)
    BY <1>1, <1>2, CleanedEnded
  <1>3. CASE Twice(s)
    BY <1>1, <1>3, CleanedTwice DEF IsSeq
  <1>. QED BY <1>2, <1>3

\* The test for a terminator.
LEMMA Terminated ==
    ASSUME NEW s, IsSeq(s)
    PROVE  /\ Ended(s) \/ Twice(s) => HasTerminator(s)
           /\ NoTerminators(s, Len(s)) => ~HasTerminator(s)
  <1>1. Len(s) \in Nat /\ (s # <<>> <=> Len(s) > 0)
    BY SeqProps
  <1>2. Last(s) = s[Len(s)]
    BY DEF Last
  <1>3. ASSUME Ended(s) \/ Twice(s) PROVE HasTerminator(s)
    <2>1. Len(s) > 0 /\ IsTerminator(s[Len(s)])
      BY <1>1, <1>3 DEF Ended, Twice, DoubledAt
    <2>. QED BY ONLY <1>1, <1>2, <2>1 DEF HasTerminator
  <1>4. ASSUME NoTerminators(s, Len(s)), s # <<>> PROVE ~IsTerminator(Last(s))
    <2>1. Len(s) \in 1..Len(s)
      BY <1>1, <1>4
    <2>. QED BY ONLY <1>2, <1>4, <2>1 DEF NoTerminators
  <1>. QED BY ONLY <1>3, <1>4 DEF HasTerminator

\* The operations of a loop's or conditional's end, behind what is alive.
LEMMA AppendEnds ==
    ASSUME NEW s, IsSeq(s), NoTerminators(s, Len(s)), NEW new, IsSeq(new), Ended(new)
    PROVE  IsSeq(s \o new) /\ Ended(s \o new)
  <1>1. PICK S : s \in Seq(S) /\ new \in Seq(S)
    BY SameUniverse
  <1>2. PICK all : all = s \o new
    OBVIOUS
  <1>3. /\ all \in Seq(S) /\ Len(all) = Len(s) + Len(new)
        /\ \A i \in 1..Len(s) : all[i] = s[i]
        /\ \A i \in 1..Len(new) : all[Len(s) + i] = new[i]
    BY ONLY <1>1, <1>2, ConcatAt
  <1>4. PICK n \in Nat, m \in Nat : n = Len(s) /\ m = Len(new)
    BY ONLY <1>1
  <1>5. m > 0 /\ IsTerminator(new[m]) /\ NoTerminators(new, m - 1)
    BY ONLY <1>4, Ended(new) DEF Ended
  <1>6. IsTerminator(all[n + m])
    <2>1. m \in 1..m
      BY <1>5
    <2>. QED BY ONLY <2>1, <1>3, <1>4, <1>5
  <1>7. NoTerminators(all, n + m - 1)
    <2>1. SUFFICES ASSUME NEW i \in 1..(n + m - 1) PROVE ~IsTerminator(all[i])
      BY DEF NoTerminators
    <2>2. CASE i <= n
      <3>1. i \in 1..n
        BY <2>2
      <3>. QED BY ONLY <3>1, <1>3, <1>4, NoTerminators(s, Len(s)) DEF NoTerminators
    <2>3. CASE i > n
      <3>1. PICK j \in 1..(m - 1) : i = n + j
        BY <2>3
      <3>2. j \in 1..m
        BY <3>1
      <3>. QED BY ONLY <3>1, <3>2, <1>3, <1>4, <1>5 DEF NoTerminators
    <2>. QED BY <2>2, <2>3
  <1>8. Len(all) = n + m /\ n + m > 0
    BY <1>3, <1>4, <1>5
  <1>9. Ended(all)
    BY ONLY <1>6, <1>7, <1>8 DEF Ended
  <1>. QED BY <1>2, <1>3, <1>9 DEF IsSeq

\* The continue block of a loop when it is begun.
LEMMA DefaultAlive ==
    ASSUME NEW release, IsSeq(release), NoTerminators(release, Len(release)),
           NEW default, IsSeq(default),
           default = <<>> \/ (Ended(default) /\ Len(default) \in {1, 2})
    PROVE  IsSeq(release \o default) /\ Alive(release \o default, Len(default))
  <1>1. PICK S : release \in Seq(S) /\ default \in Seq(S)
    BY SameUniverse
  <1>2. PICK all : all = release \o default
    OBVIOUS
  <1>3. /\ all \in Seq(S) /\ Len(all) = Len(release) + Len(default)
        /\ \A i \in 1..Len(release) : all[i] = release[i]
    BY ONLY <1>1, <1>2, ConcatAt
  <1>4. PICK n \in Nat, m \in Nat : n = Len(release) /\ m = Len(default)
    BY ONLY <1>1
  <1>5. Len(all) - m = n /\ m <= Len(all)
    BY <1>3, <1>4
  <1>6. NoTerminators(all, n)
    BY ONLY <1>3, <1>4, NoTerminators(release, Len(release)) DEF NoTerminators
  <1>7. m \in 0..2
    <2>1. Len(<<>>) = 0
      OBVIOUS
    <2>. QED BY <2>1, <1>4
  <1>8. m > 0 => Ended(all)
    <2>1. SUFFICES ASSUME m > 0 PROVE Ended(all)
      OBVIOUS
    <2>2. Ended(default)
      BY <2>1, <1>4, Tuples
    <2>. QED BY <2>2, <1>2, AppendEnds
  <1>9. Alive(all, m)
    BY ONLY <1>5, <1>6, <1>7, <1>8 DEF Alive
  <1>. QED BY <1>2, <1>3, <1>4, <1>9 DEF IsSeq

\* One terminator at the end of at most two operations.
LEMMA EndedTuples ==
    ASSUME NEW x, NEW y, IsTerminator(y), ~IsTerminator(x)
    PROVE  Ended(<<y>>) /\ Ended(<<x, y>>)
  <1>1. Ended(<<y>>)
    BY Tuples DEF Ended, NoTerminators
  <1>2. Ended(<<x, y>>)
    <2>1. \A i \in 1..(2 - 1) : i = 1
      OBVIOUS
    <2>. QED BY ONLY <2>1, Tuples, IsTerminator(y), ~IsTerminator(x) DEF Ended, NoTerminators
  <1>. QED BY <1>1, <1>2

\* An operation that is no terminator leaves a new block open.
LEMMA AliveTuples ==
    ASSUME NEW x, ~IsTerminator(x)
    PROVE  /\ NoTerminators(<<>>, Len(<<>>)) /\ NoTerminators(<<x>>, Len(<<x>>))
           /\ Alive(<<>>, 0) /\ Alive(<<x>>, 0)
  <1>1. NoTerminators(<<>>, Len(<<>>)) /\ NoTerminators(<<x>>, Len(<<x>>))
    BY Tuples DEF NoTerminators
  <1>2. Len(<<>>) - 0 = 0 /\ Len(<<x>>) - 0 = 1
    BY Tuples
  <1>. QED BY <1>1, <1>2, Tuples DEF Alive

\* Which operations are terminators.
LEMMA OpProps ==
    ASSUME NEW p, NEW l, NEW B
    PROVE  /\ ~IsTerminator(Plain) /\ ~IsTerminator(OpOf(p)) /\ ~IsTerminator(Save(l))
           /\ ~IsTerminator(Restore(l)) /\ ~IsTerminator([Restore(l) EXCEPT !.stat = p])
           /\ IsTerminator(Br(B)) /\ IsTerminator(Return(p)) /\ IsTerminator(Unreachable)
  BY DEF IsTerminator, TerminatorKind, Plain, OpOf, Save, Restore, Br, Return, Unreachable

\* The branch "in case" is none, or one terminator at the end.
LEMMA DefaultBranchProps ==
    ASSUME NEW stack, NEW default, default = DefaultBranch(stack)
    PROVE  /\ IsSeq(default)
           /\ \/ stack = <<>> /\ default = <<>>
              \/ stack # <<>> /\ Ended(default) /\ Len(default) \in {1, 2}
  <1>1. CASE stack = <<>>
    BY <1>1, Tuples DEF DefaultBranch
  <1>2. CASE stack # <<>>
    <2>1. PICK x, y : \/ default = <<Restore(x), Br({y})>>
                      \/ default = <<Br({y})>>
      BY <1>2 DEF DefaultBranch
    <2>2. Ended(<<Restore(x), Br({y})>>) /\ Ended(<<Br({y})>>)
      BY OpProps, EndedTuples
    <2>3. /\ IsSeq(<<Restore(x), Br({y})>>) /\ IsSeq(<<Br({y})>>)
          /\ Len(<<Restore(x), Br({y})>>) = 2 /\ Len(<<Br({y})>>) = 1
      BY Tuples
    <2>4. IsSeq(default) /\ Ended(default) /\ (Len(default) = 1 \/ Len(default) = 2)
      BY ONLY <2>1, <2>2, <2>3
    <2>. QED BY ONLY <1>2, <2>4
  <1>. QED BY <1>1, <1>2

\* What is emitted in front of a loop ends the block it is put into.
LEMMA LoopHeadProps ==
    ASSUME NEW s, s.kind \in LoopKind, NEW control, NEW loop, NEW cont,
           NEW new, new = LoopHead(s, control, loop, cont)
    PROVE  /\ IsSeq(new) /\ Ended(new)
           /\ Len(new) = 2 \/ (Len(new) = 1 /\ s.kind \in {"pre_loop", "post_loop"})
  <1>1. PICK x : \/ new = <<Plain, Br({x})>>
                 \/ new = <<Br({x})>> /\ s.kind \in {"pre_loop", "post_loop"}
    BY DEF LoopHead, LoopKind
  <1>2. Ended(<<Plain, Br({x})>>) /\ Ended(<<Br({x})>>)
    BY OpProps, EndedTuples
  <1>3. /\ IsSeq(<<Plain, Br({x})>>) /\ IsSeq(<<Br({x})>>)
        /\ Len(<<Plain, Br({x})>>) = 2 /\ Len(<<Br({x})>>) = 1
    BY Tuples
  <1>. QED BY ONLY <1>1, <1>2, <1>3

-----------------------------------------------------------------------------
(* The frames of the walk.                                                 *)

CFrame == [block: Block, pc: Nat \ {0}, inner: Nat, els: Nat, cont: Nat, visiting: 0..2]

\* The block a frame's statement is visiting.
Child(tree, f) == IF f.visiting = 2 THEN StatAt(tree, f).alt ELSE StatAt(tree, f).body

\* A frame that is inside a statement.
Inside(tree, f) ==
    /\ InRange(tree, f) /\ StatAt(tree, f).kind \notin LeafKind
    /\ f.visiting = 2 => StatAt(tree, f).alt # NoBlock

ChainOK(tree, Y, fs) ==
    /\ fs \in Seq(CFrame) /\ Len(fs) > 0 /\ fs[1].block = Root
    /\ \A k \in 1..Len(fs) :
          /\ fs[k].block \in Y
          /\ k > 1 => fs[k].block # Root
          /\ fs[k].visiting # 0 => Inside(tree, fs[k])
          /\ k < Len(fs) => fs[k].visiting # 0 /\ fs[k + 1].block = Child(tree, fs[k])

\* The frames inside a loop or a conditional.
Owns(tree, f)     == f.visiting # 0 /\ StatAt(tree, f).kind # "block"

OwnersOf(tree, fs) == {k \in 1..Len(fs) : Owns(tree, fs[k])}

\* The MLIR blocks such a frame is going to emit into, and the one it does.
Waits(tree, f) ==
    {f.cont} \cup (IF f.visiting = 1 /\ StatAt(tree, f).alt # NoBlock THEN {f.els} ELSE {})

Cur(f) == IF f.visiting = 2 THEN f.els ELSE f.inner

\* With c blocks created.
FrameOK(tree, f, c) ==
    /\ Waits(tree, f) \subseteq 1..c /\ Cur(f) \in 1..c /\ Cur(f) \notin Waits(tree, f)
    /\ f.visiting = 1 /\ StatAt(tree, f).alt # NoBlock => f.els # f.cont

FramesApart(tree, f, g) ==
    /\ Waits(tree, f) \cap Waits(tree, g) = {}
    /\ Cur(f) \notin Waits(tree, g) /\ Cur(g) \notin Waits(tree, f)

FramesOK(tree, fs, c) ==
    /\ \A k \in OwnersOf(tree, fs) : FrameOK(tree, fs[k], c)
    /\ \A j, k \in OwnersOf(tree, fs) : j # k => FramesApart(tree, fs[j], fs[k])

\* There is always a frame, and the walk is at its block.
LEMMA StackTop ==
    ASSUME NEW tree, NEW Y, NEW fs, ChainOK(tree, Y, fs)
    PROVE  /\ Len(fs) \in Nat /\ Len(fs) \in 1..Len(fs) /\ fs # <<>>
           /\ Top(fs) = fs[Len(fs)] /\ Top(fs) \in CFrame
           /\ Top(fs).block \in Y
           /\ Top(fs).visiting # 0 => Inside(tree, Top(fs))
           /\ Top(fs).block = Root => Len(fs) = 1
           /\ Len(fs) = 1 => Top(fs).block = Root
  <1>1. fs \in Seq(CFrame) /\ Len(fs) \in Nat /\ Len(fs) > 0
    BY DEF ChainOK
  <1>2. Len(fs) \in 1..Len(fs) /\ fs # <<>>
    <2>1. fs # <<>>
      BY ONLY <1>1, LenProps
    <2>2. PICK n \in Nat : n = Len(fs) /\ n > 0
      BY ONLY <1>1
    <2>3. n \in 1..n
      BY ONLY <2>2
    <2>. QED BY ONLY <2>1, <2>2, <2>3
  <1>3. fs[Len(fs)] \in CFrame
    BY ONLY <1>1, <1>2
  <1>4. Len(fs) > 1 \/ Len(fs) = 1
    <2>1. PICK n \in Nat : n = Len(fs) /\ n > 0
      BY ONLY <1>1
    <2>2. n > 1 \/ n = 1
      BY <2>1
    <2>. QED BY ONLY <2>1, <2>2
  <1>. QED BY ONLY <1>1, <1>2, <1>3, <1>4, ChainOK(tree, Y, fs) DEF ChainOK, Top

\* The end of a block that is not the body of the subroutine.
Popped(tree, Y, fs, new) ==
    /\ ChainOK(tree, Y, new) /\ Top(new) = fs[Len(fs) - 1]
    /\ OwnersOf(tree, new) = OwnersOf(tree, fs)
    /\ \A k \in OwnersOf(tree, new) : new[k] = fs[k]
    /\ Top(new).visiting # 0 /\ Inside(tree, Top(new)) /\ Top(fs).block = Child(tree, Top(new))

\* The frames stay nested when a block is left.
LEMMA PopFrames ==
    ASSUME NEW tree \in Tree, NEW Y, NEW fs, ChainOK(tree, Y, fs), Len(fs) # 1,
           ~InRange(tree, Top(fs))
    PROVE  Popped(tree, Y, fs, Pop(fs))
  <1>. SUFFICES ASSUME NEW n, n = Len(fs), n # 1, NEW f, f = Top(fs), ~InRange(tree, f),
                       NEW new, new = Pop(fs)
                PROVE  Popped(tree, Y, fs, new)
    OBVIOUS
  <1>1. /\ n \in Nat /\ n \in 1..n /\ f = fs[n] /\ f.visiting = 0 /\ fs \in Seq(CFrame)
    <2>1. /\ Len(fs) \in Nat /\ Len(fs) \in 1..Len(fs) /\ Top(fs) = fs[Len(fs)]
          /\ Top(fs).visiting # 0 => Inside(tree, Top(fs))
      BY ONLY StackTop, ChainOK(tree, Y, fs)
    <2>2. fs \in Seq(CFrame)
      BY DEF ChainOK
    <2>3. ~Inside(tree, f)
      BY DEF Inside
    <2>. QED BY ONLY <2>1, <2>2, <2>3, n = Len(fs), f = Top(fs)
  <1>2. n - 1 \in 1..n /\ n > 1 /\ n \in 1..(n + 1) /\ n - 1 > 0 /\ n - 1 < n /\ (n - 1) + 1 = n
        /\ n - 1 \in 1..(n - 1) /\ 1 \in 1..(n - 1)
    BY <1>1
  <1>3. new \in Seq(CFrame) /\ Len(new) = n - 1 /\ \A i \in 1..(n - 1) : new[i] = fs[i]
    <2>1. new = Below(fs, n)
      BY DEF Pop
    <2>2. n \in 1..(Len(fs) + 1)
      BY <1>2
    <2>3. /\ Below(fs, n) \in Seq(CFrame) /\ Len(Below(fs, n)) = n - 1
          /\ \A i \in 1..(n - 1) : Below(fs, n)[i] = fs[i]
      BY ONLY <1>1, <2>2, BelowProps
    <2>. QED BY ONLY <2>1, <2>3
  <1>4. ~Owns(tree, f)
    BY <1>1 DEF Owns
  <1>5. \A k \in 1..n : k = n \/ k \in 1..(n - 1)
    BY <1>1
  <1>6. \A k \in 1..(n - 1) : k \in 1..n /\ (k < n - 1 => k + 1 \in 1..(n - 1)) /\ k < n
    BY <1>1
  <1>7. OwnersOf(tree, new) = OwnersOf(tree, fs)
    BY ONLY <1>1, <1>3, <1>4, <1>5, <1>6, n = Len(fs) DEF OwnersOf
  <1>8. \A k \in OwnersOf(tree, new) : new[k] = fs[k]
    BY ONLY <1>3 DEF OwnersOf
  <1>9. Top(new) = fs[n - 1]
    BY ONLY <1>2, <1>3 DEF Top
  <1>10. /\ fs[n - 1].visiting # 0 /\ Inside(tree, fs[n - 1])
         /\ f.block = Child(tree, fs[n - 1])
    BY ONLY <1>1, <1>2, ChainOK(tree, Y, fs), n = Len(fs) DEF ChainOK
  <1>11. ChainOK(tree, Y, new)
    BY ONLY <1>2, <1>3, <1>6, ChainOK(tree, Y, fs), n = Len(fs) DEF ChainOK
  <1>. QED BY ONLY <1>7, <1>8, <1>9, <1>10, <1>11, n = Len(fs), f = Top(fs) DEF Popped

\* Fewer owners, or more blocks.
LEMMA FramesKept ==
    ASSUME NEW tree, NEW fs, NEW c \in Nat, FramesOK(tree, fs, c),
           NEW new, OwnersOf(tree, new) \subseteq OwnersOf(tree, fs),
           \A k \in OwnersOf(tree, new) : new[k] = fs[k]
    PROVE  FramesOK(tree, new, c)
  BY ONLY FramesOK(tree, fs, c), OwnersOf(tree, new) \subseteq OwnersOf(tree, fs),
          \A k \in OwnersOf(tree, new) : new[k] = fs[k] DEF FramesOK

\* Owner n gets the frame g.
LEMMA FramesReplaced ==
    ASSUME NEW tree, NEW fs, NEW c \in Nat, FramesOK(tree, fs, c), NEW c2 \in Nat, c <= c2,
           NEW n, NEW g, NEW new, OwnersOf(tree, new) = (OwnersOf(tree, fs) \ {n}) \cup {n},
           \A k \in OwnersOf(tree, fs) \ {n} : new[k] = fs[k], new[n] = g,
           FrameOK(tree, g, c2),
           \A k \in OwnersOf(tree, fs) \ {n} : FramesApart(tree, fs[k], g)
    PROVE  FramesOK(tree, new, c2)
  <1>1. \A h : FrameOK(tree, h, c) => FrameOK(tree, h, c2)
    <2>1. 1..c \subseteq 1..c2
      OBVIOUS
    <2>. QED BY <2>1 DEF FrameOK
  <1>2. \A h1, h2 : FramesApart(tree, h1, h2) => FramesApart(tree, h2, h1)
    BY DEF FramesApart
  <1>3. \A k \in OwnersOf(tree, new) : k = n \/ k \in OwnersOf(tree, fs) \ {n}
    OBVIOUS
  <1>4. \A k \in OwnersOf(tree, new) : FrameOK(tree, new[k], c2)
    BY <1>1, <1>3 DEF FramesOK
  <1>5. \A j, k \in OwnersOf(tree, new) : j # k => FramesApart(tree, new[j], new[k])
    BY <1>2, <1>3 DEF FramesOK
  <1>. QED BY <1>4, <1>5 DEF FramesOK

-----------------------------------------------------------------------------
(* The blocks while the walk is going on.                                  *)

Awaited(tree, fs, b) == \E k \in OwnersOf(tree, fs) : b \in Waits(tree, fs[k])

\* Block b with the operations s; p is the insertion point, l the last
\* continue block.
BlockOK(tree, fs, s, b, p, l) ==
    /\ IsSeq(s)
    /\ Awaited(tree, fs, b) => s = <<>>
    /\ b # p /\ ~Awaited(tree, fs, b) => ClosedIn(s, b, l)

BlocksOK(tree, fs, table, c, p, l) ==
    /\ c \in Nat /\ DOMAIN table = 1..c
    /\ p \in 1..c /\ l \in 0..c
    /\ ~Awaited(tree, fs, p) /\ ~Awaited(tree, fs, l)
    /\ \A b \in 1..c : BlockOK(tree, fs, table[b], b, p, l)

\* nested_blocks_stack "ne" and the frames O it has entries for.
NestedOK(ne, O, l) ==
    /\ IsSeq(ne) /\ IsFiniteSet(O) /\ Len(ne) = Cardinality(O)
    /\ ne = <<>> => l = Null

(***************************************************************************)
(* Where the walk is, while what it emits can be reached: the frame is f,  *)
(* the insertion point has the operations s, the last d of them a branch   *)
(* in case.  Nothing that returns has been passed, and a statement that    *)
(* emits one operation does not come first behind such a branch.           *)
(***************************************************************************)
LiveRule(tree, one, R, f, s, d) ==
    /\ InRange(tree, f) /\ f.visiting # 0 /\ StatAt(tree, f).kind = "block"
         => ~ReturnsSurely(StatAt(tree, f), R)
    /\ InRange(tree, f) /\ f.visiting = 0 /\ StatAt(tree, f).kind \in one /\ d > 0
         => Len(s) > d
    /\ ~InRange(tree, f) => ~(f.block \in R /\ NoExits(tree, f.block))

(***************************************************************************)
(* And when nothing more can be reached: only blocks are left.             *)
(***************************************************************************)
DeadRule(tree, R, fs) ==
    LET f == Top(fs)
    IN /\ InRange(tree, f) => /\ f.visiting # 0
                              /\ StatAt(tree, f).kind = "block" => ReturnsSurely(StatAt(tree, f), R)
       /\ ~InRange(tree, f) =>
             f.block \in R \/ (Len(fs) # 1 /\ StatAt(tree, fs[Len(fs) - 1]).kind # "block")

\* The innermost loop or conditional emits into block b.
InnerIs(tree, fs, b) ==
    \A k \in OwnersOf(tree, fs) : (\A j \in OwnersOf(tree, fs) : j <= k) => b = Cur(fs[k])

Live(tree, one, R, fs, s, p, l) ==
    /\ Alive(s, p.behind)
    /\ p.behind > 0 => l = p.block
    /\ p.behind = 0 => InnerIs(tree, fs, p.block)
    /\ LiveRule(tree, one, R, Top(fs), s, p.behind)

Dead(tree, R, fs, s, p, l) ==
    ClosedIn(s, p.block, l) /\ DeadRule(tree, R, fs)

\* The inductive invariant of the walk, for the blocks R and Y of the tree.
WalkOK(tree, terminal, one, R, Y, fs, table, c, p, ne, l) ==
    /\ tree \in Tree /\ TreeFacts(tree, terminal, one, R, Y)
    /\ ChainOK(tree, Y, fs) /\ FramesOK(tree, fs, c)
    /\ BlocksOK(tree, fs, table, c, p.block, l)
    /\ NestedOK(ne, OwnersOf(tree, fs), l)
    /\ \/ Live(tree, one, R, fs, table[p.block], p, l)
       \/ Dead(tree, R, fs, table[p.block], p, l)

-----------------------------------------------------------------------------
(* Where the walk is in the tree.                                          *)

\* The facts about one statement.
FactsAt(tree, terminal, one, R, Y, b, i) ==
    /\ i \in DOMAIN tree[b] /\ tree[b][i] \in Stat
    /\ SubBlocks(tree[b][i]) \subseteq Y \ {Root}
    /\ Placed(tree, R, b, i)
    /\ <<b, i>> \in terminal <=> tree[b][i].kind = "cond" /\ ReturnsSurely(tree[b][i], R)
    /\ tree[b][i].kind = "block" => NoExits(tree, tree[b][i].body)
    /\ StandsApart(tree, one, Y, b, i)

\* The facts of the tree at one statement.
LEMMA StatFacts ==
    ASSUME NEW tree \in Tree, NEW terminal, NEW one, NEW R, NEW Y \in SUBSET Block,
           TreeFacts(tree, terminal, one, R, Y), NEW b \in Y, NEW i \in 1..Len(tree[b])
    PROVE  FactsAt(tree, terminal, one, R, Y, b, i)
  <1>1. tree[b] \in Seq(Stat) /\ DOMAIN tree[b] = 1..Len(tree[b])
    BY DEF Tree
  <1>2. i \in DOMAIN tree[b] /\ tree[b][i] \in Stat
    BY <1>1
  <1>. QED BY <1>2 DEF TreeFacts, FactsAt

\* A block that returns and has no exit ends in a statement that returns.
LEMMA EndFacts ==
    ASSUME NEW tree \in Tree, NEW terminal, NEW one, NEW R, NEW Y \in SUBSET Block,
           TreeFacts(tree, terminal, one, R, Y), NEW b \in Y, b \in R, NoExits(tree, b)
    PROVE  Len(tree[b]) > 0 /\ ReturnsSurely(tree[b][Len(tree[b])], R)
  BY DEF TreeFacts

\* Behind a statement that does not return.
LEMMA NextLive ==
    ASSUME NEW tree \in Tree, NEW terminal, NEW one, NEW R, NEW Y \in SUBSET Block,
           TreeFacts(tree, terminal, one, R, Y), NEW b \in Y, NEW i \in 1..Len(tree[b]),
           ~ReturnsSurely(tree[b][i], R),
           NEW f, f.block = b, f.pc = i + 1, f.visiting = 0, NEW s, NEW d,
           b = Root => ~(d > 0),
           tree[b][i].kind \in {"decl", "plain"} /\ d > 0 => Len(s) > d
    PROVE  LiveRule(tree, one, R, f, s, d)
  <1>1. PICK n \in Nat : n = Len(tree[b])
    BY DEF Tree
  <1>2. i \in Nat /\ 1 <= i /\ i <= n
    BY <1>1
  <1>3. InRange(tree, f) <=> i + 1 <= n
    BY <1>1 DEF InRange
  <1>4. ASSUME InRange(tree, f), StatAt(tree, f).kind \in one, d > 0
        PROVE  Len(s) > d
    <2>1. i + 1 \in 1..n /\ i + 1 > 1 /\ (i + 1) - 1 = i
      BY <1>2, <1>3, <1>4
    <2>2. StatAt(tree, f) = tree[b][i + 1]
      BY DEF StatAt
    <2>3. StandsApart(tree, one, Y, b, i + 1)
      <3>1. i + 1 \in 1..Len(tree[b])
        BY ONLY <1>1, <2>1
      <3>2. FactsAt(tree, terminal, one, R, Y, b, i + 1)
        BY <3>1, StatFacts
      <3>. QED BY ONLY <3>2 DEF FactsAt
    <2>4. b # Root
      BY <1>4
    <2>5. tree[b][(i + 1) - 1].kind \in {"decl", "plain"}
      BY ONLY <1>4, <2>1, <2>2, <2>3, <2>4 DEF StandsApart
    <2>6. tree[b][i].kind \in {"decl", "plain"}
      BY ONLY <2>1, <2>5
    <2>. QED BY <1>4, <2>6
  <1>5. ASSUME ~InRange(tree, f), f.block \in R, NoExits(tree, f.block)
        PROVE  FALSE
    <2>1. i = n
      BY <1>2, <1>3, <1>5
    <2>2. ReturnsSurely(tree[b][Len(tree[b])], R)
      BY <1>5, EndFacts
    <2>. QED BY <1>1, <2>1, <2>2
  <1>. QED BY <1>4, <1>5 DEF LiveRule

\* Behind a statement that returns, or that leaves a loop.
LEMMA NextDead ==
    ASSUME NEW tree \in Tree, NEW terminal, NEW one, NEW R, NEW Y \in SUBSET Block,
           TreeFacts(tree, terminal, one, R, Y), NEW fs, ChainOK(tree, Y, fs),
           NEW b \in Y, NEW i \in 1..Len(tree[b]),
           ReturnsSurely(tree[b][i], R) \/ IsExit(tree[b][i]),
           Top(fs).block = b, Top(fs).pc = i + 1
    PROVE  DeadRule(tree, R, fs)
  <1>1. PICK n \in Nat : n = Len(tree[b])
    BY DEF Tree
  <1>2. Placed(tree, R, b, i) /\ i \in DOMAIN tree[b]
    <2>1. FactsAt(tree, terminal, one, R, Y, b, i)
      BY StatFacts
    <2>. QED BY ONLY <2>1 DEF FactsAt
  <1>3. i = n
    BY <1>1, <1>2 DEF Placed
  <1>4. ~InRange(tree, Top(fs))
    BY <1>1, <1>3 DEF InRange
  <1>5. CASE ReturnsSurely(tree[b][i], R)
    BY <1>2, <1>4, <1>5 DEF Placed, DeadRule
  <1>6. CASE IsExit(tree[b][i])
    <2>1. b # Root
      BY <1>2, <1>6 DEF TreeFacts, NoExits
    <2>2. PICK m : m = Len(fs)
      OBVIOUS
    <2>3. m \in Nat /\ m \in 1..m /\ m # 1 /\ fs[m].block = b
      <3>1. /\ Len(fs) \in Nat /\ Len(fs) \in 1..Len(fs) /\ Top(fs) = fs[Len(fs)]
            /\ Len(fs) = 1 => Top(fs).block = Root
        BY ONLY StackTop, ChainOK(tree, Y, fs)
      <3>. QED BY ONLY <2>1, <2>2, <3>1, Top(fs).block = b
    <2>4. m - 1 \in 1..m /\ m - 1 < m /\ (m - 1) + 1 = m
      BY ONLY <2>3
    <2>5. PICK g : g = fs[m - 1]
      OBVIOUS
    <2>6. g.visiting # 0 /\ b = Child(tree, g) /\ Inside(tree, g) /\ g.block \in Y
      BY ONLY <2>2, <2>3, <2>4, <2>5, ChainOK(tree, Y, fs) DEF ChainOK
    <2>7. g.pc \in 1..Len(tree[g.block])
      <3>1. g \in CFrame
        BY ONLY <2>2, <2>4, <2>5, ChainOK(tree, Y, fs) DEF ChainOK
      <3>2. PICK k \in Nat : k = Len(tree[g.block])
        BY <2>6 DEF Tree
      <3>3. g.pc \in Nat /\ g.pc # 0 /\ g.pc <= k
        BY <2>6, <3>1, <3>2 DEF CFrame, Inside, InRange
      <3>. QED BY ONLY <3>2, <3>3
    <2>8. PICK t : t = StatAt(tree, g) /\ t = tree[g.block][g.pc]
      BY DEF StatAt
    <2>9. t \in Stat /\ (t.kind = "block" => NoExits(tree, t.body))
      <3>1. FactsAt(tree, terminal, one, R, Y, g.block, g.pc)
        BY <2>6, <2>7, StatFacts
      <3>. QED BY ONLY <2>8, <3>1 DEF FactsAt
    <2>10. t.kind # "block"
      <3>1. SUFFICES ASSUME t.kind = "block" PROVE FALSE
        OBVIOUS
      <3>2. t.alt = NoBlock
        BY <2>9, <3>1 DEF Stat
      <3>3. b = t.body
        BY <2>6, <2>8, <3>2 DEF Child, Inside
      <3>4. NoExits(tree, b)
        BY <2>9, <3>1, <3>3
      <3>. QED BY <1>2, <1>6, <3>4 DEF NoExits
    <2>. QED BY <1>4, <2>2, <2>3, <2>5, <2>8, <2>10 DEF DeadRule
  <1>. QED BY <1>5, <1>6

-----------------------------------------------------------------------------
(* What the steps do to the blocks.                                        *)

\* The owners are frames, and a block that is awaited has been created.
LEMMA OwnerFacts ==
    ASSUME NEW tree, NEW fs, NEW c \in Nat, FramesOK(tree, fs, c)
    PROVE  /\ \A k \in OwnersOf(tree, fs) : k \in 1..Len(fs)
           /\ \A b : Awaited(tree, fs, b) => b \in 1..c
           /\ ~Awaited(tree, fs, Null)
           /\ \A k \in OwnersOf(tree, fs) : /\ Cur(fs[k]) \in 1..c
                                            /\ ~Awaited(tree, fs, Cur(fs[k]))
  <1>1. \A k \in OwnersOf(tree, fs) : k \in 1..Len(fs)
    BY DEF OwnersOf
  <1>2. \A b : Awaited(tree, fs, b) => b \in 1..c
    BY DEF Awaited, FramesOK, FrameOK
  <1>3. Null \notin 1..c
    BY DEF Null
  <1>4. ASSUME NEW k \in OwnersOf(tree, fs)
        PROVE  Cur(fs[k]) \in 1..c /\ ~Awaited(tree, fs, Cur(fs[k]))
    <2>1. \A j \in OwnersOf(tree, fs) : Cur(fs[k]) \notin Waits(tree, fs[j])
      BY DEF FramesOK, FrameOK, FramesApart
    <2>. QED BY <2>1 DEF FramesOK, FrameOK, Awaited
  <1>. QED BY <1>1, <1>2, <1>3, <1>4

\* Block b gets the operations s.
With(table, b, s) == [table EXCEPT ![b] = s]

\* The same blocks are awaited.
SameAwaited(tree, fs, new) == \A b : Awaited(tree, new, b) <=> Awaited(tree, fs, b)

\* The block of the insertion point changes.
LEMMA PointBlock ==
    ASSUME NEW tree, NEW fs, NEW table, NEW c, NEW p, NEW l, BlocksOK(tree, fs, table, c, p, l),
           NEW new, SameAwaited(tree, fs, new),
           NEW s, IsSeq(s), NEW table2, table2 = With(table, p, s)
    PROVE  BlocksOK(tree, new, table2, c, p, l) /\ table2[p] = s
  <1>. USE DEF SameAwaited, With
  <1>1. p \in DOMAIN table /\ DOMAIN table2 = DOMAIN table /\ table2[p] = s
    BY DEF BlocksOK
  <1>2. \A b \in 1..c : b # p => table2[b] = table[b]
    BY DEF BlocksOK
  <1>3. ASSUME NEW b \in 1..c PROVE BlockOK(tree, new, table2[b], b, p, l)
    <2>1. CASE b = p
      BY <1>1, <2>1 DEF BlocksOK, BlockOK
    <2>2. CASE b # p
      BY <1>2, <2>2 DEF BlocksOK, BlockOK
    <2>. QED BY <2>1, <2>2
  <1>. QED BY <1>1, <1>3 DEF BlocksOK

\* The insertion point has moved, and the block it was in is complete.
Settled(tree, fs, table, c, l) ==
    /\ DOMAIN table = 1..c
    /\ \A b \in 1..c : /\ IsSeq(table[b])
                       /\ Awaited(tree, fs, b) => table[b] = <<>>
                       /\ ~Awaited(tree, fs, b) => ClosedIn(table[b], b, l)

\* After the clean-up.
Complete(tree, fs, table, c) ==
    /\ DOMAIN table = 1..c
    /\ \A b \in 1..c : /\ IsSeq(table[b])
                       /\ Awaited(tree, fs, b) => table[b] = <<>>
                       /\ ~Awaited(tree, fs, b) => Ended(table[b])

\* After the clean-up all blocks that nobody waits for are ended.
LEMMA Completes ==
    ASSUME NEW tree, NEW fs, NEW table, NEW c, c \in Nat, NEW l, Settled(tree, fs, table, c, l),
           l \in 0..c, ~Awaited(tree, fs, l), NEW by_loop, NEW table2,
           table2 = IF l = Null THEN table ELSE With(table, l, Cleaned(table[l], by_loop))
    PROVE  Complete(tree, fs, table2, c)
  <1>. USE DEF With
  <1>1. CASE l = Null
    <2>1. \A b \in 1..c : b # l
      BY <1>1 DEF Null
    <2>. QED BY <1>1, <2>1 DEF Settled, Complete, ClosedIn
  <1>2. CASE l # Null
    <2>1. l \in 1..c
      BY <1>2 DEF Null
    <2>2. /\ DOMAIN table2 = 1..c /\ table2[l] = Cleaned(table[l], by_loop)
          /\ \A b \in 1..c : b # l => table2[b] = table[b]
      BY <1>2, <2>1 DEF Settled
    <2>3. IsSeq(table[l]) /\ (Ended(table[l]) \/ Twice(table[l]))
      BY <2>1 DEF Settled, ClosedIn
    <2>4. IsSeq(table2[l]) /\ Ended(table2[l])
      BY <2>2, <2>3, CleanedCloses
    <2>5. ASSUME NEW b \in 1..c
          PROVE  /\ IsSeq(table2[b])
                 /\ Awaited(tree, fs, b) => table2[b] = <<>>
                 /\ ~Awaited(tree, fs, b) => Ended(table2[b])
      <3>1. CASE b = l
        BY <2>4, <3>1
      <3>2. CASE b # l
        BY <2>2, <3>2 DEF Settled, ClosedIn
      <3>. QED BY <3>1, <3>2
    <2>. QED BY <2>2, <2>5 DEF Complete
  <1>. QED BY <1>1, <1>2

\* The end of a statement: the walk goes on in its continue block.
Disowned(tree, fs, n, new) ==
    /\ OwnersOf(tree, new) = OwnersOf(tree, fs) \ {n}
    /\ \A k \in OwnersOf(tree, new) : new[k] = fs[k]

\* Every other block stays as it should when a statement resumes at its cont.
LEMMA EndBlocks ==
    ASSUME NEW tree, NEW fs, NEW c \in Nat, FramesOK(tree, fs, c), NEW table,
           Complete(tree, fs, table, c), NEW n \in OwnersOf(tree, fs), NEW cont,
           Waits(tree, fs[n]) = {cont}, NEW new, Disowned(tree, fs, n, new),
           NEW s, IsSeq(s), NEW table2, table2 = With(table, cont, s),
           NEW l, l = Null \/ l = cont
    PROVE  BlocksOK(tree, new, table2, c, cont, l) /\ table2[cont] = s
  <1>. USE DEF With, Disowned
  <1>1. cont \in 1..c
    BY DEF FramesOK, FrameOK
  <1>2. \A b : Awaited(tree, new, b) => Awaited(tree, fs, b)
    BY DEF Awaited
  <1>3. \A b : Awaited(tree, fs, b) => Awaited(tree, new, b) \/ b = cont
    BY DEF Awaited
  <1>4. ~Awaited(tree, new, cont)
    BY DEF Awaited, FramesOK, FramesApart
  <1>5. ~Awaited(tree, new, Null)
    BY <1>2, OwnerFacts
  <1>6. /\ DOMAIN table2 = 1..c /\ table2[cont] = s
        /\ \A b \in 1..c : b # cont => table2[b] = table[b]
    BY <1>1 DEF Complete
  <1>7. \A b \in 1..c : b # cont =>
           /\ IsSeq(table2[b])
           /\ Awaited(tree, new, b) => table2[b] = <<>>
           /\ ~Awaited(tree, new, b) => Ended(table2[b])
    BY <1>2, <1>3, <1>6 DEF Complete
  <1>8. ASSUME NEW b \in 1..c PROVE BlockOK(tree, new, table2[b], b, cont, l)
    <2>1. CASE b = cont
      BY <1>4, <1>6, <2>1 DEF BlockOK
    <2>2. CASE b # cont
      BY <1>7, <2>2 DEF BlockOK, ClosedIn
    <2>. QED BY <2>1, <2>2
  <1>9. l \in 0..c /\ ~Awaited(tree, new, l)
    BY <1>1, <1>4, <1>5 DEF Null
  <1>. QED BY <1>1, <1>4, <1>6, <1>7, <1>8, <1>9 DEF BlocksOK

\* nested_blocks_stack when a statement is begun and ended.
LEMMA NestedPush ==
    ASSUME NEW ne, NEW O, NEW l, NestedOK(ne, O, l), NEW n, n \notin O, NEW e, NEW l2
    PROVE  NestedOK(Append(ne, e), O \cup {n}, l2) /\ Append(ne, e) # <<>>
  <1>1. PICK S : ne \in Seq(S)
    BY DEF NestedOK, IsSeq
  <1>2. PICK m \in Nat : m = Len(ne)
    BY <1>1
  <1>3. PICK more : more = Append(ne, e)
    OBVIOUS
  <1>4. ne \in Seq(S \cup {e})
    BY <1>1
  <1>5. more \in Seq(S \cup {e}) /\ Len(more) = m + 1
    BY <1>2, <1>3, <1>4
  <1>6. IsFiniteSet(O) /\ Cardinality(O) = m
    BY <1>2 DEF NestedOK
  <1>7. IsFiniteSet(O \cup {n}) /\ Cardinality(O \cup {n}) = m + 1
    BY <1>6, FS_AddElement
  <1>8. more # <<>>
    BY <1>2, <1>5
  <1>. QED BY <1>3, <1>5, <1>7, <1>8 DEF NestedOK, IsSeq

\* One entry of nested_blocks_stack goes with one frame.
LEMMA NestedPop ==
    ASSUME NEW ne, NEW O, NEW l, NestedOK(ne, O, l), NEW n \in O
    PROVE  /\ IsSeq(Front(ne)) /\ (Front(ne) = <<>> <=> O \ {n} = {})
           /\ \A l2 : (Front(ne) = <<>> => l2 = Null) => NestedOK(Front(ne), O \ {n}, l2)
  <1>1. PICK S : ne \in Seq(S)
    BY DEF NestedOK, IsSeq
  <1>2. PICK m \in Nat : m = Len(ne)
    BY <1>1
  <1>3. IsFiniteSet(O) /\ Cardinality(O) = m
    BY <1>2 DEF NestedOK
  <1>4. IsFiniteSet(O \ {n}) /\ Cardinality(O \ {n}) = m - 1
    BY <1>3, FS_RemoveElement
  <1>5. Cardinality(O \ {n}) \in Nat /\ (Cardinality(O \ {n}) = 0 <=> O \ {n} = {})
    BY <1>4, FS_CardinalityType, FS_EmptySet
  <1>6. m - 1 \in Nat
    BY <1>4, <1>5
  <1>7. PICK less : less = Front(ne)
    OBVIOUS
  <1>8. less = SubSeq(ne, 1, m - 1)
    BY <1>2, <1>7 DEF Front
  <1>9. less \in Seq(S) /\ Len(less) = m - 1
    BY <1>1, <1>2, <1>6, <1>8
  <1>10. less = <<>> <=> m - 1 = 0
    BY ONLY <1>9, LenProps
  <1>11. IsSeq(less)
    BY <1>9 DEF IsSeq
  <1>. QED BY ONLY <1>4, <1>5, <1>7, <1>9, <1>10, <1>11 DEF NestedOK

-----------------------------------------------------------------------------
(* The steps of the walk.                                                  *)

(***************************************************************************)
(* The start of a loop or conditional: "begin" is emitted where it stands, *)
(* the blocks up to c2 are created, g is the frame from then on.           *)
(***************************************************************************)
Begun(table, table2, c, c2, p, begin, tree, g) ==
    /\ DOMAIN table2 = 1..c2
    /\ table2[p.block] = Put(table[p.block], p.behind, begin)
    /\ \A b \in 1..c : b # p.block => table2[b] = table[b]
    /\ \A b \in (c + 1)..c2 : /\ IsSeq(table2[b])
                              /\ b \in Waits(tree, g) => table2[b] = <<>>
                              /\ b = Cur(g) \/ b \in Waits(tree, g) \/ Ended(table2[b])
    /\ Alive(table2[Cur(g)], 0)

NewFrame(tree, g, c, c2) ==
    /\ Waits(tree, g) \subseteq (c + 1)..c2 /\ Cur(g) \in (c + 1)..c2
    /\ FrameOK(tree, g, c2)

\* A frame that is inside a statement is at one.
LEMMA InsideFacts ==
    ASSUME NEW tree \in Tree, NEW terminal, NEW one, NEW R, NEW Y \in SUBSET Block,
           TreeFacts(tree, terminal, one, R, Y), NEW g \in CFrame, g.block \in Y, InRange(tree, g)
    PROVE  FactsAt(tree, terminal, one, R, Y, g.block, g.pc)
  <1>1. PICK k \in Nat : k = Len(tree[g.block])
    BY DEF Tree
  <1>2. g.pc \in Nat /\ g.pc # 0 /\ g.pc <= k
    BY <1>1 DEF CFrame, InRange
  <1>3. g.pc \in 1..Len(tree[g.block])
    BY ONLY <1>1, <1>2
  <1>. QED BY <1>3, StatFacts

-----------------------------------------------------------------------------
(* The loops around the blocks of the tree.                                *)

\* The bodies of the loops a block is in, with its own, as LoopsAround has it.
Surrounding(tree) ==
    CHOOSE around : around = [c \in Block |->
        UNION {around[o[1]] \cup (IF IsLoop(tree[o[1]][o[2]]) THEN {c} ELSE {}) :
               o \in Owners(tree, c)}]

\* LoopsAround satisfies the equation of its definition.
LEMMA SurroundingDef ==
    ASSUME NEW tree \in Tree
    PROVE  /\ \A b \in Block : \A x : x \in Surrounding(tree)[b] <=>
                 \E o \in Owners(tree, b) :
                    x \in Surrounding(tree)[o[1]] \/ (IsLoop(tree[o[1]][o[2]]) /\ x = b)
           /\ \A b \in Block : /\ LoopsHolding(tree, b) = Surrounding(tree)[b]
                               /\ LoopsAround(tree, b) = Surrounding(tree)[b] \ {b}
  <1>. DEFINE Is(o) == IsLoop(tree[o[1]][o[2]])
              S == Block \X Block
              G == [X \in SUBSET S |-> {p \in S : \E o \in Owners(tree, p[1]) :
                       <<o[1], p[2]>> \in X \/ (Is(o) /\ p[2] = p[1])}]
              Of(f) == [c \in Block |-> UNION {f[o[1]] \cup (IF Is(o) THEN {c} ELSE {}) :
                                                o \in Owners(tree, c)}]
              around == CHOOSE f : f = Of(f)
  <1>1. G \in [SUBSET S -> SUBSET S]
    OBVIOUS
  <1>2. \A X, Y \in SUBSET S : X \subseteq Y => G[X] \subseteq G[Y]
    OBVIOUS
  <1>3. PICK X \in SUBSET S : G[X] = X
    <2>. HIDE DEF S, G
    <2>. QED BY <1>1, <1>2, FixedPoint
  <1>. DEFINE f == [b \in Block |-> {c \in Block : <<b, c>> \in X}]
  <1>4. \A b, x \in Block : <<b, x>> \in X <=>
            \E o \in Owners(tree, b) : <<o[1], x>> \in X \/ (Is(o) /\ x = b)
    <2>1. ASSUME NEW b \in Block, NEW x \in Block
          PROVE  <<b, x>> \in X <=>
                    \E o \in Owners(tree, b) : <<o[1], x>> \in X \/ (Is(o) /\ x = b)
      <3>1. PICK p : p = <<b, x>>
        OBVIOUS
      <3>2. p \in S /\ p[1] = b /\ p[2] = x
        BY <3>1
      <3>3. p \in G[X] <=> \E o \in Owners(tree, p[1]) :
                               <<o[1], p[2]>> \in X \/ (Is(o) /\ p[2] = p[1])
        <4>. HIDE DEF S, Is
        <4>. QED BY ONLY <3>2, X \in SUBSET S DEF G
      <3>. HIDE DEF S, G, Is
      <3>. QED BY ONLY <1>3, <3>1, <3>2, <3>3
    <2>. QED BY <2>1
  <1>. HIDE DEF Is
  <1>5. f = Of(f)
    <2>1. ASSUME NEW b \in Block PROVE f[b] = Of(f)[b]
      <3>1. \A o \in Owners(tree, b) : o[1] \in Block
        BY OwnersDef
      <3>2. \A c \in Block : f[c] = {x \in Block : <<c, x>> \in X}
        OBVIOUS
      <3>. HIDE DEF f
      <3>3. Of(f)[b] = UNION {f[o[1]] \cup (IF Is(o) THEN {b} ELSE {}) : o \in Owners(tree, b)}
        OBVIOUS
      <3>. HIDE DEF Of
      <3>4. ASSUME NEW x \in f[b] PROVE x \in Of(f)[b]
        <4>0. x \in Block /\ <<b, x>> \in X
          BY <3>2
        <4>1. PICK o \in Owners(tree, b) : <<o[1], x>> \in X \/ (Is(o) /\ x = b)
          BY <1>4, <4>0, Zenon
        <4>2. x \in f[o[1]] \cup (IF Is(o) THEN {b} ELSE {})
          BY <3>1, <3>2, <4>0, <4>1
        <4>. QED BY <3>3, <4>2
      <3>5. ASSUME NEW x \in Of(f)[b] PROVE x \in f[b]
        <4>1. PICK o \in Owners(tree, b) : x \in f[o[1]] \cup (IF Is(o) THEN {b} ELSE {})
          BY <3>3
        <4>2. x \in Block /\ (<<o[1], x>> \in X \/ (Is(o) /\ x = b))
          BY <3>1, <3>2, <4>1
        <4>3. <<b, x>> \in X
          BY <1>4, <4>2, Zenon
        <4>. QED BY <3>2, <4>2, <4>3
      <3>. QED BY <3>4, <3>5
    <2>. QED BY <2>1
  <1>6. around = Of(around)
    <2>. HIDE DEF f, Of
    <2>. QED BY <1>5
  <1>7. Surrounding(tree) = around
    BY DEF Surrounding, Is
  <1>8. \A b \in Block : around[b] = UNION {around[o[1]] \cup (IF Is(o) THEN {b} ELSE {}) :
                                             o \in Owners(tree, b)}
    <2>. HIDE DEF around
    <2>. QED BY <1>6
  <1>9. \A b \in Block : LoopsHolding(tree, b) = around[b] /\ LoopsAround(tree, b) = around[b] \ {b}
    BY DEF LoopsHolding, LoopsAround, Is
  <1>. HIDE DEF around
  <1>10. ASSUME NEW b \in Block, NEW x
         PROVE  x \in around[b] <=> \E o \in Owners(tree, b) : x \in around[o[1]] \/ (Is(o) /\ x = b)
    BY <1>8
  <1>. QED BY <1>7, <1>9, <1>10 DEF Is

\* With the loop whose body is l, when its turn has begun.
Turn(tree, l) == LoopsAround(tree, l) \cup {l}

(***************************************************************************)
(* E: the loops around the blocks, their own included; Z: the blocks in    *)
(* which an exit has a loop to leave.                                      *)
(***************************************************************************)
LoopFacts(tree, E, Z) ==
    /\ Root \in Z /\ E[Root] = {}
    /\ \A b \in Z : E[b] = LoopsHolding(tree, b)
    /\ \A b \in Z : \A i \in DOMAIN tree[b] :
          /\ IsExit(tree[b][i]) => E[b] # {}
          /\ \A y \in SubBlocks(tree[b][i]) :
                /\ y \in Z
                /\ IsLoop(tree[b][i]) => E[y] = Turn(tree, y) /\ LoopsAround(tree, y) = E[b]
                /\ ~IsLoop(tree[b][i]) => E[y] = E[b]

\* In a tree of the right shape with no exit outside a loop, the loops around each block are known.
LEMMA TreeHasLoopFacts ==
    ASSUME NEW tree \in Tree, Shape(tree), NoLooseExit(tree)
    PROVE  \E E, Z : LoopFacts(tree, E, Z)
  <1>1. PICK X \in SUBSET Block : ExitFree(tree, X)
    BY DEF NoLooseExit
  <1>2. PICK E : E = Surrounding(tree)
    OBVIOUS
  <1>3. /\ \A b \in Block : \A x : x \in E[b] <=>
              \E o \in Owners(tree, b) : x \in E[o[1]] \/ (IsLoop(tree[o[1]][o[2]]) /\ x = b)
        /\ \A b \in Block : LoopsHolding(tree, b) = E[b] /\ LoopsAround(tree, b) = E[b] \ {b}
    BY <1>2, SurroundingDef
  <1>4. ParentsFirst(tree) /\ OneOwner(tree)
    BY DEF Shape
  <1>5. E[Root] = {}
    BY <1>3, <1>4, OwnersDef, RootIsBlock
  <1>6. \A b \in Block : \A x \in E[b] : x \in Block /\ x <= b
    <2>1. PICK Bad : Bad = {b \in Block : \E x \in E[b] : ~(x \in Block /\ x <= b)}
      OBVIOUS
    <2>2. SUFFICES ASSUME Bad # {} PROVE FALSE
      BY <2>1
    <2>3. Bad \subseteq Nat
      BY <2>1 DEF Block
    <2>4. PICK b \in Bad : \A c \in Bad : b <= c
      BY <2>2, <2>3, LeastNumber
    <2>5. PICK x \in E[b] : ~(x \in Block /\ x <= b)
      BY <2>1
    <2>6. b \in Block /\ b \in Nat /\ b <= b
      BY <2>1, <2>3
    <2>7. PICK o \in Owners(tree, b) : x \in E[o[1]] \/ (IsLoop(tree[o[1]][o[2]]) /\ x = b)
      BY <1>3, <2>5, <2>6
    <2>8. x \in E[o[1]]
      BY <2>5, <2>6, <2>7
    <2>9. o[1] \in Block /\ o[2] \in DOMAIN tree[o[1]] /\ b \in SubBlocks(tree[o[1]][o[2]])
      BY <2>6, OwnersDef
    <2>10. o[1] < b /\ o[1] \in Nat
      BY <1>4, <2>9 DEF ParentsFirst, Block
    <2>11. o[1] \notin Bad
      BY <2>4, <2>6, <2>10
    <2>12. x \in Block /\ x <= o[1]
      BY <2>1, <2>8, <2>9, <2>11
    <2>13. x \in Nat
      BY <2>12 DEF Block
    <2>. QED BY <2>5, <2>6, <2>10, <2>12, <2>13
  <1>7. ASSUME NEW b \in Block, NEW i \in DOMAIN tree[b], NEW y \in SubBlocks(tree[b][i])
        PROVE  /\ y \in Block /\ y \notin E[b]
               /\ \A x : x \in E[y] <=> x \in E[b] \/ (IsLoop(tree[b][i]) /\ x = y)
    <2>1. y \in Block
      BY StatsOfTree, StatProps
    <2>2. b < y /\ b \in Nat /\ y \in Nat
      BY <1>4, <2>1 DEF ParentsFirst, Block
    <2>3. y \notin E[b]
      BY <1>6, <2>2
    <2>4. Owners(tree, y) = {<<b, i>>}
      BY <1>4, <2>1, OwnersDef
    <2>. DEFINE o == <<b, i>>
    <2>5. o[1] = b /\ o[2] = i
      OBVIOUS
    <2>6. \A x : x \in E[y] <=> x \in E[o[1]] \/ (IsLoop(tree[o[1]][o[2]]) /\ x = y)
      <3>. HIDE DEF o
      <3>. QED BY <1>3, <2>1, <2>4 DEF o
    <2>. HIDE DEF o
    <2>7. \A x : x \in E[y] <=> x \in E[b] \/ (IsLoop(tree[b][i]) /\ x = y)
      BY <2>5, <2>6
    <2>. QED BY <2>1, <2>3, <2>7
  <1>8. PICK Z : Z = {b \in Block : b \in X \/ E[b] # {}}
    OBVIOUS
  <1>9. Root \in Z
    BY <1>1, <1>8, RootIsBlock DEF ExitFree
  <1>10. ASSUME NEW b \in Z, NEW i \in DOMAIN tree[b]
         PROVE  /\ IsExit(tree[b][i]) => E[b] # {}
                /\ \A y \in SubBlocks(tree[b][i]) :
                      /\ y \in Z
                      /\ IsLoop(tree[b][i]) => E[y] = Turn(tree, y) /\ LoopsAround(tree, y) = E[b]
                      /\ ~IsLoop(tree[b][i]) => E[y] = E[b]
    <2>1. b \in Block
      BY <1>8
    <2>2. IsExit(tree[b][i]) => E[b] # {}
      BY <1>1, <1>8 DEF ExitFree
    <2>3. ASSUME NEW y \in SubBlocks(tree[b][i]), IsLoop(tree[b][i])
          PROVE  y \in Z /\ E[y] = Turn(tree, y) /\ LoopsAround(tree, y) = E[b]
      <3>1. /\ y \in Block /\ y \notin E[b]
            /\ \A x : x \in E[y] <=> x \in E[b] \/ x = y
        BY <1>7, <2>1, <2>3
      <3>2. LoopsAround(tree, y) = E[y] \ {y}
        BY <1>3, <3>1
      <3>3. LoopsAround(tree, y) = E[b]
        BY ONLY <3>1, <3>2
      <3>4. E[y] = Turn(tree, y) /\ y \in E[y]
        BY ONLY <3>1, <3>3 DEF Turn
      <3>. QED BY <1>8, <3>1, <3>3, <3>4
    <2>4. ASSUME NEW y \in SubBlocks(tree[b][i]), ~IsLoop(tree[b][i])
          PROVE  y \in Z /\ E[y] = E[b]
      <3>1. y \in Block /\ \A x : x \in E[y] <=> x \in E[b]
        BY <1>7, <2>1, <2>4
      <3>2. E[y] = E[b]
        BY ONLY <3>1, <1>3, <2>1, SurroundingDef, <1>2
      <3>3. tree[b][i].kind \in {"block", "cond"}
        <4>1. tree[b][i] \in Stat
          BY <2>1, StatsOfTree
        <4>2. tree[b][i].kind \notin LeafKind
          BY <4>1, StatProps
        <4>. QED BY <2>4, <4>1, <4>2 DEF Stat, NodeFields, Kind, IsLoop
      <3>4. b \in X => y \in X
        BY <1>1, <3>3 DEF ExitFree
      <3>. QED BY <1>8, <3>1, <3>2, <3>4
    <2>. QED BY <2>2, <2>3, <2>4
  <1>11. \A b \in Z : E[b] = LoopsHolding(tree, b)
    BY ONLY <1>3, <1>8
  <1>12. LoopFacts(tree, E, Z)
    BY ONLY <1>5, <1>9, <1>10, <1>11 DEF LoopFacts
  <1>. QED BY <1>12

-----------------------------------------------------------------------------
(* The loops whose stack pointer is saved when an operation is executed:   *)
(* the same whenever it is.  env[b] are those at the start of block b, and *)
(* M those inside a block, behind the save it may start with and before a  *)
(* restore, behind which only a branch stands.                             *)

Goes(env, S) == {b \in DOMAIN env : env[b] = S}

Behind(tree, M, prev) == IF prev.kind = "restore" THEN LoopsAround(tree, prev.loop) ELSE M

\* An operation of a statement is where the loops around it are saved.
StatFits(tree, M, op) ==
    op.stat # NoStat => /\ op.kind \notin {"save", "br"}
                        /\ M = LoopsHolding(tree, op.stat[1])

\* Operation op behind the operation prev.
OpFits(tree, env, M, prev, op) ==
    /\ StatFits(tree, M, op)
    /\ op.kind \in {"save", "restore"} => M = Turn(tree, op.loop)
    /\ op.kind # "br" => op.to = {}
    /\ prev.kind = "restore" => op.kind = "br"
    /\ op.kind = "br" => op.to \subseteq Goes(env, Behind(tree, M, prev))

Previous(s, i) == IF i > 1 THEN s[i - 1] ELSE Plain

SeqFits(tree, env, M, s) ==
    /\ IsSeq(s)
    /\ \A i \in 1..Len(s) : /\ OpFits(tree, env, M, Previous(s, i), s[i])
                            /\ s[i].kind = "save" => i = 1
    /\ Len(s) > 0 => s[Len(s)].kind # "restore"

StartsWith(s, kind) == Len(s) > 0 /\ s[1].kind = kind

BlockFits(tree, env, e, M, s) ==
    /\ SeqFits(tree, env, M, s)
    /\ IF StartsWith(s, "save") THEN e = LoopsAround(tree, s[1].loop) ELSE e = M

\* Where something may be inserted: in front of the last d operations.
Inserts(s, d) ==
    /\ d \in Nat /\ d <= Len(s)
    /\ Len(s) - d > 0 => s[Len(s) - d].kind # "restore"
    /\ Len(s) - d = 0 => ~StartsWith(s, "save")

\* Only the restore before an operation matters.
LEMMA FitsBehind ==
    ASSUME NEW tree, NEW env, NEW M, NEW prev, NEW other, NEW op,
           prev.kind # "restore", other.kind # "restore", OpFits(tree, env, M, prev, op)
    PROVE  OpFits(tree, env, M, other, op)
  BY DEF OpFits, Behind

\* The sequences the walk emits.
LEMMA FittingTuples ==
    ASSUME NEW tree, NEW env, NEW M, NEW op, NEW l, NEW p
    PROVE  /\ SeqFits(tree, env, M, <<>>)
           /\ op.kind \in {"op", "return", "unreachable"} /\ op.to = {} /\ StatFits(tree, M, op) =>
                SeqFits(tree, env, M, <<op>>)
           /\ op.kind = "save" /\ op.to = {} /\ M = Turn(tree, op.loop) /\ op.stat = NoStat =>
                SeqFits(tree, env, M, <<op>>)
           /\ op.kind = "br" /\ op.to \subseteq Goes(env, M) /\ op.stat = NoStat =>
                SeqFits(tree, env, M, <<op>>) /\ SeqFits(tree, env, M, <<Plain, op>>)
           /\ op.kind = "return" /\ op.to = {} /\ StatFits(tree, M, op) =>
                SeqFits(tree, env, M, <<Plain, op>>)
  <1>1. Plain.kind = "op" /\ Plain.to = {} /\ Plain.stat = NoStat
    BY DEF Plain
  <1>2. /\ Previous(<<op>>, 1) = Plain /\ Previous(<<Plain, op>>, 1) = Plain
        /\ Previous(<<Plain, op>>, 2) = Plain
    BY Tuples DEF Previous
  <1>3. SeqFits(tree, env, M, <<>>)
    <2>1. PICK s : s = <<>>
      OBVIOUS
    <2>2. IsSeq(s) /\ Len(s) = 0
      BY ONLY <2>1, Tuples
    <2>3. ~(0 > 0) /\ \A i : i \notin 1..0
      OBVIOUS
    <2>4. SeqFits(tree, env, M, s)
      BY ONLY <2>2, <2>3 DEF SeqFits
    <2>. QED BY ONLY <2>1, <2>4
  <1>4. ASSUME OpFits(tree, env, M, Plain, op), op.kind # "restore" PROVE SeqFits(tree, env, M, <<op>>)
    <2>1. \A i \in 1..1 : i = 1
      OBVIOUS
    <2>2. PICK s : s = <<op>>
      OBVIOUS
    <2>3. IsSeq(s) /\ Len(s) = 1 /\ s[1] = op /\ Previous(s, 1) = Plain
      BY <1>2, <2>2, Tuples
    <2>4. SeqFits(tree, env, M, s)
      BY ONLY <1>4, <2>1, <2>3 DEF SeqFits
    <2>. QED BY ONLY <2>2, <2>4
  <1>5. ASSUME OpFits(tree, env, M, Plain, op), op.kind \notin {"restore", "save"}
        PROVE  SeqFits(tree, env, M, <<Plain, op>>)
    <2>1. \A i \in 1..2 : i = 1 \/ i = 2
      OBVIOUS
    <2>2. OpFits(tree, env, M, Plain, Plain)
      BY <1>1 DEF OpFits, StatFits
    <2>3. PICK s : s = <<Plain, op>>
      OBVIOUS
    <2>4. /\ IsSeq(s) /\ Len(s) = 2 /\ s[1] = Plain /\ s[2] = op
          /\ Previous(s, 1) = Plain /\ Previous(s, 2) = Plain
      BY <1>2, <2>3, Tuples
    <2>5. SeqFits(tree, env, M, s)
      BY ONLY <1>1, <1>5, <2>1, <2>2, <2>4 DEF SeqFits
    <2>. QED BY ONLY <2>3, <2>5
  <1>6. op.kind \in {"op", "return", "unreachable"} /\ op.to = {} /\ StatFits(tree, M, op) =>
           OpFits(tree, env, M, Plain, op)
    BY <1>1 DEF OpFits
  <1>7. op.kind = "save" /\ op.to = {} /\ M = Turn(tree, op.loop) /\ op.stat = NoStat =>
           OpFits(tree, env, M, Plain, op)
    BY <1>1 DEF OpFits, StatFits
  <1>8. op.kind = "br" /\ op.to \subseteq Goes(env, M) /\ op.stat = NoStat =>
           OpFits(tree, env, M, Plain, op)
    BY <1>1 DEF OpFits, StatFits, Behind
  <1>. QED BY <1>3, <1>4, <1>5, <1>6, <1>7, <1>8

\* A turn of loop ends: the stack pointer is restored, then a branch.
LEMMA FittingExit ==
    ASSUME NEW tree, NEW env, NEW M, NEW x, NEW y, x.kind = "restore", x.to = {}, M = Turn(tree, x.loop),
           StatFits(tree, M, x),
           y.kind = "br", y.to \subseteq Goes(env, LoopsAround(tree, x.loop)), y.stat = NoStat
    PROVE  SeqFits(tree, env, M, <<x, y>>)
  <1>1. Plain.kind = "op"
    BY DEF Plain
  <1>2. Previous(<<x, y>>, 1) = Plain /\ Previous(<<x, y>>, 2) = x
    BY Tuples DEF Previous
  <1>3. OpFits(tree, env, M, Plain, x) /\ OpFits(tree, env, M, x, y)
    BY <1>1 DEF OpFits, StatFits, Behind
  <1>4. \A i \in 1..2 : i = 1 \/ i = 2
    OBVIOUS
  <1>5. Len(<<x, y>>) = 2 /\ <<x, y>>[1] = x /\ <<x, y>>[2] = y /\ IsSeq(<<x, y>>)
    BY Tuples
  <1>. QED BY ONLY <1>2, <1>3, <1>4, <1>5, x.kind = "restore", y.kind = "br" DEF SeqFits

\* Inserting.
LEMMA FittingPut ==
    ASSUME NEW tree, NEW env, NEW e, NEW M, NEW s, BlockFits(tree, env, e, M, s),
           NEW new, SeqFits(tree, env, M, new), ~StartsWith(new, "save"),
           NEW d, Inserts(s, d), NEW all, IsSeq(all), IsPut(all, s, d, new)
    PROVE  BlockFits(tree, env, e, M, all) /\ Inserts(all, d)
  <1>1. PICK n, m : n \in Nat /\ m \in Nat /\ Len(s) = n + d /\ n = Len(s) - d /\ m = Len(new)
    <2>1. Len(s) \in Nat /\ Len(new) \in Nat
      BY SeqProps DEF SeqFits, BlockFits
    <2>2. Len(s) - d \in Nat /\ Len(s) = (Len(s) - d) + d
      BY <2>1 DEF Inserts
    <2>. QED BY <2>1, <2>2
  <1>2. d \in Nat
    BY DEF Inserts
  <1>3. /\ Len(all) = n + m + d
        /\ \A i \in 1..n : all[i] = s[i]
        /\ \A i \in 1..m : all[n + i] = new[i]
        /\ \A i \in 1..d : all[n + m + i] = s[n + i]
    <2>1. Len(s) + Len(new) = n + m + d /\ (Len(s) + Len(new) - d) = n + m
      BY ONLY <1>1, <1>2
    <2>. QED BY ONLY <1>1, <2>1, IsPut(all, s, d, new) DEF IsPut
  <1>4. /\ \A i \in 1..(n + d) : /\ OpFits(tree, env, M, Previous(s, i), s[i])
                                 /\ s[i].kind = "save" => i = 1
        /\ \A i \in 1..m : /\ OpFits(tree, env, M, Previous(new, i), new[i])
                           /\ new[i].kind # "save"
        /\ n + d > 0 => s[n + d].kind # "restore"
        /\ m > 0 => new[m].kind # "restore"
        /\ n > 0 => s[n].kind # "restore"
        /\ n = 0 => ~StartsWith(s, "save")
    <2>1. \A i \in 1..(n + d) : /\ OpFits(tree, env, M, Previous(s, i), s[i])
                                /\ s[i].kind = "save" => i = 1
      BY ONLY <1>1, BlockFits(tree, env, e, M, s) DEF SeqFits, BlockFits
    <2>2. ASSUME NEW i \in 1..m
          PROVE  OpFits(tree, env, M, Previous(new, i), new[i]) /\ new[i].kind # "save"
      <3>1. /\ OpFits(tree, env, M, Previous(new, i), new[i])
            /\ new[i].kind = "save" => i = 1
        BY ONLY <1>1, SeqFits(tree, env, M, new), i \in 1..m DEF SeqFits
      <3>2. m > 0
        BY <1>1
      <3>. QED BY ONLY <1>1, <3>1, <3>2, ~StartsWith(new, "save") DEF StartsWith
    <2>3. (n + d > 0 => s[n + d].kind # "restore") /\ (m > 0 => new[m].kind # "restore")
      BY ONLY <1>1, BlockFits(tree, env, e, M, s), SeqFits(tree, env, M, new) DEF SeqFits, BlockFits
    <2>4. (n > 0 => s[n].kind # "restore") /\ (n = 0 => ~StartsWith(s, "save"))
      BY ONLY <1>1, Inserts(s, d) DEF Inserts
    <2>. QED BY ONLY <2>1, <2>2, <2>3, <2>4
  <1>5. Plain.kind = "op"
    BY DEF Plain
  \* Where the operations are from.
  <1>6. ASSUME NEW i \in 1..n
        PROVE  OpFits(tree, env, M, Previous(all, i), all[i]) /\ (all[i].kind = "save" => i = 1)
    <2>1. i \in 1..(n + d)
      BY <1>1, <1>2
    <2>2. Previous(all, i) = Previous(s, i)
      <3>1. i > 1 => i - 1 \in 1..n
        BY <1>1
      <3>. QED BY ONLY <1>3, <3>1 DEF Previous
    <2>. QED BY ONLY <1>3, <1>4, <2>1, <2>2, i \in 1..n
  <1>7. ASSUME NEW i \in 1..m
        PROVE  OpFits(tree, env, M, Previous(all, n + i), all[n + i]) /\ all[n + i].kind # "save"
    <2>1. all[n + i] = new[i] /\ new[i].kind # "save" /\ OpFits(tree, env, M, Previous(new, i), new[i])
      BY ONLY <1>3, <1>4, i \in 1..m
    <2>2. CASE i > 1
      <3>1. PICK k : k = i - 1
        OBVIOUS
      <3>2. k \in 1..m /\ n + i > 1 /\ (n + i) - 1 = n + k
        BY <1>1, <2>2, <3>1
      <3>3. Previous(all, n + i) = all[n + k] /\ Previous(new, i) = new[k]
        <4>1. PICK x : x = n + i
          OBVIOUS
        <4>2. x > 1 /\ x - 1 = n + k
          BY ONLY <3>2, <4>1
        <4>3. Previous(all, x) = all[n + k]
          BY ONLY <4>2 DEF Previous
        <4>4. Previous(new, i) = new[k]
          BY ONLY <2>2, <3>1 DEF Previous
        <4>. QED BY ONLY <4>1, <4>3, <4>4
      <3>4. all[n + k] = new[k]
        BY ONLY <1>3, <3>2
      <3>. QED BY ONLY <2>1, <3>3, <3>4
    <2>3. CASE ~(i > 1)
      <3>1. i = 1 /\ Previous(new, i) = Plain
        BY <2>3 DEF Previous
      <3>2. Previous(all, n + i).kind # "restore"
        <4>1. CASE n > 0
          <5>1. n \in 1..n /\ n + 1 > 1 /\ (n + 1) - 1 = n
            BY <1>1, <4>1
          <5>. QED BY ONLY <1>3, <1>4, <3>1, <4>1, <5>1 DEF Previous
        <4>2. CASE ~(n > 0)
          <5>1. ~(n + 1 > 1)
            BY <1>1, <4>2
          <5>. QED BY ONLY <1>5, <3>1, <5>1 DEF Previous
        <4>. QED BY <4>1, <4>2
      <3>. QED BY <1>5, <2>1, <3>1, <3>2, FitsBehind
    <2>. QED BY <2>2, <2>3
  <1>8. ASSUME NEW i \in 1..d
        PROVE  /\ OpFits(tree, env, M, Previous(all, n + m + i), all[n + m + i])
               /\ all[n + m + i].kind # "save"
    <2>1. n + i \in 1..(n + d) /\ all[n + m + i] = s[n + i]
      <3>1. n + i \in 1..(n + d)
        BY ONLY <1>1, <1>2, i \in 1..d
      <3>2. all[n + m + i] = s[n + i]
        BY ONLY <1>3, i \in 1..d
      <3>. QED BY ONLY <3>1, <3>2
    <2>2. OpFits(tree, env, M, Previous(s, n + i), s[n + i])
      BY ONLY <1>4, <2>1
    <2>3. s[n + i].kind # "save"
      <3>1. CASE n + i = 1
        <4>1. n = 0 /\ Len(s) > 0
          BY <1>1, <1>2, <3>1
        <4>. QED BY ONLY <1>4, <3>1, <4>1 DEF StartsWith
      <3>2. CASE n + i # 1
        BY ONLY <1>4, <2>1, <3>2
      <3>. QED BY <3>1, <3>2
    <2>4. CASE i > 1
      <3>1. PICK k : k = i - 1
        OBVIOUS
      <3>2. /\ k \in 1..d /\ n + i > 1 /\ n + m + i > 1
            /\ (n + i) - 1 = n + k /\ (n + m + i) - 1 = n + m + k
        BY <1>1, <1>2, <2>4, <3>1
      <3>3. Previous(all, n + m + i) = all[n + m + k] /\ Previous(s, n + i) = s[n + k]
        <4>1. PICK x, y : x = n + m + i /\ y = n + i
          OBVIOUS
        <4>2. x > 1 /\ x - 1 = n + m + k /\ y > 1 /\ y - 1 = n + k
          BY ONLY <3>2, <4>1
        <4>3. Previous(all, x) = all[n + m + k]
          BY ONLY <4>2 DEF Previous
        <4>4. Previous(s, y) = s[n + k]
          BY ONLY <4>2 DEF Previous
        <4>. QED BY ONLY <4>1, <4>3, <4>4
      <3>4. all[n + m + k] = s[n + k]
        BY ONLY <1>3, <3>2
      <3>. QED BY ONLY <2>1, <2>2, <2>3, <3>3, <3>4
    <2>5. CASE ~(i > 1)
      <3>1. i = 1
        BY <2>5
      <3>2. Previous(s, n + i).kind # "restore"
        <4>1. CASE n > 0
          <5>1. n + 1 > 1 /\ (n + 1) - 1 = n
            BY <1>1, <4>1
          <5>. QED BY ONLY <1>4, <3>1, <4>1, <5>1 DEF Previous
        <4>2. CASE ~(n > 0)
          <5>1. ~(n + 1 > 1)
            BY <1>1, <4>2
          <5>. QED BY ONLY <1>5, <3>1, <5>1 DEF Previous
        <4>. QED BY <4>1, <4>2
      <3>3. Previous(all, n + m + i).kind # "restore"
        <4>1. CASE m > 0
          <5>1. m \in 1..m /\ n + m + 1 > 1 /\ (n + m + 1) - 1 = n + m
            BY <1>1, <4>1
          <5>. QED BY ONLY <1>3, <1>4, <3>1, <4>1, <5>1 DEF Previous
        <4>2. CASE m = 0 /\ n > 0
          <5>1. n \in 1..n /\ n + m + 1 > 1 /\ (n + m + 1) - 1 = n
            BY <1>1, <4>2
          <5>. QED BY ONLY <1>3, <1>4, <3>1, <4>2, <5>1 DEF Previous
        <4>3. CASE m = 0 /\ ~(n > 0)
          <5>1. ~(n + m + 1 > 1)
            BY <1>1, <4>3
          <5>. QED BY ONLY <1>5, <3>1, <5>1 DEF Previous
        <4>. QED BY <1>1, <4>1, <4>2, <4>3
      <3>4. OpFits(tree, env, M, Previous(all, n + m + i), s[n + i])
        BY ONLY <2>2, <3>2, <3>3, FitsBehind
      <3>. QED BY ONLY <2>1, <2>3, <3>4
    <2>. QED BY <2>4, <2>5
  <1>9. ASSUME NEW i \in 1..(n + m + d)
        PROVE  OpFits(tree, env, M, Previous(all, i), all[i]) /\ (all[i].kind = "save" => i = 1)
    <2>1. CASE i <= n
      <3>1. i \in 1..n
        BY <1>1, <2>1
      <3>. QED BY <1>6, <3>1
    <2>2. CASE i > n /\ i <= n + m
      <3>1. PICK j \in 1..m : i = n + j
        <4>1. i - n \in 1..m /\ i = n + (i - n)
          BY <1>1, <2>2
        <4>. QED BY <4>1
      <3>. QED BY <1>7, <3>1
    <2>3. CASE i > n + m
      <3>1. PICK j \in 1..d : i = n + m + j
        <4>1. i - (n + m) \in 1..d /\ i = n + m + (i - (n + m))
          BY <1>1, <1>2, <2>3
        <4>. QED BY <4>1
      <3>. QED BY <1>8, <3>1
    <2>. QED BY <1>1, <2>1, <2>2, <2>3
  <1>10. n + m + d > 0 => all[n + m + d].kind # "restore"
    <2>1. CASE d > 0
      <3>1. d \in 1..d /\ n + d > 0
        BY <1>1, <1>2, <2>1
      <3>. QED BY ONLY <1>3, <1>4, <3>1
    <2>2. CASE d = 0 /\ m > 0
      <3>1. m \in 1..m /\ n + m + d = n + m
        BY <1>1, <2>2
      <3>. QED BY ONLY <1>3, <1>4, <2>2, <3>1
    <2>3. CASE d = 0 /\ m = 0 /\ n > 0
      <3>1. n \in 1..n /\ n + m + d = n
        BY <1>1, <2>3
      <3>. QED BY ONLY <1>3, <1>4, <2>3, <3>1
    <2>. QED BY <1>1, <1>2, <2>1, <2>2, <2>3
  <1>11. SeqFits(tree, env, M, all)
    BY ONLY <1>3, <1>9, <1>10, IsSeq(all) DEF SeqFits
  <1>12. /\ n > 0 => (StartsWith(all, "save") <=> StartsWith(s, "save")) /\ all[1] = s[1]
         /\ n = 0 => ~StartsWith(all, "save")
    <2>1. CASE n > 0
      <3>1. 1 \in 1..n /\ n + d > 0 /\ n + m + d > 0
        BY <1>1, <1>2, <2>1
      <3>. QED BY ONLY <1>1, <1>3, <2>1, <3>1 DEF StartsWith
    <2>2. CASE n = 0 /\ m > 0
      <3>0. m \in Nat
        BY <1>1
      <3>1. 1 \in 1..m /\ n + 1 = 1
        BY ONLY <2>2, <3>0
      <3>2. all[1].kind # "save"
        BY ONLY <1>3, <1>4, <3>1
      <3>. QED BY ONLY <2>2, <3>2 DEF StartsWith
    <2>3. CASE n = 0 /\ m = 0
      <3>1. d > 0 => 1 \in 1..d
        BY <1>2
      <3>2. n + m + 1 = 1 /\ n + m + d = d
        BY <1>2, <2>3
      <3>3. d > 0 => all[1].kind # "save"
        BY ONLY <1>8, <3>1, <3>2
      <3>. QED BY ONLY <1>3, <2>3, <3>2, <3>3 DEF StartsWith
    <2>. QED BY <1>1, <2>1, <2>2, <2>3
  <1>13. BlockFits(tree, env, e, M, all)
    <2>1. IF StartsWith(s, "save") THEN e = LoopsAround(tree, s[1].loop) ELSE e = M
      BY DEF BlockFits
    <2>2. n > 0 \/ n = 0
      BY <1>1
    <2>3. n = 0 => ~StartsWith(s, "save")
      BY <1>4
    <2>. QED BY ONLY <1>11, <1>12, <2>1, <2>2, <2>3 DEF BlockFits
  <1>14. Inserts(all, d)
    <2>1. Len(all) - d = n + m /\ d <= Len(all)
      BY <1>1, <1>2, <1>3
    <2>2. n + m > 0 => all[n + m].kind # "restore"
      <3>1. CASE m > 0
        <4>1. m \in 1..m
          BY <1>1, <3>1
        <4>. QED BY ONLY <1>3, <1>4, <3>1, <4>1
      <3>2. CASE m = 0 /\ n > 0
        <4>1. n \in 1..n /\ n + m = n
          BY <1>1, <3>2
        <4>. QED BY ONLY <1>3, <1>4, <3>2, <4>1
      <3>. QED BY <1>1, <3>1, <3>2
    <2>3. n + m = 0 => ~StartsWith(all, "save")
      BY <1>1, <1>12
    <2>. QED BY ONLY <1>2, <2>1, <2>2, <2>3 DEF Inserts
  <1>. QED BY <1>13, <1>14

\* Concatenations.
LEMMA FittingConcat ==
    ASSUME NEW tree, NEW env, NEW e, NEW M, NEW s, BlockFits(tree, env, e, M, s),
           NEW new, SeqFits(tree, env, M, new), ~StartsWith(new, "save"),
           NEW all, all = s \o new
    PROVE  BlockFits(tree, env, e, M, all)
  <1>1. IsSeq(s) /\ IsSeq(new)
    BY DEF BlockFits, SeqFits
  <1>2. PICK S : s \in Seq(S) /\ new \in Seq(S)
    BY <1>1, SameUniverse
  <1>3. /\ all \in Seq(S) /\ Len(all) = Len(s) + Len(new)
        /\ \A i \in 1..Len(s) : all[i] = s[i]
        /\ \A i \in 1..Len(new) : all[Len(s) + i] = new[i]
    BY ONLY <1>2, ConcatAt, all = s \o new
  <1>4. PICK n \in Nat : n = Len(s)
    BY ONLY <1>2
  <1>5. n - 0 = n /\ n + Len(new) - 0 = n + Len(new) /\ \A i : i \notin 1..0
    BY <1>2, <1>4
  <1>6. IsPut(all, s, 0, new)
    BY ONLY <1>3, <1>4, <1>5 DEF IsPut
  <1>7. Inserts(s, 0)
    <2>1. /\ Len(s) > 0 => s[Len(s)].kind # "restore"
          /\ Len(s) = 0 => ~StartsWith(s, "save")
      BY DEF BlockFits, SeqFits, StartsWith
    <2>. QED BY ONLY <1>4, <1>5, <2>1 DEF Inserts
  <1>8. IsSeq(all)
    BY <1>3 DEF IsSeq
  <1>. QED BY ONLY <1>6, <1>7, <1>8, FittingPut, BlockFits(tree, env, e, M, s),
                   SeqFits(tree, env, M, new), ~StartsWith(new, "save")

\* What is left when what is behind a terminator is erased.
LEMMA FittingPrefix ==
    ASSUME NEW tree, NEW env, NEW e, NEW M, NEW s, BlockFits(tree, env, e, M, s),
           NEW k \in Nat, 0 < k, k <= Len(s), IsTerminator(s[k]), NEW t, t = SubSeq(s, 1, k)
    PROVE  BlockFits(tree, env, e, M, t)
  <1>1. PICK S : s \in Seq(S)
    BY DEF BlockFits, SeqFits, IsSeq
  <1>2. t \in Seq(S) /\ Len(t) = k /\ \A i \in 1..k : t[i] = s[i]
    BY <1>1
  <1>3. IsSeq(t)
    BY <1>2 DEF IsSeq
  <1>4. PICK n \in Nat : n = Len(s)
    BY <1>1
  <1>5. \A i \in 1..k : i \in 1..n /\ (i > 1 => i - 1 \in 1..k)
    BY <1>4
  <1>6. \A i \in 1..k : Previous(t, i) = Previous(s, i)
    BY ONLY <1>2, <1>5 DEF Previous
  <1>7. \A i \in 1..k : /\ OpFits(tree, env, M, Previous(t, i), t[i])
                        /\ t[i].kind = "save" => i = 1
    BY ONLY <1>2, <1>4, <1>5, <1>6, BlockFits(tree, env, e, M, s) DEF BlockFits, SeqFits
  <1>8. k \in 1..k /\ 1 \in 1..k /\ n > 0
    BY <1>4
  <1>9. t[k].kind # "restore"
    BY ONLY <1>2, <1>8, IsTerminator(s[k]) DEF IsTerminator, TerminatorKind
  <1>10. SeqFits(tree, env, M, t)
    BY ONLY <1>2, <1>3, <1>7, <1>9 DEF SeqFits
  <1>11. t[1] = s[1] /\ (StartsWith(t, "save") <=> StartsWith(s, "save"))
    BY ONLY <1>2, <1>4, <1>8, 0 < k DEF StartsWith
  <1>. QED BY ONLY <1>10, <1>11, BlockFits(tree, env, e, M, s) DEF BlockFits

\* Erasing the doubled end leaves a block fitting.
LEMMA FittingClean ==
    ASSUME NEW tree, NEW env, NEW e, NEW M, NEW s, BlockFits(tree, env, e, M, s), NEW by_loop
    PROVE  BlockFits(tree, env, e, M, Cleaned(s, by_loop))
  <1>1. ASSUME NEW r, BlockFits(tree, env, e, M, r), NEW m \in {1, 2}
        PROVE  BlockFits(tree, env, e, M, CleanOnce(r, m))
    <2>1. CASE Doubled(r, m)
      <3>1. IsSeq(r)
        BY <1>1 DEF BlockFits, SeqFits
      <3>2. PICK n \in Nat : n = Len(r)
        BY <3>1, SeqProps
      <3>3. PICK k \in Nat : k = n - m /\ 0 < k /\ k <= n
        <4>1. n > m
          BY <2>1, <3>2 DEF Doubled
        <4>. QED BY ONLY <4>1, m \in {1, 2}, n \in Nat
      <3>4. IsTerminator(r[k]) /\ CleanOnce(r, m) = SubSeq(r, 1, k)
        BY ONLY <2>1, <3>2, <3>3 DEF Doubled, CleanOnce, Erase
      <3>. QED BY ONLY <1>1, <3>2, <3>3, <3>4, FittingPrefix
    <2>2. CASE ~Doubled(r, m)
      BY ONLY <1>1, <2>2 DEF CleanOnce
    <2>. QED BY <2>1, <2>2
  <1>2. BlockFits(tree, env, e, M, CleanOnce(s, 2))
    BY <1>1
  <1>3. BlockFits(tree, env, e, M, CleanOnce(CleanOnce(s, 2), 1))
    BY <1>1, <1>2
  <1>. QED BY ONLY <1>3, BlockFits(tree, env, e, M, s) DEF Cleaned

\* More blocks.
Grows(env, env2) == \A S : Goes(env, S) \subseteq Goes(env2, S)

\* More blocks leave what is emitted fitting.
LEMMA FittingGrows ==
    ASSUME NEW tree, NEW env, NEW env2, Grows(env, env2), NEW e, NEW M, NEW s
    PROVE  /\ SeqFits(tree, env, M, s) => SeqFits(tree, env2, M, s)
           /\ BlockFits(tree, env, e, M, s) => BlockFits(tree, env2, e, M, s)
  <1>1. \A prev, op : OpFits(tree, env, M, prev, op) => OpFits(tree, env2, M, prev, op)
    BY DEF OpFits, Grows
  <1>2. SeqFits(tree, env, M, s) => SeqFits(tree, env2, M, s)
    BY ONLY <1>1 DEF SeqFits
  <1>. QED BY ONLY <1>2 DEF BlockFits

\* The blocks there are when a statement has been begun.
LEMMA EntriesGrow ==
    ASSUME NEW env, NEW c \in Nat, DOMAIN env = 1..c, NEW c2 \in Nat, c <= c2,
           NEW env2, DOMAIN env2 = 1..c2, \A b \in 1..c : env2[b] = env[b]
    PROVE  Grows(env, env2)
  <1>1. 1..c \subseteq 1..c2
    OBVIOUS
  <1>. QED BY ONLY <1>1, DOMAIN env = 1..c, DOMAIN env2 = 1..c2, \A b \in 1..c : env2[b] = env[b]
           DEF Grows, Goes

-----------------------------------------------------------------------------
(* nested_blocks_stack: lv[k] are the loops around what its first k        *)
(* entries are around.                                                     *)

EntryFits(tree, env, lv, k, e) ==
    /\ e.cont \in Goes(env, lv[k - 1])
    /\ e.back # Null => /\ e.back \in Goes(env, lv[k - 1])
                        /\ LoopsAround(tree, e.loop) = lv[k - 1] /\ lv[k] = Turn(tree, e.loop)
    /\ e.back = Null => lv[k] = lv[k - 1]

NestFits(tree, env, ne, lv) ==
    /\ IsSeq(ne) /\ lv[0] = {}
    /\ \A k \in 1..Len(ne) : EntryFits(tree, env, lv, k, ne[k])
    /\ \A j, k \in 0..Len(ne) :
          j <= k /\ (\A i \in (j + 1)..k : ne[i].back = Null) => lv[k] = lv[j]

\* A sequence without its last element.
LEMMA FrontProps ==
    ASSUME NEW ne, IsSeq(ne), Len(ne) > 0
    PROVE  /\ IsSeq(Front(ne)) /\ Len(Front(ne)) = Len(ne) - 1
           /\ \A i \in 1..(Len(ne) - 1) : Front(ne)[i] = ne[i]
           /\ Last(ne) = ne[Len(ne)]
  <1>1. PICK S : ne \in Seq(S)
    BY DEF IsSeq
  <1>2. PICK m \in Nat : m = Len(ne) /\ m - 1 \in Nat
    BY <1>1
  <1>3. PICK less : less = Front(ne)
    OBVIOUS
  <1>4. less = SubSeq(ne, 1, m - 1)
    BY <1>2, <1>3 DEF Front
  <1>5. less \in Seq(S) /\ Len(less) = m - 1 /\ \A i \in 1..(m - 1) : less[i] = ne[i]
    BY <1>1, <1>2, <1>4
  <1>6. Last(ne) = ne[m]
    BY <1>2 DEF Last
  <1>. QED BY ONLY <1>2, <1>3, <1>5, <1>6 DEF IsSeq

\* A sequence with one more element.
LEMMA AppendAt ==
    ASSUME NEW ne, IsSeq(ne), NEW e
    PROVE  /\ IsSeq(Append(ne, e)) /\ Len(Append(ne, e)) = Len(ne) + 1
           /\ \A i \in 1..Len(ne) : Append(ne, e)[i] = ne[i]
           /\ Append(ne, e)[Len(ne) + 1] = e
  <1>1. PICK S : ne \in Seq(S)
    BY DEF IsSeq
  <1>2. ne \in Seq(S \cup {e})
    BY <1>1
  <1>3. Append(ne, e) \in Seq(S \cup {e})
    BY <1>2
  <1>4. Len(Append(ne, e)) = Len(ne) + 1 /\ \A i \in 1..Len(ne) : Append(ne, e)[i] = ne[i]
        /\ Append(ne, e)[Len(ne) + 1] = e
    BY ONLY <1>2
  <1>. QED BY <1>3, <1>4 DEF IsSeq

\* The nested blocks fit without the innermost.
LEMMA NestFitsPop ==
    ASSUME NEW tree, NEW env, NEW ne, NEW lv, NestFits(tree, env, ne, lv), Len(ne) > 0
    PROVE  NestFits(tree, env, Front(ne), lv)
  <1>1. IsSeq(ne)
    BY DEF NestFits
  <1>2. PICK m \in Nat : m = Len(ne) /\ m - 1 \in Nat
    BY <1>1, SeqProps
  <1>3. PICK less : less = Front(ne)
    OBVIOUS
  <1>4. IsSeq(less) /\ Len(less) = m - 1 /\ \A i \in 1..(m - 1) : less[i] = ne[i]
    BY <1>1, <1>2, <1>3, FrontProps
  <1>5. \A k \in 1..(m - 1) : k \in 1..m
    BY <1>2
  <1>6. \A k \in 1..(m - 1) : EntryFits(tree, env, lv, k, less[k])
    BY ONLY <1>2, <1>4, <1>5, NestFits(tree, env, ne, lv) DEF NestFits
  <1>7. ASSUME NEW j \in 0..(m - 1), NEW k \in 0..(m - 1), j <= k,
               \A i \in (j + 1)..k : less[i].back = Null
        PROVE  lv[k] = lv[j]
    <2>1. j \in 0..m /\ k \in 0..m /\ \A i \in (j + 1)..k : i \in 1..(m - 1)
      BY <1>2, <1>7
    <2>2. \A i \in (j + 1)..k : ne[i].back = Null
      BY ONLY <1>4, <1>7, <2>1
    <2>. QED BY ONLY <1>2, <1>7, <2>1, <2>2, NestFits(tree, env, ne, lv) DEF NestFits
  <1>8. NestFits(tree, env, less, lv)
    <2>1. lv[0] = {}
      BY DEF NestFits
    <2>. QED BY ONLY <1>4, <1>6, <1>7, <2>1 DEF NestFits
  <1>. QED BY ONLY <1>3, <1>8

\* The labels with one more.
Longer(lv, m, S) == [k \in 0..(m + 1) |-> IF k = m + 1 THEN S ELSE lv[k]]

\* They fit with one more whose targets do.
LEMMA NestFitsPush ==
    ASSUME NEW tree, NEW env, NEW ne, NEW lv, NestFits(tree, env, ne, lv),
           NEW env2, Grows(env, env2), NEW e, NEW S, NEW m, m = Len(ne),
           NEW lv2, lv2 = Longer(lv, m, S),
           e.cont \in Goes(env2, lv[m]),
           e.back # Null => /\ e.back \in Goes(env2, lv[m])
                            /\ LoopsAround(tree, e.loop) = lv[m] /\ S = Turn(tree, e.loop),
           e.back = Null => S = lv[m],
           NEW more, more = Append(ne, e)
    PROVE  NestFits(tree, env2, more, lv2)
  <1>1. IsSeq(ne)
    BY DEF NestFits
  <1>2. m \in Nat /\ m + 1 \in Nat /\ (m + 1) - 1 = m
    BY <1>1, SeqProps
  <1>3. /\ IsSeq(more) /\ Len(more) = m + 1
        /\ \A i \in 1..m : more[i] = ne[i]
        /\ more[m + 1] = e
    BY <1>1, AppendAt
  <1>4. lv2[m + 1] = S /\ \A k \in 0..m : lv2[k] = lv[k]
    <2>1. m + 1 \in 0..(m + 1) /\ \A k \in 0..m : k \in 0..(m + 1) /\ k # m + 1
      BY <1>2
    <2>. QED BY ONLY <2>1, lv2 = Longer(lv, m, S) DEF Longer
  <1>5. ASSUME NEW k \in 1..m PROVE EntryFits(tree, env2, lv2, k, more[k])
    <2>1. k \in 0..m /\ k - 1 \in 0..m
      BY <1>2
    <2>2. EntryFits(tree, env, lv, k, ne[k])
      BY DEF NestFits
    <2>3. more[k] = ne[k] /\ lv2[k] = lv[k] /\ lv2[k - 1] = lv[k - 1]
      BY ONLY <1>3, <1>4, <2>1, k \in 1..m
    <2>. QED BY ONLY <2>2, <2>3, Grows(env, env2) DEF EntryFits, Grows
  <1>6. EntryFits(tree, env2, lv2, m + 1, e)
    <2>1. m \in 0..m
      BY <1>2
    <2>2. lv2[(m + 1) - 1] = lv[m] /\ lv2[m + 1] = S
      BY ONLY <1>2, <1>4, <2>1
    <2>3. /\ e.cont \in Goes(env2, lv[m])
          /\ e.back # Null => /\ e.back \in Goes(env2, lv[m])
                              /\ LoopsAround(tree, e.loop) = lv[m] /\ S = Turn(tree, e.loop)
          /\ e.back = Null => S = lv[m]
      OBVIOUS
    <2>. QED BY ONLY <2>2, <2>3 DEF EntryFits
  <1>7. \A k \in 1..(m + 1) : EntryFits(tree, env2, lv2, k, more[k])
    <2>1. \A k \in 1..(m + 1) : k \in 1..m \/ k = m + 1
      BY <1>2
    <2>. QED BY ONLY <1>3, <1>5, <1>6, <2>1
  <1>8. ASSUME NEW j \in 0..(m + 1), NEW k \in 0..(m + 1), j <= k,
               \A i \in (j + 1)..k : more[i].back = Null
        PROVE  lv2[k] = lv2[j]
    <2>1. CASE k <= m
      <3>1. j \in 0..m /\ k \in 0..m /\ \A i \in (j + 1)..k : i \in 1..m
        BY <1>2, <1>8, <2>1
      <3>2. \A i \in (j + 1)..k : ne[i].back = Null
        BY ONLY <1>3, <1>8, <3>1
      <3>3. lv[k] = lv[j]
        BY ONLY <1>8, <3>1, <3>2, NestFits(tree, env, ne, lv), m = Len(ne) DEF NestFits
      <3>. QED BY ONLY <1>4, <3>1, <3>3
    <2>2. CASE k = m + 1 /\ j <= m
      <3>1. j \in 0..m /\ m \in 0..m /\ j <= m /\ m + 1 \in (j + 1)..k
            /\ \A i \in (j + 1)..m : i \in 1..m /\ i \in (j + 1)..k
        BY <1>2, <1>8, <2>2
      <3>2. \A i \in (j + 1)..m : ne[i].back = Null
        BY ONLY <1>3, <1>8, <3>1
      <3>3. lv[m] = lv[j]
        BY ONLY <3>1, <3>2, NestFits(tree, env, ne, lv), m = Len(ne) DEF NestFits
      <3>4. e.back = Null
        BY ONLY <1>3, <1>8, <3>1
      <3>5. S = lv[m]
        BY <3>4
      <3>. QED BY ONLY <1>4, <2>2, <3>1, <3>3, <3>5
    <2>3. CASE k = m + 1 /\ j = m + 1
      BY <2>3
    <2>. QED BY <1>2, <1>8, <2>1, <2>2, <2>3
  <1>9. lv2[0] = {}
    <2>1. 0 \in 0..m /\ lv[0] = {}
      BY <1>2 DEF NestFits
    <2>. QED BY ONLY <1>4, <2>1
  <1>. QED BY ONLY <1>3, <1>7, <1>8, <1>9 DEF NestFits

-----------------------------------------------------------------------------
(* What the statements emit fits where they stand.                         *)

\* The kinds, targets and loops of the operations.
LEMMA OpFields ==
    ASSUME NEW p, NEW l, NEW B
    PROVE  /\ Plain.kind = "op" /\ Plain.to = {} /\ Plain.stat = NoStat
           /\ OpOf(p).kind = "op" /\ OpOf(p).to = {} /\ OpOf(p).stat = p
           /\ Save(l).kind = "save" /\ Save(l).to = {} /\ Save(l).loop = l /\ Save(l).stat = NoStat
           /\ /\ Restore(l).kind = "restore" /\ Restore(l).to = {} /\ Restore(l).loop = l
              /\ Restore(l).stat = NoStat
           /\ [Restore(l) EXCEPT !.stat = p].kind = "restore"
           /\ [Restore(l) EXCEPT !.stat = p].to = {}
           /\ [Restore(l) EXCEPT !.stat = p].loop = l
           /\ [Restore(l) EXCEPT !.stat = p].stat = p
           /\ Br(B).kind = "br" /\ Br(B).to = B /\ Br(B).stat = NoStat
           /\ Return(p).kind = "return" /\ Return(p).to = {} /\ Return(p).stat = p
           /\ /\ Unreachable.kind = "unreachable" /\ Unreachable.to = {}
              /\ Unreachable.stat = NoStat
  BY DEF Plain, OpOf, Save, Restore, Br, Return, Unreachable

\* What a short sequence starts with.
LEMMA Starts ==
    ASSUME NEW x, NEW y, NEW k
    PROVE  /\ ~StartsWith(<<>>, k)
           /\ StartsWith(<<x>>, k) <=> x.kind = k
           /\ StartsWith(<<x, y>>, k) <=> x.kind = k
  <1>1. PICK a, b, c : a = <<>> /\ b = <<x>> /\ c = <<x, y>>
    OBVIOUS
  <1>2. /\ Len(a) = 0 /\ Len(b) = 1 /\ Len(c) = 2
        /\ b[1] = x /\ c[1] = x
    BY <1>1, Tuples
  <1>3. ~(0 > 0) /\ 1 > 0 /\ 2 > 0
    OBVIOUS
  <1>4. /\ ~StartsWith(a, k)
        /\ StartsWith(b, k) <=> x.kind = k
        /\ StartsWith(c, k) <=> x.kind = k
    BY ONLY <1>2, <1>3 DEF StartsWith
  <1>. QED BY ONLY <1>1, <1>4

\* A sequence that may be inserted where the loops S are saved.
Insertable(tree, env, S, new) == SeqFits(tree, env, S, new) /\ ~StartsWith(new, "save")

\* A branch, with an operation before it or not.
LEMMA BranchFits ==
    ASSUME NEW tree, NEW env, NEW S, NEW B, B \subseteq Goes(env, S)
    PROVE  Insertable(tree, env, S, <<Br(B)>>) /\ Insertable(tree, env, S, <<Plain, Br(B)>>)
  <1>1. PICK y : y = Br(B)
    OBVIOUS
  <1>2. y.kind = "br" /\ y.to = B /\ y.stat = NoStat /\ Plain.kind = "op"
    BY <1>1, OpFields
  <1>3. SeqFits(tree, env, S, <<y>>) /\ SeqFits(tree, env, S, <<Plain, y>>)
    BY <1>2, FittingTuples
  <1>4. ~StartsWith(<<y>>, "save")
    BY <1>2, Starts
  <1>5. StartsWith(<<Plain, y>>, "save") <=> Plain.kind = "save"
    BY ONLY Starts
  <1>. QED BY ONLY <1>1, <1>2, <1>3, <1>4, <1>5 DEF Insertable

\* What is emitted in front of a loop fits.
LEMMA HeadFits ==
    ASSUME NEW tree, NEW env, NEW S, NEW s, s.kind \in LoopKind,
           NEW control \in Goes(env, S), NEW loop \in Goes(env, S), NEW cont,
           NEW new, new = LoopHead(s, control, loop, cont)
    PROVE  Insertable(tree, env, S, new)
  <1>1. PICK b \in Goes(env, S) : new = <<Plain, Br({b})>> \/ new = <<Br({b})>>
    BY DEF LoopHead, LoopKind
  <1>2. {b} \subseteq Goes(env, S)
    OBVIOUS
  <1>3. Insertable(tree, env, S, <<Br({b})>>) /\ Insertable(tree, env, S, <<Plain, Br({b})>>)
    BY ONLY <1>2, BranchFits
  <1>. QED BY ONLY <1>1, <1>3

\* The end of a turn, as an entry has it.
LEMMA TurnEndFits ==
    ASSUME NEW tree, NEW env, NEW S, NEW l, S = Turn(tree, l),
           NEW b \in Goes(env, LoopsAround(tree, l))
    PROVE  Insertable(tree, env, S, <<Restore(l), Br({b})>>)
  <1>1. PICK x, y : x = Restore(l) /\ y = Br({b})
    OBVIOUS
  <1>2. x.kind = "restore" /\ x.to = {} /\ x.loop = l /\ y.kind = "br" /\ y.to = {b}
        /\ y.stat = NoStat /\ StatFits(tree, S, x)
    BY <1>1, OpFields DEF StatFits
  <1>3. S = Turn(tree, x.loop) /\ y.to \subseteq Goes(env, LoopsAround(tree, x.loop))
    BY ONLY <1>2, S = Turn(tree, l), b \in Goes(env, LoopsAround(tree, l))
  <1>4. SeqFits(tree, env, S, <<x, y>>)
    BY <1>2, <1>3, FittingExit
  <1>5. ~StartsWith(<<x, y>>, "save")
    BY <1>2, Starts
  <1>. QED BY ONLY <1>1, <1>4, <1>5 DEF Insertable

\* The branch "in case" fits, since the innermost entry does.
LEMMA DefaultFits ==
    ASSUME NEW tree, NEW env, NEW lv, NEW ne, NestFits(tree, env, ne, lv),
           NEW S, S = lv[Len(ne)], NEW default, default = DefaultBranch(ne)
    PROVE  Insertable(tree, env, S, default)
  <1>1. IsSeq(ne) /\ Len(ne) \in Nat /\ (ne # <<>> <=> Len(ne) > 0)
    BY SeqProps DEF NestFits
  <1>2. CASE ne = <<>>
    <2>1. default = <<>>
      BY <1>2 DEF DefaultBranch
    <2>2. SeqFits(tree, env, S, <<>>) /\ ~StartsWith(<<>>, "save")
      BY FittingTuples, Starts
    <2>. QED BY ONLY <2>1, <2>2 DEF Insertable
  <1>3. CASE ne # <<>>
    <2>1. PICK m \in Nat : m = Len(ne) /\ m > 0 /\ m \in 1..m
      BY <1>1, <1>3
    <2>2. PICK e : e = Last(ne)
      OBVIOUS
    <2>3. e = ne[m]
      BY <2>1, <2>2 DEF Last
    <2>4. EntryFits(tree, env, lv, m, e)
      BY ONLY <2>1, <2>3, NestFits(tree, env, ne, lv) DEF NestFits
    <2>5. S = lv[m]
      BY <2>1
    <2>6. default = IF e.back # Null THEN <<Restore(e.loop), Br({e.back})>> ELSE <<Br({e.cont})>>
      BY <1>3, <2>2 DEF DefaultBranch
    <2>7. CASE e.back # Null
      <3>1. S = Turn(tree, e.loop) /\ e.back \in Goes(env, LoopsAround(tree, e.loop))
        BY ONLY <2>4, <2>5, <2>7 DEF EntryFits
      <3>2. Insertable(tree, env, S, <<Restore(e.loop), Br({e.back})>>)
        BY ONLY <3>1, TurnEndFits
      <3>. QED BY ONLY <2>6, <2>7, <3>2
    <2>8. CASE e.back = Null
      <3>1. {e.cont} \subseteq Goes(env, S)
        BY ONLY <2>4, <2>5, <2>8 DEF EntryFits
      <3>2. Insertable(tree, env, S, <<Br({e.cont})>>)
        BY ONLY <3>1, BranchFits
      <3>. QED BY ONLY <2>6, <2>8, <3>2
    <2>. QED BY <2>7, <2>8
  <1>. QED BY <1>2, <1>3

-----------------------------------------------------------------------------
(* The blocks there are.                                                   *)

TableFits(tree, env, mid, table, c) ==
    /\ DOMAIN table = 1..c
    /\ \A b \in 1..c : BlockFits(tree, env, env[b], mid[b], table[b])

\* The blocks fit when one of them is replaced by what fits.
LEMMA TableWith ==
    ASSUME NEW tree, NEW env, NEW mid, NEW table, NEW c, TableFits(tree, env, mid, table, c),
           NEW b \in 1..c, NEW s, BlockFits(tree, env, env[b], mid[b], s),
           NEW table2, table2 = With(table, b, s)
    PROVE  TableFits(tree, env, mid, table2, c) /\ table2[b] = s
  <1>1. DOMAIN table = 1..c
    BY DEF TableFits
  <1>2. /\ DOMAIN table2 = 1..c /\ table2[b] = s
        /\ \A a \in 1..c : a # b => table2[a] = table[a]
    BY ONLY <1>1, b \in 1..c, table2 = With(table, b, s) DEF With
  <1>3. ASSUME NEW a \in 1..c PROVE BlockFits(tree, env, env[a], mid[a], table2[a])
    <2>1. CASE a = b
      BY ONLY <1>2, <2>1, BlockFits(tree, env, env[b], mid[b], s)
    <2>2. CASE a # b
      <3>1. BlockFits(tree, env, env[a], mid[a], table[a])
        BY ONLY TableFits(tree, env, mid, table, c), a \in 1..c DEF TableFits
      <3>. QED BY ONLY <1>2, <2>2, <3>1, a \in 1..c
    <2>. QED BY <2>1, <2>2
  <1>. QED BY ONLY <1>2, <1>3 DEF TableFits

\* Something is emitted.
LEMMA TablePut ==
    ASSUME NEW tree, NEW env, NEW mid, NEW table, NEW c, TableFits(tree, env, mid, table, c),
           NEW p, p.block \in 1..c, Inserts(table[p.block], p.behind),
           NEW new, Insertable(tree, env, mid[p.block], new),
           NEW table2, table2 = With(table, p.block, Put(table[p.block], p.behind, new))
    PROVE  TableFits(tree, env, mid, table2, c) /\ Inserts(table2[p.block], p.behind)
  <1>1. PICK b, s, d : b = p.block /\ s = table[b] /\ d = p.behind
    OBVIOUS
  <1>2. PICK all : all = Put(s, d, new)
    OBVIOUS
  <1>3. b \in 1..c /\ BlockFits(tree, env, env[b], mid[b], s)
    BY ONLY <1>1, TableFits(tree, env, mid, table, c), p.block \in 1..c DEF TableFits
  <1>4. Inserts(s, d) /\ d \in Nat /\ d <= Len(s)
    BY <1>1 DEF Inserts
  <1>5. SeqFits(tree, env, mid[b], new) /\ ~StartsWith(new, "save")
    BY <1>1 DEF Insertable
  <1>6. IsSeq(s) /\ IsSeq(new)
    BY ONLY <1>3, <1>5 DEF BlockFits, SeqFits
  <1>7. PICK S : s \in Seq(S) /\ new \in Seq(S)
    BY <1>6, SameUniverse
  <1>8. all \in Seq(S) /\ IsPut(all, s, d, new)
    BY ONLY <1>2, <1>4, <1>7, PutProps
  <1>9. IsSeq(all)
    BY <1>8 DEF IsSeq
  <1>10. BlockFits(tree, env, env[b], mid[b], all) /\ Inserts(all, d)
    BY ONLY <1>3, <1>4, <1>5, <1>8, <1>9, FittingPut
  <1>11. table2 = With(table, b, all)
    BY <1>1, <1>2
  <1>12. TableFits(tree, env, mid, table2, c) /\ table2[b] = all
    BY ONLY <1>3, <1>10, <1>11, TableFits(tree, env, mid, table, c), TableWith
  <1>. QED BY ONLY <1>1, <1>10, <1>12

\* The clean-up of the last continue block.
LEMMA TableClean ==
    ASSUME NEW tree, NEW env, NEW mid, NEW table, NEW c, TableFits(tree, env, mid, table, c),
           NEW l, l = Null \/ l \in 1..c, NEW by_loop, NEW table2,
           table2 = IF l = Null THEN table ELSE With(table, l, Cleaned(table[l], by_loop))
    PROVE  /\ TableFits(tree, env, mid, table2, c)
           /\ \A b \in 1..c : b # l => table2[b] = table[b]
  <1>1. CASE l = Null
    BY <1>1
  <1>2. CASE l # Null
    <2>1. l \in 1..c
      BY <1>2
    <2>2. PICK s : s = Cleaned(table[l], by_loop)
      OBVIOUS
    <2>3. BlockFits(tree, env, env[l], mid[l], s)
      <3>1. BlockFits(tree, env, env[l], mid[l], table[l])
        BY <2>1 DEF TableFits
      <3>. QED BY ONLY <2>2, <3>1, FittingClean
    <2>4. table2 = With(table, l, s)
      BY <1>2, <2>2
    <2>5. TableFits(tree, env, mid, table2, c)
      BY ONLY <2>1, <2>3, <2>4, TableFits(tree, env, mid, table, c), TableWith
    <2>6. DOMAIN table = 1..c
      BY DEF TableFits
    <2>7. \A b \in 1..c : b # l => table2[b] = table[b]
      BY ONLY <2>1, <2>4, <2>6 DEF With
    <2>. QED BY <2>5, <2>7
  <1>. QED BY <1>1, <1>2

\* The labels of more blocks.
Extends(env, c, env2, c2) ==
    /\ c \in Nat /\ c2 \in Nat /\ c <= c2 /\ DOMAIN env = 1..c /\ DOMAIN env2 = 1..c2
    /\ \A b \in 1..c : env2[b] = env[b]

MoreBlocks(tree, env2, mid2, table, c, table2, c2) ==
    /\ DOMAIN table2 = 1..c2
    /\ \A b \in 1..c : table2[b] = table[b]
    /\ \A b \in (c + 1)..c2 : BlockFits(tree, env2, env2[b], mid2[b], table2[b])

\* They fit when blocks are added.
LEMMA TableGrows ==
    ASSUME NEW tree, NEW env, NEW mid, NEW table, NEW c, TableFits(tree, env, mid, table, c),
           NEW env2, NEW c2, Extends(env, c, env2, c2), NEW mid2, Extends(mid, c, mid2, c2),
           NEW table2, MoreBlocks(tree, env2, mid2, table, c, table2, c2)
    PROVE  TableFits(tree, env2, mid2, table2, c2) /\ Grows(env, env2)
  <1>1. Grows(env, env2)
    BY EntriesGrow DEF Extends
  <1>2. \A b \in 1..c2 : b \in 1..c \/ b \in (c + 1)..c2
    BY DEF Extends
  <1>3. ASSUME NEW b \in 1..c PROVE BlockFits(tree, env2, env2[b], mid2[b], table2[b])
    <2>1. BlockFits(tree, env, env[b], mid[b], table[b])
      BY DEF TableFits
    <2>2. BlockFits(tree, env2, env[b], mid[b], table[b])
      BY ONLY <1>1, <2>1, FittingGrows
    <2>3. env2[b] = env[b] /\ mid2[b] = mid[b] /\ table2[b] = table[b]
      BY DEF Extends, MoreBlocks
    <2>. QED BY ONLY <2>2, <2>3
  <1>4. /\ DOMAIN table2 = 1..c2
        /\ \A b \in (c + 1)..c2 : BlockFits(tree, env2, env2[b], mid2[b], table2[b])
    BY DEF MoreBlocks
  <1>. QED BY ONLY <1>1, <1>2, <1>3, <1>4 DEF TableFits

-----------------------------------------------------------------------------
(* The frames and nested_blocks_stack: dp[k] is the number of entries when *)
(* the block of frame k was entered.                                       *)

Steps(tree, f) == IF Owns(tree, f) THEN 1 ELSE 0

\* The entry of a loop or a conditional; outside of it the loops S are saved.
EntryOf(tree, env, S, e, f) ==
    /\ e.cont = f.cont
    /\ IF IsLoop(StatAt(tree, f)) THEN e.back # Null /\ e.loop = StatAt(tree, f).body
                                  ELSE e.back = Null
    /\ f.visiting = 1 /\ StatAt(tree, f).alt # NoBlock => f.els \in Goes(env, S)

FrameFits(tree, E, Z, env, lv, ne, d, f) ==
    /\ d \in Nat /\ f.block \in Z /\ lv[d] = E[f.block]
    /\ Owns(tree, f) => EntryOf(tree, env, lv[d], ne[d + 1], f)

Linked(tree, E, Z, env, lv, fs, ne, dp) ==
    /\ fs \in Seq(CFrame) /\ Len(fs) > 0
    /\ \A k \in 1..Len(fs) : FrameFits(tree, E, Z, env, lv, ne, dp[k], fs[k])
    /\ \A j, k \in 1..Len(fs) : j < k => dp[j] + Steps(tree, fs[j]) <= dp[k]
    /\ \A k \in 1..Len(fs) : k > 1 => dp[k] = dp[k - 1] + Steps(tree, fs[k - 1])
    /\ Len(ne) = dp[Len(fs)] + Steps(tree, fs[Len(fs)])

\* The labels and the entries of the frames below agree.
SameBelow(lv, ne, lv2, ne2, d) ==
    /\ \A i \in 0..d : lv2[i] = lv[i]
    /\ \A i \in 1..d : ne2[i] = ne[i]

\* A frame fits as long as the levels below it are the same.
LEMMA FrameKept ==
    ASSUME NEW tree, NEW E, NEW Z, NEW env, NEW lv, NEW ne, NEW d, NEW f,
           FrameFits(tree, E, Z, env, lv, ne, d, f),
           NEW env2, Grows(env, env2), NEW lv2, NEW ne2, NEW m \in Nat,
           SameBelow(lv, ne, lv2, ne2, m), d + Steps(tree, f) <= m
    PROVE  FrameFits(tree, E, Z, env2, lv2, ne2, d, f)
  <1>1. d \in Nat /\ f.block \in Z /\ lv[d] = E[f.block]
    BY DEF FrameFits
  <1>2. d \in 0..m
    BY <1>1 DEF Steps
  <1>3. lv2[d] = lv[d]
    BY <1>2 DEF SameBelow
  <1>4. ASSUME Owns(tree, f) PROVE EntryOf(tree, env2, lv2[d], ne2[d + 1], f)
    <2>1. d + 1 \in 1..m
      BY <1>1, <1>4 DEF Steps
    <2>2. ne2[d + 1] = ne[d + 1]
      BY ONLY <2>1, SameBelow(lv, ne, lv2, ne2, m) DEF SameBelow
    <2>3. EntryOf(tree, env, lv[d], ne[d + 1], f)
      BY ONLY <1>4, FrameFits(tree, E, Z, env, lv, ne, d, f) DEF FrameFits
    <2>4. EntryOf(tree, env2, lv[d], ne[d + 1], f)
      BY ONLY <2>3, Grows(env, env2) DEF EntryOf, Grows
    <2>. QED BY ONLY <1>3, <2>2, <2>4
  <1>. QED BY ONLY <1>1, <1>3, <1>4 DEF FrameFits

\* The frame of the statement is replaced.
LEMMA LinkStep ==
    ASSUME NEW tree, NEW E, NEW Z, NEW env, NEW lv, NEW fs, NEW ne, NEW dp,
           Linked(tree, E, Z, env, lv, fs, ne, dp), NEW n, n = Len(fs),
           NEW env2, Grows(env, env2), NEW lv2, NEW ne2, SameBelow(lv, ne, lv2, ne2, dp[n]),
           NEW g \in CFrame, FrameFits(tree, E, Z, env2, lv2, ne2, dp[n], g),
           Len(ne2) = dp[n] + Steps(tree, g),
           NEW new, new = SetTop(fs, g)
    PROVE  Linked(tree, E, Z, env2, lv2, new, ne2, dp)
  <1>1. /\ fs \in Seq(CFrame) /\ n > 0 /\ n \in Nat
    BY DEF Linked
  <1>2. fs # <<>> /\ n \in 1..n
    BY <1>1
  <1>3. /\ new \in Seq(CFrame) /\ Len(new) = n
        /\ \A i \in 1..(n - 1) : new[i] = fs[i]
        /\ new[n] = g
    <2>1. /\ SetTop(fs, g) \in Seq(CFrame) /\ Len(SetTop(fs, g)) = Len(fs)
          /\ \A i \in 1..(Len(fs) - 1) : SetTop(fs, g)[i] = fs[i]
          /\ SetTop(fs, g)[Len(fs)] = g
      BY ONLY <1>1, <1>2, SetTopProps, g \in CFrame
    <2>. QED BY ONLY <2>1, n = Len(fs), new = SetTop(fs, g)
  <1>4. \A k \in 1..n : k = n \/ (k \in 1..(n - 1) /\ k < n)
    BY <1>1
  <1>5. /\ \A k \in 1..n : FrameFits(tree, E, Z, env, lv, ne, dp[k], fs[k])
        /\ \A j, k \in 1..n : j < k => dp[j] + Steps(tree, fs[j]) <= dp[k]
        /\ \A k \in 1..n : k > 1 => dp[k] = dp[k - 1] + Steps(tree, fs[k - 1])
    BY ONLY Linked(tree, E, Z, env, lv, fs, ne, dp), n = Len(fs) DEF Linked
  <1>6. dp[n] \in Nat
    BY ONLY <1>2, <1>5 DEF FrameFits
  <1>7. ASSUME NEW k \in 1..n PROVE FrameFits(tree, E, Z, env2, lv2, ne2, dp[k], new[k])
    <2>1. CASE k = n
      BY ONLY <1>3, <2>1, FrameFits(tree, E, Z, env2, lv2, ne2, dp[n], g)
    <2>2. CASE k \in 1..(n - 1) /\ k < n
      <3>1. FrameFits(tree, E, Z, env, lv, ne, dp[k], fs[k]) /\ dp[k] + Steps(tree, fs[k]) <= dp[n]
        BY ONLY <1>2, <1>5, <2>2, k \in 1..n
      <3>2. FrameFits(tree, E, Z, env2, lv2, ne2, dp[k], fs[k])
        BY ONLY <1>6, <3>1, Grows(env, env2), SameBelow(lv, ne, lv2, ne2, dp[n]), FrameKept
      <3>. QED BY ONLY <1>3, <2>2, <3>2
    <2>. QED BY <1>4, <2>1, <2>2
  <1>8. \A j, k \in 1..n : j < k => j \in 1..(n - 1)
    BY <1>1
  <1>9. \A k \in 1..n : k > 1 => k - 1 \in 1..(n - 1)
    BY <1>1
  <1>10. \A j, k \in 1..n : j < k => dp[j] + Steps(tree, new[j]) <= dp[k]
    BY ONLY <1>3, <1>5, <1>8
  <1>11. \A k \in 1..n : k > 1 => dp[k] = dp[k - 1] + Steps(tree, new[k - 1])
    BY ONLY <1>3, <1>5, <1>9
  <1>12. Len(ne2) = dp[n] + Steps(tree, new[n])
    BY ONLY <1>3, Len(ne2) = dp[n] + Steps(tree, g)
  <1>. QED BY ONLY <1>1, <1>3, <1>7, <1>10, <1>11, <1>12 DEF Linked

\* A block is entered.
Deeper(dp, n, d) == [k \in 1..(n + 1) |-> IF k = n + 1 THEN d ELSE dp[k]]

\* A block is left.
LEMMA LinkOut ==
    ASSUME NEW tree, NEW E, NEW Z, NEW env, NEW lv, NEW fs, NEW ne, NEW dp,
           Linked(tree, E, Z, env, lv, fs, ne, dp), Len(fs) # 1, ~Owns(tree, Top(fs)),
           NEW new, new = Pop(fs)
    PROVE  Linked(tree, E, Z, env, lv, new, ne, dp)
  <1>1. fs \in Seq(CFrame) /\ Len(fs) > 0
    BY DEF Linked
  <1>2. PICK n \in Nat : n = Len(fs) /\ n > 1 /\ n - 1 \in Nat /\ n - 1 > 0
    <2>1. PICK n \in Nat : n = Len(fs)
      BY <1>1
    <2>2. n > 0 /\ n # 1
      BY ONLY <1>1, <2>1, Len(fs) # 1
    <2>3. n > 1 /\ n - 1 \in Nat /\ n - 1 > 0
      BY ONLY <2>2, n \in Nat
    <2>. QED BY <2>1, <2>3
  <1>3. new \in Seq(CFrame) /\ Len(new) = n - 1 /\ \A i \in 1..(n - 1) : new[i] = fs[i]
    <2>1. new = Below(fs, n)
      BY <1>2 DEF Pop
    <2>2. n \in 1..(Len(fs) + 1)
      BY <1>2
    <2>3. /\ Below(fs, n) \in Seq(CFrame) /\ Len(Below(fs, n)) = n - 1
          /\ \A i \in 1..(n - 1) : Below(fs, n)[i] = fs[i]
      BY ONLY <1>1, <2>2, BelowProps
    <2>. QED BY ONLY <2>1, <2>3
  <1>4. /\ n \in 1..n /\ n - 1 \in 1..(n - 1) /\ n - 1 \in 1..n
        /\ \A k \in 1..(n - 1) : k \in 1..n
        /\ \A k \in 1..(n - 1) : k > 1 => k - 1 \in 1..(n - 1)
    BY <1>2
  <1>5. /\ \A k \in 1..n : FrameFits(tree, E, Z, env, lv, ne, dp[k], fs[k])
        /\ \A j, k \in 1..n : j < k => dp[j] + Steps(tree, fs[j]) <= dp[k]
        /\ \A k \in 1..n : k > 1 => dp[k] = dp[k - 1] + Steps(tree, fs[k - 1])
        /\ Len(ne) = dp[n] + Steps(tree, fs[n])
    BY ONLY Linked(tree, E, Z, env, lv, fs, ne, dp), <1>2 DEF Linked
  <1>6. Steps(tree, fs[n]) = 0
    <2>1. Top(fs) = fs[n]
      BY <1>2 DEF Top
    <2>. QED BY <2>1 DEF Steps
  <1>7. Len(ne) = dp[n - 1] + Steps(tree, new[n - 1])
    <2>1. dp[n] \in Nat
      BY ONLY <1>4, <1>5 DEF FrameFits
    <2>2. Len(ne) = dp[n]
      BY ONLY <1>5, <1>6, <2>1
    <2>3. dp[n] = dp[n - 1] + Steps(tree, fs[n - 1])
      BY ONLY <1>2, <1>4, <1>5
    <2>. QED BY ONLY <1>3, <1>4, <2>2, <2>3
  <1>8. \A k \in 1..(n - 1) : FrameFits(tree, E, Z, env, lv, ne, dp[k], new[k])
    BY ONLY <1>3, <1>4, <1>5
  <1>9. \A j, k \in 1..(n - 1) : j < k => dp[j] + Steps(tree, new[j]) <= dp[k]
    BY ONLY <1>3, <1>4, <1>5
  <1>10. \A k \in 1..(n - 1) : k > 1 => dp[k] = dp[k - 1] + Steps(tree, new[k - 1])
    BY ONLY <1>3, <1>4, <1>5
  <1>. QED BY ONLY <1>2, <1>3, <1>7, <1>8, <1>9, <1>10 DEF Linked

-----------------------------------------------------------------------------
(* The inductive invariant: the labels fit everything the walk has.        *)

Labels(env, mid, c) ==
    /\ c \in Nat /\ DOMAIN env = 1..c /\ DOMAIN mid = 1..c
    /\ 1 \in 1..c /\ env[1] = {}

Fits(tree, E, Z, env, mid, lv, dp, fs, table, c, p, ne) ==
    /\ LoopFacts(tree, E, Z) /\ Labels(env, mid, c)
    /\ TableFits(tree, env, mid, table, c)
    /\ NestFits(tree, env, ne, lv)
    /\ Linked(tree, E, Z, env, lv, fs, ne, dp)
    /\ p.block \in 1..c /\ Inserts(table[p.block], p.behind)
    /\ mid[p.block] = lv[Len(ne)]

\* The facts about one statement.
LoopFactsAt(tree, E, Z, b, i) ==
    /\ E[b] = LoopsHolding(tree, b)
    /\ IsExit(tree[b][i]) => E[b] # {}
    /\ \A y \in SubBlocks(tree[b][i]) :
          /\ y \in Z
          /\ IsLoop(tree[b][i]) => E[y] = Turn(tree, y) /\ LoopsAround(tree, y) = E[b]
          /\ ~IsLoop(tree[b][i]) => E[y] = E[b]

-----------------------------------------------------------------------------
(* The steps of the walk keep it.                                          *)

\* The parts of a statement are its sub-blocks.
LEMMA BodyIsSubBlock ==
    ASSUME NEW s, s \in Stat, s.kind \notin LeafKind
    PROVE  s.body \in SubBlocks(s) /\ (s.alt # NoBlock => s.alt \in SubBlocks(s))
  BY StatProps DEF SubBlocks

\* The blocks after new ones are made and something is emitted in front of them.
BlocksMade(tree, env2, mid2, table, c, p, begin, table2, c2) ==
    /\ DOMAIN table2 = 1..c2
    /\ table2[p.block] = Put(table[p.block], p.behind, begin)
    /\ \A b \in 1..c : b # p.block => table2[b] = table[b]
    /\ \A b \in (c + 1)..c2 : BlockFits(tree, env2, env2[b], mid2[b], table2[b])

LeadsTo(env, S, e) ==
    /\ e.cont \in Goes(env, S)
    /\ e.back # Null => e.back \in Goes(env, S)

\* What new blocks have.
LEMMA InsertableFits ==
    ASSUME NEW tree, NEW env, NEW S, NEW new, Insertable(tree, env, S, new)
    PROVE  BlockFits(tree, env, S, S, new)
  BY DEF Insertable, BlockFits

\* Nothing fits everywhere.
LEMMA EmptyFits ==
    ASSUME NEW tree, NEW env, NEW S
    PROVE  Insertable(tree, env, S, <<>>) /\ Inserts(<<>>, 0)
  <1>1. SeqFits(tree, env, S, <<>>) /\ ~StartsWith(<<>>, "save")
    BY FittingTuples, Starts
  <1>2. PICK s : s = <<>>
    OBVIOUS
  <1>3. Len(s) = 0 /\ 0 - 0 = 0 /\ 0 <= 0 /\ ~(0 > 0) /\ 0 \in Nat
    BY <1>2, Tuples
  <1>4. Inserts(s, 0)
    BY ONLY <1>1, <1>2, <1>3 DEF Inserts
  <1>. QED BY ONLY <1>1, <1>2, <1>4 DEF Insertable

\* The save of a stack pointer begins the block whose label gains the loop.
LEMMA SaveFits ==
    ASSUME NEW tree, NEW env, NEW l, NEW S, S = LoopsAround(tree, l), NEW M, M = Turn(tree, l)
    PROVE  BlockFits(tree, env, S, M, <<Save(l)>>) /\ Inserts(<<Save(l)>>, 0)
  <1>1. PICK op : op = Save(l)
    OBVIOUS
  <1>2. op.kind = "save" /\ op.to = {} /\ op.loop = l /\ op.stat = NoStat
    BY <1>1, OpFields
  <1>3. M = Turn(tree, op.loop) /\ S = LoopsAround(tree, op.loop)
    BY <1>2
  <1>4. SeqFits(tree, env, M, <<op>>)
    BY <1>2, <1>3, FittingTuples
  <1>5. StartsWith(<<op>>, "save")
    BY <1>2, Starts
  <1>6. PICK s : s = <<op>>
    OBVIOUS
  <1>7. Len(s) = 1 /\ s[1] = op
    BY <1>6, Tuples
  <1>8. BlockFits(tree, env, S, M, s)
    BY ONLY <1>3, <1>4, <1>5, <1>6, <1>7 DEF BlockFits
  <1>9. 0 \in Nat /\ 0 <= 1 /\ 1 - 0 = 1 /\ 1 > 0
    OBVIOUS
  <1>10. Inserts(s, 0)
    BY ONLY <1>2, <1>7, <1>9 DEF Inserts
  <1>. QED BY ONLY <1>1, <1>6, <1>8, <1>10

\* New labels: S for the blocks that are new, M inside of block x.
NewEnv(env, c, c2, S)       == [b \in 1..c2 |-> IF b <= c THEN env[b] ELSE S]

NewMid(mid, c, c2, S, x, M) == [b \in 1..c2 |-> IF b <= c THEN mid[b] ELSE IF b = x THEN M ELSE S]

\* Labels for the blocks a statement makes, of which at most one is labelled otherwise inside.
LEMMA NewLabels ==
    ASSUME NEW c \in Nat, NEW c2 \in Nat, c <= c2, NEW env, DOMAIN env = 1..c,
           NEW mid, DOMAIN mid = 1..c, NEW S, NEW x \in (c + 1)..c2, NEW M,
           NEW env2, env2 = NewEnv(env, c, c2, S), NEW mid2, mid2 = NewMid(mid, c, c2, S, x, M)
    PROVE  /\ Extends(env, c, env2, c2) /\ Extends(mid, c, mid2, c2)
           /\ \A b \in (c + 1)..c2 : b \in Goes(env2, S) /\ env2[b] = S
           /\ \A b \in (c + 1)..c2 : b # x => mid2[b] = S
           /\ mid2[x] = M
  <1>1. /\ \A b \in 1..c : b \in 1..c2 /\ b <= c
        /\ \A b \in (c + 1)..c2 : b \in 1..c2 /\ ~(b <= c)
    OBVIOUS
  <1>2. /\ DOMAIN env2 = 1..c2 /\ DOMAIN mid2 = 1..c2
        /\ \A b \in 1..c : env2[b] = env[b] /\ mid2[b] = mid[b]
        /\ \A b \in (c + 1)..c2 : env2[b] = S /\ (b # x => mid2[b] = S)
        /\ mid2[x] = M
    BY ONLY <1>1, env2 = NewEnv(env, c, c2, S), mid2 = NewMid(mid, c, c2, S, x, M),
            x \in (c + 1)..c2 DEF NewEnv, NewMid
  <1>3. Extends(env, c, env2, c2) /\ Extends(mid, c, mid2, c2)
    BY <1>2 DEF Extends
  <1>4. \A b \in (c + 1)..c2 : b \in Goes(env2, S)
    BY ONLY <1>1, <1>2 DEF Goes
  <1>. QED BY ONLY <1>2, <1>3, <1>4

\* What the start of a loop makes.
LoopMakes(f, s, table, c, p, loop, cont, control, begin, g, table2, e, p2) ==
    /\ cont \in Nat /\ loop \in Nat
    /\ begin = LoopHead(s, control, loop, cont)
    /\ g \in CFrame /\ g.block = f.block /\ g.pc = f.pc /\ g.visiting = 1
    /\ g.inner = loop /\ g.cont = cont
    /\ loop \in (c + 1)..cont /\ cont \in (c + 1)..cont /\ control \in (c + 1)..cont
    /\ c <= cont /\ loop # cont /\ control # cont /\ control # Null
    /\ control = loop <=> s.kind = "inf_loop"
    /\ \A b \in (c + 1)..cont : (b = loop \/ b = control \/ b = cont) /\ b \in 1..cont
    /\ \A b \in 1..c : b \in 1..cont /\ b # loop /\ b # control /\ b # cont
    /\ DOMAIN table2 = 1..cont
    /\ table2[p.block] = Put(table[p.block], p.behind, begin)
    /\ \A b \in 1..c : b # p.block => table2[b] = table[b]
    /\ table2[loop] = <<Save(s.body)>> /\ table2[cont] = <<>>
    /\ control # loop => table2[control] = <<Plain, Br({loop, cont})>>
    /\ e = [back |-> control, cont |-> cont, loop |-> s.body]
    /\ p2 = [block |-> loop, behind |-> 0]

\* What the start of a conditional makes.
CondMakes(f, s, table, c, p, then, els, cont, other, begin, g, table2, e, p2) ==
    /\ cont \in Nat
    /\ begin = <<Plain, Br({then, other})>>
    /\ g \in CFrame /\ g.block = f.block /\ g.pc = f.pc /\ g.visiting = 1
    /\ g.inner = then /\ g.cont = cont /\ g.els = els
    /\ then \in (c + 1)..cont /\ cont \in (c + 1)..cont /\ other \in (c + 1)..cont
    /\ c <= cont /\ then # cont /\ then # other
    /\ s.alt = NoBlock => other = cont
    /\ s.alt # NoBlock => other = els /\ els # cont
    /\ \A b \in (c + 1)..cont : b \in 1..cont /\ ~(b <= c) /\ table2[b] = <<>>
    /\ \A b \in 1..c : b <= c /\ b \in 1..cont
    /\ DOMAIN table2 = 1..cont
    /\ table2[p.block] = Put(table[p.block], p.behind, begin)
    /\ \A b \in 1..c : b # p.block => table2[b] = table[b]
    /\ e = CondEntry(cont)
    /\ p2 = [block |-> then, behind |-> 0]

\* What stands in front of the branch of a continue block.
LEMMA BehindFits ==
    ASSUME NEW tree, NEW env, NEW S, NEW release, release \in {<<>>, <<Plain>>},
           NEW default, Insertable(tree, env, S, default),
           NEW new, new = release \o default
    PROVE  Insertable(tree, env, S, new) /\ Inserts(new, Len(default))
  <1>1. Plain.kind = "op" /\ Plain.to = {} /\ StatFits(tree, S, Plain)
    BY OpFields DEF StatFits
  <1>2. SeqFits(tree, env, S, <<>>) /\ SeqFits(tree, env, S, <<Plain>>)
    BY ONLY <1>1, FittingTuples
  <1>3. ~StartsWith(<<>>, "save") /\ ~StartsWith(<<Plain>>, "save")
    BY <1>1, Starts
  <1>4. Insertable(tree, env, S, release)
    BY <1>2, <1>3 DEF Insertable
  <1>5. BlockFits(tree, env, S, S, release)
    BY ONLY <1>4, InsertableFits
  <1>6. BlockFits(tree, env, S, S, new)
    BY ONLY <1>5, FittingConcat, Insertable(tree, env, S, default), new = release \o default
       DEF Insertable
  <1>7. IsSeq(release) /\ IsSeq(default)
    BY <1>4 DEF Insertable, SeqFits
  <1>8. PICK T : release \in Seq(T) /\ default \in Seq(T)
    BY <1>7, SameUniverse
  <1>9. PICK r, d : r \in Nat /\ d \in Nat /\ r = Len(release) /\ d = Len(default)
    <2>1. Len(release) \in Nat /\ Len(default) \in Nat
      BY <1>7, SeqProps
    <2>. QED BY <2>1
  <1>10. /\ Len(new) = r + d
         /\ \A i \in 1..r : new[i] = release[i]
         /\ r = 0 => new = default
    <2>1. Len(new) = r + d
      BY <1>8, <1>9
    <2>2. \A i \in 1..r : new[i] = release[i]
      BY <1>8, <1>9
    <2>3. ASSUME r = 0 PROVE new = default
      <3>1. release = <<>>
        <4>1. PICK z : z = release
          OBVIOUS
        <4>2. z \in Seq(T) /\ Len(z) = 0
          BY ONLY <1>8, <1>9, <2>3, <4>1
        <4>3. z = <<>>
          BY ONLY <4>2
        <4>. QED BY ONLY <4>1, <4>3
      <3>2. <<>> \o default = default
        BY ONLY <1>8
      <3>. QED BY ONLY <3>1, <3>2, new = release \o default
    <2>. QED BY <2>1, <2>2, <2>3
  <1>11. release[r].kind = "op" \/ r = 0
    <2>1. PICK a, b : a = <<>> /\ b = <<Plain>>
      OBVIOUS
    <2>2. Len(a) = 0 /\ Len(b) = 1 /\ b[1] = Plain
      BY <2>1, Tuples
    <2>3. release = a \/ release = b
      BY <2>1
    <2>. QED BY ONLY <1>1, <1>9, <2>2, <2>3
  <1>12. ~StartsWith(new, "save")
    <2>1. CASE r = 0
      BY ONLY <1>10, <2>1, Insertable(tree, env, S, default) DEF Insertable
    <2>2. CASE r # 0
      <3>1. 1 \in 1..r /\ r > 0
        BY <1>9, <2>2
      <3>2. new[1] = release[1] /\ Len(release) > 0
        BY ONLY <1>9, <1>10, <3>1
      <3>. QED BY ONLY <1>4, <3>2 DEF Insertable, StartsWith
    <2>. QED BY <2>1, <2>2
  <1>13. (r + d) - d = r /\ d <= r + d /\ (r > 0 => r \in 1..r)
    BY <1>9
  <1>14. Inserts(new, d)
    BY ONLY <1>9, <1>10, <1>11, <1>12, <1>13 DEF Inserts
  <1>. QED BY ONLY <1>6, <1>9, <1>12, <1>14 DEF Insertable, BlockFits

\* One can always go on at the end of a block.
LEMMA EndInserts ==
    ASSUME NEW tree, NEW env, NEW e, NEW M, NEW s, BlockFits(tree, env, e, M, s)
    PROVE  Inserts(s, 0)
  <1>1. /\ Len(s) > 0 => s[Len(s)].kind # "restore"
        /\ Len(s) = 0 => ~StartsWith(s, "save")
    BY DEF BlockFits, SeqFits, StartsWith
  <1>2. PICK n \in Nat : n = Len(s)
    BY SeqProps DEF BlockFits, SeqFits
  <1>3. n - 0 = n /\ 0 <= n /\ 0 \in Nat
    OBVIOUS
  <1>. QED BY ONLY <1>1, <1>2, <1>3 DEF Inserts

-----------------------------------------------------------------------------
(* The execution of the blocks: the loops whose stack pointer is saved are *)
(* those the labels of the block say, and the operation before.            *)

Expected(tree, env, mid, table, p) ==
    IF p.pc = 1 THEN env[p.block]
                ELSE Behind(tree, mid[p.block], Previous(table[p.block], p.pc))

Executing(tree, env, mid, table, c, p, S) ==
    /\ p \in [block: Nat, pc: Nat]
    /\ p.block \in 1..c /\ p.pc \in 1..Len(table[p.block])
    /\ S = Expected(tree, env, mid, table, p)

\* A block that passes the verifier has a first operation, and an operation
\* behind any that is no terminator.
LEMMA BlocksGoOn ==
    ASSUME NEW s, IsSeq(s), HasTerminator(s)
    PROVE  /\ 1 \in 1..Len(s)
           /\ \A i \in 1..Len(s) : ~IsTerminator(s[i]) => i + 1 \in 1..Len(s)
  <1>1. PICK n \in Nat : n = Len(s)
    BY SeqProps
  <1>2. n > 0 /\ IsTerminator(s[n])
    <2>1. s # <<>> /\ IsTerminator(s[Len(s)])
      BY DEF HasTerminator, Last
    <2>. QED BY ONLY <1>1, <2>1, IsSeq(s), SeqProps
  <1>3. \A i \in 1..n : ~IsTerminator(s[i]) => i # n
    BY <1>2
  <1>4. 1 \in 1..n /\ \A i \in 1..n : i # n => i + 1 \in 1..n
    BY <1>2
  <1>. QED BY ONLY <1>1, <1>3, <1>4

\* What an operation finds saved, and what it leaves to the next one.
OpFinds(tree, M, prev, op, S) ==
    /\ op.kind = "save" => S = LoopsAround(tree, op.loop) /\ op.loop \notin S
    /\ op.kind = "restore" => op.loop \in S
    /\ op.kind = "save" => (S \cap LoopsAround(tree, op.loop)) \cup {op.loop} = Behind(tree, M, op)
    /\ op.kind = "restore" => S \cap LoopsAround(tree, op.loop) = Behind(tree, M, op)
    /\ op.kind = "op" => S = Behind(tree, M, op)
    /\ op.kind # "save" => S = Behind(tree, M, prev)
    /\ op.stat # NoStat => S = LoopsHolding(tree, op.stat[1])

\* What is saved when an operation is executed is what its block's labels say.
LEMMA Finds ==
    ASSUME NEW tree, NEW env, NEW mid, NEW table, NEW c, TableFits(tree, env, mid, table, c),
           NEW p, NEW S, Executing(tree, env, mid, table, c, p, S),
           NEW s, s = table[p.block], NEW M, M = mid[p.block], NEW op, op = s[p.pc],
           NEW prev, prev = Previous(s, p.pc)
    PROVE  /\ OpFinds(tree, M, prev, op, S) /\ OpFits(tree, env, M, prev, op)
           /\ IsSeq(s) /\ DOMAIN table = 1..c
  <1>1. p.block \in 1..c /\ p.pc \in 1..Len(s) /\ p.pc \in Nat
    BY DEF Executing
  <1>2. BlockFits(tree, env, env[p.block], M, s) /\ DOMAIN table = 1..c
    BY <1>1 DEF TableFits
  <1>3. SeqFits(tree, env, M, s)
    BY <1>2 DEF BlockFits
  <1>4. IsSeq(s) /\ OpFits(tree, env, M, prev, op) /\ (op.kind = "save" => p.pc = 1)
    BY <1>1, <1>3 DEF SeqFits
  <1>5. PICK n \in Nat : n = Len(s)
    BY <1>4, SeqProps
  <1>6. Len(s) > 0
    BY <1>1, <1>5
  <1>7. S = IF p.pc = 1 THEN env[p.block] ELSE Behind(tree, M, prev)
    BY DEF Executing, Expected
  <1>8. op.kind = "save" => S = LoopsAround(tree, op.loop)
    <2>1. SUFFICES ASSUME op.kind = "save" PROVE S = LoopsAround(tree, op.loop)
      OBVIOUS
    <2>2. p.pc = 1
      BY <1>4, <2>1
    <2>3. s[1].kind = "save" /\ s[1] = op
      BY <2>1, <2>2
    <2>. QED BY <1>2, <1>6, <1>7, <2>2, <2>3 DEF BlockFits, StartsWith
  <1>9. op.kind # "save" => S = Behind(tree, M, prev)
    <2>1. SUFFICES ASSUME op.kind # "save", p.pc = 1 PROVE S = Behind(tree, M, prev)
      BY <1>7
    <2>2. ~StartsWith(s, "save")
      BY <2>1 DEF StartsWith
    <2>3. S = M
      BY <1>2, <1>7, <2>1, <2>2 DEF BlockFits
    <2>4. prev = Plain
      BY <2>1 DEF Previous
    <2>. QED BY <2>3, <2>4, OpFields DEF Behind
  <1>10. op.kind # "br" => prev.kind # "restore" /\ Behind(tree, M, prev) = M
    BY <1>4 DEF OpFits, Behind
  <1>11. \A l : l \notin LoopsAround(tree, l)
    BY DEF LoopsAround
  <1>12. op.kind \in {"save", "restore"} => M = LoopsAround(tree, op.loop) \cup {op.loop}
    BY <1>4 DEF OpFits, Turn
  <1>13. op.stat # NoStat => S = LoopsHolding(tree, op.stat[1])
    BY <1>4, <1>9, <1>10 DEF OpFits, StatFits
  <1>14. OpFinds(tree, M, prev, op, S)
    <2>1. CASE op.kind = "save"
      <3>1. S = LoopsAround(tree, op.loop) /\ op.loop \notin S /\ Behind(tree, M, op) = M
        BY <1>8, <1>11, <2>1 DEF Behind
      <3>2. (S \cap LoopsAround(tree, op.loop)) \cup {op.loop} = M
        BY ONLY <1>12, <2>1, <3>1
      <3>. QED BY ONLY <1>13, <2>1, <3>1, <3>2 DEF OpFinds
    <2>2. CASE op.kind = "restore"
      <3>1. S = M /\ Behind(tree, M, op) = LoopsAround(tree, op.loop)
        BY <1>9, <1>10, <2>2 DEF Behind
      <3>2. op.loop \in S /\ S \cap LoopsAround(tree, op.loop) = LoopsAround(tree, op.loop)
        BY ONLY <1>12, <2>2, <3>1
      <3>. QED BY ONLY <1>9, <1>13, <2>2, <3>1, <3>2 DEF OpFinds
    <2>3. CASE op.kind \notin {"save", "restore"}
      <3>1. op.kind = "op" => S = Behind(tree, M, op)
        BY <1>9, <1>10 DEF Behind
      <3>. QED BY ONLY <1>9, <1>13, <2>3, <3>1 DEF OpFinds
    <2>. QED BY <2>1, <2>2, <2>3
  <1>. QED BY <1>2, <1>4, <1>14

-----------------------------------------------------------------------------
(* Reaching a set in as many steps as it may have elements.                *)

\* Sets that grow along G from "first" for n steps.
Growing(P, first, G, n, r) ==
    /\ r \in [0..n -> SUBSET P] /\ r[0] = first
    /\ \A i \in 1..n : r[i] = r[i - 1] \cup UNION {G[q] : q \in r[i - 1]}

\* There are such sets.
LEMMA GrowingExists ==
    ASSUME NEW P, NEW first \in SUBSET P, NEW G \in [P -> SUBSET P], NEW n \in Nat
    PROVE  \E r : Growing(P, first, G, n, r)
  <1>. DEFINE S == (0..n) \X P
              H == [X \in SUBSET S |-> {p \in S :
                       \/ p[1] = 0 /\ p[2] \in first
                       \/ /\ p[1] # 0
                          /\ \/ <<p[1] - 1, p[2]>> \in X
                             \/ \E q \in P : <<p[1] - 1, q>> \in X /\ p[2] \in G[q]}]
  <1>1. H \in [SUBSET S -> SUBSET S]
    OBVIOUS
  <1>2. \A X, Y \in SUBSET S : X \subseteq Y => H[X] \subseteq H[Y]
    <2>1. ASSUME NEW X \in SUBSET S, NEW Y \in SUBSET S, X \subseteq Y, NEW p \in H[X]
          PROVE  p \in H[Y]
      <3>. HIDE DEF S
      <3>1. /\ p \in S
            /\ \/ p[1] = 0 /\ p[2] \in first
               \/ /\ p[1] # 0
                  /\ \/ <<p[1] - 1, p[2]>> \in X
                     \/ \E q \in P : <<p[1] - 1, q>> \in X /\ p[2] \in G[q]
        BY ONLY X \in SUBSET S, p \in H[X] DEF H
      <3>2. /\ p[1] # 0
            /\ \/ <<p[1] - 1, p[2]>> \in X
               \/ \E q \in P : <<p[1] - 1, q>> \in X /\ p[2] \in G[q]
            => \/ <<p[1] - 1, p[2]>> \in Y
               \/ \E q \in P : <<p[1] - 1, q>> \in Y /\ p[2] \in G[q]
        BY ONLY X \subseteq Y
      <3>. QED BY ONLY <3>1, <3>2, Y \in SUBSET S DEF H
    <2>. HIDE DEF H
    <2>. QED BY <2>1
  <1>3. PICK X \in SUBSET S : H[X] = X
    <2>. HIDE DEF S, H
    <2>. QED BY <1>1, <1>2, FixedPoint
  <1>. DEFINE r == [i \in 0..n |-> {x \in P : <<i, x>> \in X}]
  <1>4. ASSUME NEW i \in 0..n, NEW x \in P
        PROVE  <<i, x>> \in X <=>
                  \/ i = 0 /\ x \in first
                  \/ /\ i # 0
                     /\ \/ <<i - 1, x>> \in X
                        \/ \E q \in P : <<i - 1, q>> \in X /\ x \in G[q]
    <2>1. PICK p : p = <<i, x>>
      OBVIOUS
    <2>2. p \in S /\ p[1] = i /\ p[2] = x
      BY <2>1
    <2>3. p \in H[X] <=>
             \/ p[1] = 0 /\ p[2] \in first
             \/ /\ p[1] # 0
                /\ \/ <<p[1] - 1, p[2]>> \in X
                   \/ \E q \in P : <<p[1] - 1, q>> \in X /\ p[2] \in G[q]
      <3>. HIDE DEF S
      <3>. QED BY ONLY <2>2, X \in SUBSET S DEF H
    <2>. HIDE DEF S, H
    <2>. QED BY ONLY <1>3, <2>1, <2>2, <2>3
  <1>5. r \in [0..n -> SUBSET P] /\ \A i \in 0..n : r[i] = {x \in P : <<i, x>> \in X}
    OBVIOUS
  <1>. HIDE DEF S, H, r
  <1>6. r[0] = first
    <2>1. 0 \in 0..n
      OBVIOUS
    <2>2. \A x \in P : <<0, x>> \in X <=> x \in first
      BY ONLY <1>4, <2>1
    <2>. QED BY <1>5, <2>1, <2>2
  <1>7. ASSUME NEW i \in 1..n PROVE r[i] = r[i - 1] \cup UNION {G[q] : q \in r[i - 1]}
    <2>1. i \in 0..n /\ i - 1 \in 0..n /\ i # 0
      OBVIOUS
    <2>2. PICK j : j = i - 1
      OBVIOUS
    <2>3. r[i] = {x \in P : <<i, x>> \in X} /\ r[j] = {x \in P : <<j, x>> \in X}
      BY <1>5, <2>1, <2>2
    <2>4. \A x \in P : <<i, x>> \in X <=>
              <<j, x>> \in X \/ \E q \in P : <<j, q>> \in X /\ x \in G[q]
      BY ONLY <1>4, <2>1, <2>2
    <2>5. ASSUME NEW x PROVE x \in r[i] <=> x \in r[j] \cup UNION {G[q] : q \in r[j]}
      <3>1. \A q \in r[j] : q \in P /\ G[q] \subseteq P
        BY ONLY <2>3, G \in [P -> SUBSET P]
      <3>2. CASE x \notin P
        BY ONLY <2>3, <3>1, <3>2
      <3>3. CASE x \in P
        BY ONLY <2>3, <2>4, <3>1, <3>3
      <3>. QED BY ONLY <3>2, <3>3
    <2>. QED BY ONLY <2>2, <2>5
  <1>. QED BY <1>5, <1>6, <1>7 DEF Growing

\* After as many steps as there are elements they are closed under G.
LEMMA GrowingIsClosed ==
    ASSUME NEW P, IsFiniteSet(P), NEW first \in SUBSET P, NEW G \in [P -> SUBSET P],
           NEW n \in Nat, Cardinality(P) <= n, NEW r, Growing(P, first, G, n, r)
    PROVE  /\ r[n] \in SUBSET P /\ first \subseteq r[n]
           /\ \A q \in r[n] : G[q] \subseteq r[n]
  <1>. DEFINE Stays(i) == \A q \in r[i] : G[q] \subseteq r[i]
              Bad == {i \in 0..n : ~(first \subseteq r[i] /\ (Stays(i) \/ i <= Cardinality(r[i])))}
  <1>1. \A i \in 0..n : /\ r[i] \in SUBSET P /\ IsFiniteSet(r[i])
                        /\ Cardinality(r[i]) \in Nat
                        /\ Cardinality(r[i]) <= Cardinality(P)
                        /\ Cardinality(P) = Cardinality(r[i]) => r[i] = P
    BY FS_Subset, FS_CardinalityType DEF Growing
  <1>2. Bad = {}
    <2>1. SUFFICES ASSUME Bad # {} PROVE FALSE
      OBVIOUS
    <2>2. Bad \in SUBSET Nat
      OBVIOUS
    <2>3. PICK m \in Bad : \A x \in Bad : m <= x
      <3>. HIDE DEF Bad
      <3>. QED BY <2>1, <2>2, LeastNumber
    <2>4. m \in 0..n /\ m \in Nat
      OBVIOUS
    <2>5. m # 0
      <3>1. 0 \in 0..n /\ r[0] = first
        BY DEF Growing
      <3>2. 0 <= Cardinality(r[0])
        BY <1>1, <3>1
      <3>3. 0 \notin Bad
        BY <3>1, <3>2
      <3>. QED BY <3>3
    <2>6. PICK j : j = m - 1
      OBVIOUS
    <2>7. j \in 0..n /\ j \in Nat /\ m = j + 1 /\ m \in 1..n /\ j \notin Bad
      BY <2>3, <2>4, <2>5, <2>6
    <2>8. r[m] = r[j] \cup UNION {G[q] : q \in r[j]}
      BY ONLY <2>6, <2>7, Growing(P, first, G, n, r) DEF Growing
    <2>9. first \subseteq r[j] /\ (Stays(j) \/ j <= Cardinality(r[j]))
      BY <2>7
    <2>10. first \subseteq r[m]
      BY <2>8, <2>9
    <2>11. CASE Stays(j)
      <3>1. r[m] = r[j]
        BY <2>8, <2>11
      <3>2. Stays(m)
        BY <2>11, <3>1
      <3>. QED BY <2>10, <3>2
    <2>12. CASE ~Stays(j)
      <3>1. PICK q \in r[j] : ~(G[q] \subseteq r[j])
        BY <2>12
      <3>2. PICK x \in G[q] : x \notin r[j]
        BY <3>1
      <3>3. r[j] \subseteq r[m] /\ r[j] # r[m]
        BY <2>8, <3>1, <3>2
      <3>4. IsFiniteSet(r[m]) /\ r[j] \in SUBSET r[m]
        BY <1>1, <2>4, <3>3
      <3>5. Cardinality(r[j]) <= Cardinality(r[m]) /\ Cardinality(r[m]) # Cardinality(r[j])
        BY <3>3, <3>4, FS_Subset
      <3>6. Cardinality(r[j]) \in Nat /\ Cardinality(r[m]) \in Nat
        BY <1>1, <2>4, <2>7
      <3>7. j <= Cardinality(r[j])
        BY <2>9, <2>12
      <3>8. m <= Cardinality(r[m])
        BY ONLY <2>7, <3>5, <3>6, <3>7
      <3>. QED BY <2>10, <3>8
    <2>. QED BY <2>11, <2>12
  <1>3. n \in 0..n
    OBVIOUS
  <1>4. first \subseteq r[n] /\ (Stays(n) \/ n <= Cardinality(r[n]))
    BY <1>2, <1>3
  <1>5. CASE Stays(n)
    BY <1>1, <1>3, <1>4, <1>5
  <1>6. CASE n <= Cardinality(r[n])
    <2>1. Cardinality(P) \in Nat
      BY FS_CardinalityType
    <2>2. Cardinality(P) = Cardinality(r[n])
      BY <1>1, <1>3, <1>6, <2>1
    <2>3. r[n] = P
      BY <1>1, <1>3, <2>2
    <2>. QED BY <1>4, <2>3
  <1>. QED BY <1>4, <1>5, <1>6

-----------------------------------------------------------------------------
(* Paths through the tree: what may be executed next from a position.      *)

Places(tree) == UNION {{b} \X (1..(Len(tree[b]) + 1)) : b \in Block}

\* The blocks of the subroutine: its body, and what those statements own.
PartsAre(tree, Z) ==
    /\ Z \in SUBSET Block
    /\ \A b \in Block : b \in Z <=> b = Root \/ \E o \in Owners(tree, b) : o[1] \in Z

Parts(tree) == CHOOSE Z : PartsAre(tree, Z)

Spots(tree) == {p \in Places(tree) : p[1] \in Parts(tree)}

\* The visible statements.
Shown(tree, visible) ==
    {p \in Places(tree) : p[2] \in DOMAIN tree[p[1]] /\ tree[p[1]][p[2]].kind \in visible}

\* What may be executed next when control is at a position.
Keeps(tree, visible, K) == \A p \in K : Silently(tree, p, visible) \subseteq K

Coming(tree, visible, p) ==
    {q \in Shown(tree, visible) :
        \A K \in SUBSET Spots(tree) : p \in K /\ Keeps(tree, visible, K) => q \in K}

\* The positions of the blocks, and that there are finitely many.
LEMMA PlacesProps ==
    ASSUME NEW tree \in Tree
    PROVE  /\ IsFiniteSet(Places(tree))
           /\ \A b \in Block : \A i \in 1..(Len(tree[b]) + 1) : <<b, i>> \in Places(tree)
           /\ \A p \in Places(tree) : /\ p = <<p[1], p[2]>> /\ p[1] \in Block
                                      /\ p[2] \in 1..(Len(tree[p[1]]) + 1)
           /\ \A b \in Block : Len(tree[b]) \in Nat /\ DOMAIN tree[b] = 1..Len(tree[b])
  <1>1. \A b \in Block : Len(tree[b]) \in Nat /\ DOMAIN tree[b] = 1..Len(tree[b])
    BY DEF Tree
  <1>. DEFINE f == [b \in Block |-> {b} \X (1..(Len(tree[b]) + 1))]
              S == {f[b] : b \in Block}
  <1>2. \A b \in Block : IsFiniteSet(f[b])
    <2>1. TAKE b \in Block
    <2>2. IsFiniteSet({b})
      BY FS_Singleton
    <2>3. PICK n \in Nat : n = Len(tree[b]) + 1
      BY <1>1
    <2>4. IsFiniteSet(1..n)
      BY FS_Interval
    <2>. QED BY <2>2, <2>3, <2>4, FS_Product
  <1>3. IsFiniteSet(Block)
    <2>1. 1 \in Int /\ MaxBlocks \in Int
      BY MaxBlocksAssumption
    <2>. QED BY <2>1, FS_Interval DEF Block
  <1>4. f \in Surjection(Block, S)
    BY DEF Surjection
  <1>5. IsFiniteSet(S)
    <2>. HIDE DEF f, S
    <2>. QED BY <1>3, <1>4, FS_Surjection
  <1>6. IsFiniteSet(UNION S)
    <2>1. \A T \in S : IsFiniteSet(T)
      BY <1>2
    <2>. HIDE DEF f, S
    <2>. QED BY <1>5, <2>1, FS_UNION
  <1>7. Places(tree) = UNION S
    BY DEF Places
  <1>8. \A b \in Block : \A i \in 1..(Len(tree[b]) + 1) : <<b, i>> \in Places(tree)
    BY DEF Places
  <1>9. \A p \in Places(tree) : /\ p = <<p[1], p[2]>> /\ p[1] \in Block
                                /\ p[2] \in 1..(Len(tree[p[1]]) + 1)
    BY DEF Places
  <1>. HIDE DEF S
  <1>. QED BY <1>1, <1>6, <1>7, <1>8, <1>9

\* The blocks of the subroutine are those that are reached from its body.
LEMMA PartsDef ==
    ASSUME NEW tree \in Tree
    PROVE  PartsAre(tree, Parts(tree))
  <1>. DEFINE H == [X \in SUBSET Block |->
                      {b \in Block : b = Root \/ \E o \in Owners(tree, b) : o[1] \in X}]
  <1>1. H \in [SUBSET Block -> SUBSET Block]
    OBVIOUS
  <1>2. \A X, Y \in SUBSET Block : X \subseteq Y => H[X] \subseteq H[Y]
    OBVIOUS
  <1>3. PICK X \in SUBSET Block : H[X] = X
    <2>. HIDE DEF H
    <2>. QED BY <1>1, <1>2, FixedPoint
  <1>4. PartsAre(tree, X)
    BY <1>3 DEF PartsAre
  <1>. QED BY <1>4 DEF Parts

\* The owner of a block, in a tree of the right shape.
LEMMA PartsProps ==
    ASSUME NEW tree \in Tree, Shape(tree)
    PROVE  /\ Parts(tree) \subseteq Block /\ Root \in Parts(tree)
           /\ \A c \in Block : \A j \in DOMAIN tree[c] : \A b \in SubBlocks(tree[c][j]) :
                 /\ b \in Block /\ b # Root /\ c < b /\ Owner(tree, b) = <<c, j>>
                 /\ b \in Parts(tree) <=> c \in Parts(tree)
           /\ \A b \in Parts(tree) : b # Root => \E c \in Parts(tree) :
                 \E j \in DOMAIN tree[c] : b \in SubBlocks(tree[c][j])
  <1>1. PartsAre(tree, Parts(tree))
    BY PartsDef
  <1>2. Parts(tree) \subseteq Block /\ Root \in Parts(tree)
    BY <1>1, RootIsBlock DEF PartsAre
  <1>3. ParentsFirst(tree) /\ OneOwner(tree)
    BY DEF Shape
  <1>4. ASSUME NEW c \in Block, NEW j \in DOMAIN tree[c], NEW b \in SubBlocks(tree[c][j])
        PROVE  /\ b \in Block /\ b # Root /\ c < b /\ Owner(tree, b) = <<c, j>>
               /\ b \in Parts(tree) <=> c \in Parts(tree)
    <2>1. b \in Block
      BY StatsOfTree, StatProps
    <2>2. Owners(tree, b) = {<<c, j>>}
      BY <1>3, <2>1, OwnersDef
    <2>3. Owner(tree, b) = <<c, j>>
      BY <2>2 DEF Owner
    <2>4. b # Root
      BY <1>3, <2>2, OwnersDef
    <2>5. c < b
      BY <1>3 DEF ParentsFirst
    <2>6. b \in Parts(tree) <=> c \in Parts(tree)
      <3>1. b \in Parts(tree) <=> b = Root \/ \E o \in Owners(tree, b) : o[1] \in Parts(tree)
        BY <1>1, <2>1 DEF PartsAre
      <3>. QED BY <2>2, <2>4, <3>1
    <2>. QED BY <2>1, <2>3, <2>4, <2>5, <2>6
  <1>5. ASSUME NEW b \in Parts(tree), b # Root
        PROVE  \E c \in Parts(tree) : \E j \in DOMAIN tree[c] : b \in SubBlocks(tree[c][j])
    <2>1. b \in Block
      BY <1>2
    <2>2. PICK o \in Owners(tree, b) : o[1] \in Parts(tree)
      BY <1>1, <1>5, <2>1 DEF PartsAre
    <2>3. o[2] \in DOMAIN tree[o[1]] /\ b \in SubBlocks(tree[o[1]][o[2]])
      BY <2>1, OwnersDef
    <2>. QED BY <2>2, <2>3
  <1>. QED BY ONLY <1>2, <1>4, <1>5

\* Control stays in the blocks of the subroutine.
LEMMA SpotsStay ==
    ASSUME NEW tree \in Tree, Shape(tree), NEW visible, NEW p \in Spots(tree)
    PROVE  Silently(tree, p, visible) \subseteq Spots(tree)
  <1>1. PICK b, i : p = <<b, i>> /\ b \in Block /\ b \in Parts(tree) /\ i \in 1..(Len(tree[b]) + 1)
    BY PlacesProps DEF Spots
  <1>2. \A c \in Parts(tree) : \A j \in 1..(Len(tree[c]) + 1) : <<c, j>> \in Spots(tree)
    BY PlacesProps, PartsProps DEF Spots
  <1>3. \A c \in Parts(tree) : Len(tree[c]) \in Nat /\ DOMAIN tree[c] = 1..Len(tree[c])
    BY PlacesProps, PartsProps
  <1>4. \A c \in Parts(tree) : \A j \in DOMAIN tree[c] :
            <<c, j + 1>> \in Spots(tree) /\ <<c, 1>> \in Spots(tree)
    BY <1>2, <1>3
  <1>5. \A c \in Parts(tree) : <<c, 1>> \in Spots(tree)
    BY <1>2, <1>3
  <1>6. CASE i > Len(tree[b])
    <2>1. Silently(tree, p, visible) = AfterBlock(tree, b)
      BY <1>1, <1>6 DEF Silently
    <2>2. CASE b = Root
      BY <2>1, <2>2 DEF AfterBlock
    <2>3. CASE b # Root
      <3>0. PICK c \in Parts(tree) : \E j \in DOMAIN tree[c] : b \in SubBlocks(tree[c][j])
        BY <1>1, <2>3, PartsProps
      <3>1. PICK j \in DOMAIN tree[c] : b \in SubBlocks(tree[c][j])
        BY <3>0
      <3>2. PICK o : o = <<c, j>>
        OBVIOUS
      <3>3. Owner(tree, b) = o /\ o[1] = c /\ o[2] = j
        BY <3>1, <3>2, PartsProps
      <3>4. PICK s : s = tree[c][j]
        OBVIOUS
      <3>5. AfterBlock(tree, b) \subseteq {<<c, j + 1>>} \cup (IF IsLoop(s) THEN {<<s.body, 1>>} ELSE {})
        BY <2>3, <3>3, <3>4 DEF AfterBlock
      <3>6. IsLoop(s) => s.body \in Parts(tree)
        <4>1. s \in Stat
          BY <3>4, StatsOfTree, PartsProps
        <4>2. IsLoop(s) => s.body # NoBlock
          BY <4>1 DEF Stat, IsLoop, LoopKind, LeafKind, ExitKind
        <4>3. IsLoop(s) => s.body \in SubBlocks(s)
          BY <4>2 DEF SubBlocks
        <4>. QED BY <3>4, <4>3, PartsProps
      <3>7. <<c, j + 1>> \in Spots(tree)
        BY <1>4, <3>1
      <3>8. IsLoop(s) => <<s.body, 1>> \in Spots(tree)
        BY <1>5, <3>6
      <3>. QED BY ONLY <2>1, <3>5, <3>7, <3>8
    <2>. QED BY <2>2, <2>3
  <1>7. CASE ~(i > Len(tree[b]))
    <2>1. i \in DOMAIN tree[b]
      BY <1>1, <1>3, <1>7
    <2>2. PICK s : s = tree[b][i]
      OBVIOUS
    <2>3. Silently(tree, p, visible) \subseteq {<<b, i + 1>>} \cup {<<c, 1>> : c \in SubBlocks(s)}
      BY <1>1, <1>7, <2>2 DEF Silently
    <2>4. \A c \in SubBlocks(s) : c \in Parts(tree)
      BY <1>1, <2>1, <2>2, PartsProps
    <2>. QED BY <1>1, <1>4, <1>5, <2>1, <2>3, <2>4
  <1>. QED BY <1>6, <1>7

\* NextStatements has all that may come from a position it starts with, or from
\* one from which control goes there.
LEMMA ComingIsNext ==
    ASSUME NEW tree \in Tree, Shape(tree), NEW visible, NEW p,
           NEW first, first = IF p[1] = 0 THEN {<<Root, 1>>} ELSE AfterLeaf(tree, p),
           first \subseteq Spots(tree), NEW q \in Spots(tree),
           q \in first \/ (q \notin Shown(tree, visible) /\ Silently(tree, q, visible) \subseteq first)
    PROVE  Coming(tree, visible, q) \subseteq NextStatements(tree, p, visible)
  <1>. DEFINE P == Spots(tree)
              G == [x \in P |-> Silently(tree, x, visible)]
              positions == UNION {{b} \X (1..(Len(tree[b]) + 1)) : b \in Block}
              n == Cardinality(positions)
              More(X) == X \cup UNION {Silently(tree, x, visible) : x \in X}
              Of(f) == [i \in 0..n |-> IF i = 0 THEN first ELSE More(f[i - 1])]
              reached == CHOOSE f : f = Of(f)
  <1>1. positions = Places(tree) /\ IsFiniteSet(positions) /\ P \subseteq positions
    BY PlacesProps DEF Places, Spots
  <1>2. n \in Nat /\ IsFiniteSet(P) /\ Cardinality(P) <= n
    <2>. HIDE DEF positions, P
    <2>. QED BY <1>1, FS_Subset, FS_CardinalityType
  <1>3. G \in [P -> SUBSET P] /\ \A x \in P : G[x] = Silently(tree, x, visible)
    <2>1. \A x \in P : Silently(tree, x, visible) \subseteq P
      BY SpotsStay
    <2>. HIDE DEF P
    <2>. QED BY <2>1
  <1>4. NextStatements(tree, p, visible) =
            {x \in reached[n] : x[2] \in DOMAIN tree[x[1]] /\ tree[x[1]][x[2]].kind \in visible}
    BY DEF NextStatements
  <1>. HIDE DEF P, positions, n, G
  <1>5. PICK r : Growing(P, first, G, n, r)
    <2>1. first \in SUBSET P
      BY DEF P
    <2>. QED BY <1>2, <1>3, <2>1, GrowingExists
  <1>6. \A X \in SUBSET P : More(X) = X \cup UNION {G[x] : x \in X}
    <2>1. TAKE X \in SUBSET P
    <2>2. {Silently(tree, x, visible) : x \in X} = {G[x] : x \in X}
      BY <1>3
    <2>. QED BY <2>2
  <1>. HIDE DEF More
  <1>7. r = Of(r)
    <2>1. r \in [0..n -> SUBSET P]
      BY <1>5 DEF Growing
    <2>2. ASSUME NEW i \in 0..n PROVE r[i] = IF i = 0 THEN first ELSE More(r[i - 1])
      <3>1. CASE i = 0
        BY <1>5, <3>1 DEF Growing
      <3>2. CASE i # 0
        <4>1. i \in 1..n /\ i - 1 \in 0..n
          BY <1>2, <3>2
        <4>2. r[i] = r[i - 1] \cup UNION {G[x] : x \in r[i - 1]}
          BY <1>5, <4>1 DEF Growing
        <4>3. r[i - 1] \in SUBSET P
          BY <2>1, <4>1
        <4>. QED BY <1>6, <3>2, <4>2, <4>3
      <3>. QED BY <3>1, <3>2
    <2>. QED BY <2>1, <2>2
  <1>8. reached = Of(reached)
    <2>. HIDE DEF Of
    <2>. QED BY <1>7
  <1>9. \A i \in 0..n : reached[i] = IF i = 0 THEN first ELSE More(reached[i - 1])
    <2>. HIDE DEF reached
    <2>. QED BY <1>8
  <1>10. \A i \in 0..n : r[i] = IF i = 0 THEN first ELSE More(r[i - 1])
    BY <1>7
  <1>. HIDE DEF reached, Of
  <1>11. \A i \in 0..n : reached[i] = r[i]
    <2>. DEFINE Bad == {i \in 0..n : reached[i] # r[i]}
    <2>1. SUFFICES ASSUME Bad # {} PROVE FALSE
      OBVIOUS
    <2>2. Bad \in SUBSET Nat
      BY <1>2
    <2>3. PICK m \in Bad : \A x \in Bad : m <= x
      <3>. HIDE DEF Bad
      <3>. QED BY <2>1, <2>2, LeastNumber
    <2>4. m # 0 /\ m \in 0..n /\ m \in Nat
      BY <1>2, <1>9, <1>10
    <2>5. PICK j : j = m - 1
      OBVIOUS
    <2>6. j \in 0..n /\ j < m /\ j \in Nat
      BY <1>2, <2>4, <2>5
    <2>7. reached[j] = r[j]
      BY <1>2, <2>3, <2>4, <2>6
    <2>8. reached[m] = More(reached[j]) /\ r[m] = More(r[j])
      BY ONLY <1>9, <1>10, <2>4, <2>5
    <2>9. reached[m] = r[m]
      BY ONLY <2>7, <2>8
    <2>. QED BY <2>9
  <1>12. n \in 0..n
    BY <1>2
  <1>13. PICK K : K = r[n]
    OBVIOUS
  <1>14. K \in SUBSET P /\ first \subseteq K /\ \A x \in K : G[x] \subseteq K
    <2>1. first \in SUBSET P
      BY DEF P
    <2>2. /\ G \in [P -> SUBSET P] /\ IsFiniteSet(P)
          /\ n \in Nat /\ Cardinality(P) <= n /\ Growing(P, first, G, n, r)
      BY ONLY <1>2, <1>3, <1>5
    <2>3. /\ r[n] \in SUBSET P /\ first \subseteq r[n]
          /\ \A x \in r[n] : G[x] \subseteq r[n]
      BY ONLY <2>1, <2>2, GrowingIsClosed
    <2>. QED BY ONLY <1>13, <2>3
  <1>15. Keeps(tree, visible, K)
    BY <1>3, <1>14 DEF Keeps
  <1>16. reached[n] = K
    BY <1>11, <1>12, <1>13
  <1>17. ASSUME NEW v \in Coming(tree, visible, q) PROVE v \in NextStatements(tree, p, visible)
    <2>1. v \in Shown(tree, visible)
      BY DEF Coming
    <2>2. v[2] \in DOMAIN tree[v[1]] /\ tree[v[1]][v[2]].kind \in visible
      BY <2>1 DEF Shown
    <2>3. PICK M : M = K \cup {q}
      OBVIOUS
    <2>4. M \in SUBSET Spots(tree) /\ q \in M
      BY <1>14, <2>3 DEF P
    <2>5. Keeps(tree, visible, M)
      BY <1>14, <1>15, <2>3 DEF Keeps
    <2>6. v \in M
      BY <2>4, <2>5 DEF Coming
    <2>7. v \in K
      BY <1>14, <2>1, <2>3, <2>6
    <2>. QED BY <1>4, <1>16, <2>2, <2>7
  <1>. QED BY <1>17

\* What may come from where control goes may come.
LEMMA ComingSteps ==
    ASSUME NEW tree, NEW visible, NEW p, NEW q \in Silently(tree, p, visible)
    PROVE  Coming(tree, visible, q) \subseteq Coming(tree, visible, p)
  BY DEF Coming, Keeps

Ahead(tree, visible, b, i) == Coming(tree, visible, <<b, i>>)

AtEnd(tree, visible, b)   == Coming(tree, visible, <<b, Len(tree[b]) + 1>>)

Leaves(visible) == visible \subseteq LeafKind /\ {"decl", "plain", "return"} \cup ExitKind \subseteq visible

\* The paths at a statement that has blocks.
OwnerPaths(tree, visible, b, i, s) ==
    /\ \A c \in SubBlocks(s) : Ahead(tree, visible, c, 1) \subseteq Ahead(tree, visible, b, i)
    /\ MaySkip(s) => Ahead(tree, visible, b, i + 1) \subseteq Ahead(tree, visible, b, i)
    /\ IsLoop(s) => Ahead(tree, visible, s.body, 1) \subseteq AtEnd(tree, visible, s.body)
    /\ IsLoop(s) /\ MayExit(s) => Ahead(tree, visible, b, i + 1) \subseteq AtEnd(tree, visible, s.body)
    /\ ~IsLoop(s) => \A c \in SubBlocks(s) :
           Ahead(tree, visible, b, i + 1) \subseteq AtEnd(tree, visible, c)

\* A statement with blocks has them.
LEMMA OwnerHasPaths ==
    ASSUME NEW tree \in Tree, Shape(tree), NEW visible, Leaves(visible), NEW b \in Block,
           NEW i \in DOMAIN tree[b], NEW s, s = tree[b][i], s.kind \notin LeafKind
    PROVE  OwnerPaths(tree, visible, b, i, s)
  <1>1. Len(tree[b]) \in Nat /\ i \in 1..Len(tree[b])
    BY PlacesProps
  <1>2. s.kind \notin visible
    BY DEF Leaves
  <1>3. PICK p : p = <<b, i>>
    OBVIOUS
  <1>4. ~(p[2] > Len(tree[p[1]])) /\ tree[p[1]][p[2]] = s
    BY <1>1, <1>3
  <1>5. Silently(tree, p, visible) = {<<c, 1>> : c \in SubBlocks(s)}
            \cup (IF MaySkip(s) THEN {<<b, i + 1>>} ELSE {})
    BY <1>2, <1>3, <1>4 DEF Silently
  <1>6. ASSUME NEW c \in SubBlocks(s)
        PROVE  Ahead(tree, visible, c, 1) \subseteq Ahead(tree, visible, b, i)
    <2>1. <<c, 1>> \in Silently(tree, p, visible)
      BY <1>5
    <2>. QED BY <1>3, <2>1, ComingSteps DEF Ahead
  <1>7. ASSUME MaySkip(s) PROVE Ahead(tree, visible, b, i + 1) \subseteq Ahead(tree, visible, b, i)
    <2>1. <<b, i + 1>> \in Silently(tree, p, visible)
      BY <1>5, <1>7
    <2>. QED BY <1>3, <2>1, ComingSteps DEF Ahead
  <1>8. ASSUME NEW c \in SubBlocks(s), NEW q, q \in AfterBlock(tree, c)
        PROVE  Coming(tree, visible, q) \subseteq AtEnd(tree, visible, c)
    <2>1. c \in Block
      BY PartsProps
    <2>2. Len(tree[c]) \in Nat
      BY <2>1, PlacesProps
    <2>3. PICK n : n = Len(tree[c]) + 1
      OBVIOUS
    <2>4. PICK e : e = <<c, n>>
      OBVIOUS
    <2>5. e[1] = c /\ e[2] > Len(tree[c])
      BY <2>2, <2>3, <2>4
    <2>6. Silently(tree, e, visible) = AfterBlock(tree, c)
      BY <2>5 DEF Silently
    <2>7. Coming(tree, visible, q) \subseteq Coming(tree, visible, e)
      BY <1>8, <2>6, ComingSteps
    <2>. QED BY ONLY <2>3, <2>4, <2>7 DEF AtEnd
  <1>9. ASSUME NEW c \in SubBlocks(s)
        PROVE  AfterBlock(tree, c) = IF IsLoop(s) THEN {<<s.body, 1>>} \cup
                                                       (IF MayExit(s) THEN {<<b, i + 1>>} ELSE {})
                                                  ELSE {<<b, i + 1>>}
    <2>1. c # Root /\ Owner(tree, c) = p
      BY <1>3, PartsProps
    <2>2. p[1] = b /\ p[2] = i
      BY <1>3
    <2>. QED BY <1>4, <2>1, <2>2 DEF AfterBlock
  <1>10. IsLoop(s) => s.body \in SubBlocks(s)
    <2>1. s \in Stat
      BY StatsOfTree
    <2>. QED BY <2>1 DEF Stat, IsLoop, LoopKind, LeafKind, ExitKind, SubBlocks
  <1>11. IsLoop(s) => Ahead(tree, visible, s.body, 1) \subseteq AtEnd(tree, visible, s.body)
    <2>1. IsLoop(s) => <<s.body, 1>> \in AfterBlock(tree, s.body)
      BY <1>9, <1>10
    <2>. QED BY <1>8, <1>10, <2>1 DEF Ahead
  <1>12. IsLoop(s) /\ MayExit(s) => Ahead(tree, visible, b, i + 1) \subseteq AtEnd(tree, visible, s.body)
    <2>1. IsLoop(s) /\ MayExit(s) => <<b, i + 1>> \in AfterBlock(tree, s.body)
      BY <1>9, <1>10
    <2>. QED BY <1>8, <1>10, <2>1 DEF Ahead
  <1>13. ASSUME ~IsLoop(s), NEW c \in SubBlocks(s)
         PROVE  Ahead(tree, visible, b, i + 1) \subseteq AtEnd(tree, visible, c)
    <2>1. <<b, i + 1>> \in AfterBlock(tree, c)
      BY <1>9, <1>13
    <2>. QED BY <1>8, <2>1 DEF Ahead
  <1>. QED BY ONLY <1>6, <1>7, <1>11, <1>12, <1>13 DEF OwnerPaths

\* The paths at a statement without blocks.
LeafPaths(tree, visible, b, i, s) ==
    LET p    == <<b, i>>
        Next2 == NextStatements(tree, p, visible)
    IN /\ s.kind \in visible => p \in Ahead(tree, visible, b, i)
       /\ s.kind \notin visible => Ahead(tree, visible, b, i + 1) \subseteq Ahead(tree, visible, b, i)
       /\ s.kind \in {"decl", "plain", "free"} => Ahead(tree, visible, b, i + 1) \subseteq Next2
       /\ s.kind \in ExitKind => \A c \in Parts(tree) : \A j \in DOMAIN tree[c] :
             LoopAround(tree, b) \in SubBlocks(tree[c][j]) =>
                /\ s.kind = "break" => Ahead(tree, visible, c, j + 1) \subseteq Next2
                /\ s.kind = "continue" => AtEnd(tree, visible, LoopAround(tree, b)) \subseteq Next2

\* A leaf has them.
LEMMA LeafHasPaths ==
    ASSUME NEW tree \in Tree, Shape(tree), NEW visible, Leaves(visible), NEW b \in Parts(tree),
           NEW i \in DOMAIN tree[b], NEW s, s = tree[b][i], s.kind \in LeafKind
    PROVE  LeafPaths(tree, visible, b, i, s)
  <1>0. b \in Block /\ b # 0
    BY PartsProps DEF Block
  <1>1. Len(tree[b]) \in Nat /\ i \in 1..Len(tree[b]) /\ DOMAIN tree[b] = 1..Len(tree[b])
    BY <1>0, PlacesProps
  <1>2. PICK p : p = <<b, i>>
    OBVIOUS
  <1>3. p[1] = b /\ p[2] = i
    BY <1>2
  <1>4. ~(p[2] > Len(tree[p[1]])) /\ tree[p[1]][p[2]] = s
    BY <1>1, <1>3
  <1>5. i \in 1..(Len(tree[b]) + 1) /\ i + 1 \in 1..(Len(tree[b]) + 1)
    BY <1>1
  <1>6. p \in Places(tree) /\ <<b, i + 1>> \in Spots(tree)
    BY <1>0, <1>2, <1>5, PlacesProps DEF Spots
  <1>7. s.kind \in visible => p \in Coming(tree, visible, p)
    <2>1. s.kind \in visible => p \in Shown(tree, visible)
      BY <1>3, <1>6 DEF Shown
    <2>. QED BY <2>1 DEF Coming
  <1>8. s.kind \notin visible => Ahead(tree, visible, b, i + 1) \subseteq Coming(tree, visible, p)
    <2>1. s.kind \notin visible => <<b, i + 1>> \in Silently(tree, p, visible)
      BY <1>3, <1>4 DEF Silently
    <2>. QED BY <2>1, ComingSteps DEF Ahead
  <1>9. PICK first : first = AfterLeaf(tree, p)
    OBVIOUS
  <1>10. first = IF p[1] = 0 THEN {<<Root, 1>>} ELSE AfterLeaf(tree, p)
    BY <1>0, <1>3, <1>9
  <1>11. ASSUME s.kind \in {"decl", "plain", "free"}
         PROVE  Ahead(tree, visible, b, i + 1) \subseteq NextStatements(tree, p, visible)
    <2>1. first = {<<b, i + 1>>}
      BY <1>3, <1>9, <1>11 DEF AfterLeaf
    <2>. QED BY <1>6, <1>10, <2>1, ComingIsNext DEF Ahead
  <1>12. ASSUME s.kind \in ExitKind, NEW c \in Parts(tree), NEW j \in DOMAIN tree[c],
                NEW l, l = LoopAround(tree, b), l \in SubBlocks(tree[c][j])
         PROVE  /\ s.kind = "break" =>
                      Ahead(tree, visible, c, j + 1) \subseteq NextStatements(tree, p, visible)
                /\ s.kind = "continue" =>
                      AtEnd(tree, visible, l) \subseteq NextStatements(tree, p, visible)
    <2>1. PICK o : o = <<c, j>>
      OBVIOUS
    <2>2. Owner(tree, l) = o /\ o[1] = c /\ o[2] = j /\ l \in Parts(tree) /\ c \in Block
      BY <1>12, <2>1, PartsProps
    <2>3. Len(tree[c]) \in Nat /\ j \in 1..Len(tree[c])
      BY <2>2, PlacesProps
    <2>4. <<c, j + 1>> \in Spots(tree)
      BY <2>2, <2>3, PlacesProps DEF Spots
    <2>5. ASSUME s.kind = "break"
          PROVE  Ahead(tree, visible, c, j + 1) \subseteq NextStatements(tree, p, visible)
      <3>1. first = {<<c, j + 1>>}
        BY <1>3, <1>9, <1>12, <2>2, <2>5 DEF AfterLeaf
      <3>. QED BY <1>10, <2>4, <3>1, ComingIsNext DEF Ahead
    <2>6. ASSUME s.kind = "continue"
          PROVE  AtEnd(tree, visible, l) \subseteq NextStatements(tree, p, visible)
      <3>1. first = AfterBlock(tree, l)
        BY <1>3, <1>9, <1>12, <2>6 DEF AfterLeaf
      <3>2. l \in Block
        BY <2>2, PartsProps
      <3>3. PICK n \in Nat : n = Len(tree[l]) /\ DOMAIN tree[l] = 1..n
        BY <3>2, PlacesProps
      <3>4. PICK e : e = <<l, n + 1>>
        OBVIOUS
      <3>5. e[1] = l /\ e[2] = n + 1 /\ n + 1 > n /\ n + 1 \in 1..(n + 1) /\ n + 1 \notin 1..n
        BY <3>4
      <3>6. e \in Spots(tree)
        BY <2>2, <3>2, <3>3, <3>4, <3>5, PlacesProps DEF Spots
      <3>7. Silently(tree, e, visible) = first
        BY <3>1, <3>3, <3>5 DEF Silently
      <3>8. e \notin Shown(tree, visible)
        BY <3>3, <3>5 DEF Shown
      <3>9. first \subseteq Spots(tree)
        BY <3>6, <3>7, SpotsStay
      <3>10. Coming(tree, visible, e) \subseteq NextStatements(tree, p, visible)
        BY <1>10, <3>6, <3>7, <3>8, <3>9, ComingIsNext
      <3>. QED BY <3>3, <3>4, <3>10 DEF AtEnd
    <2>. QED BY <2>5, <2>6
  <1>13. \A c \in Parts(tree) : \A j \in DOMAIN tree[c] :
             s.kind \in ExitKind /\ LoopAround(tree, b) \in SubBlocks(tree[c][j]) =>
                /\ s.kind = "break" =>
                      Ahead(tree, visible, c, j + 1) \subseteq NextStatements(tree, p, visible)
                /\ s.kind = "continue" =>
                      AtEnd(tree, visible, LoopAround(tree, b)) \subseteq NextStatements(tree, p, visible)
    BY <1>12
  <1>. QED BY ONLY <1>2, <1>7, <1>8, <1>11, <1>13 DEF LeafPaths, Ahead

\* What may come first.
LEMMA StartHasPaths ==
    ASSUME NEW tree \in Tree, Shape(tree), NEW visible
    PROVE  Ahead(tree, visible, Root, 1) \subseteq NextStatements(tree, NoStat, visible)
  <1>1. PICK p : p = NoStat
    OBVIOUS
  <1>2. p[1] = 0
    BY <1>1 DEF NoStat
  <1>3. PICK first : first = {<<Root, 1>>}
    OBVIOUS
  <1>4. first = IF p[1] = 0 THEN {<<Root, 1>>} ELSE AfterLeaf(tree, p)
    BY <1>2, <1>3
  <1>5. Len(tree[Root]) \in Nat
    BY RootIsBlock, PlacesProps
  <1>6. 1 \in 1..(Len(tree[Root]) + 1)
    BY <1>5
  <1>7. <<Root, 1>> \in Spots(tree)
    BY <1>6, RootIsBlock, PlacesProps, PartsProps DEF Spots
  <1>. QED BY <1>1, <1>3, <1>4, <1>7, ComingIsNext DEF Ahead

-----------------------------------------------------------------------------
(* The loop an exit leaves.                                                *)

\* The loops around a block have the bodies that come before it.
LEMMA SurroundingBefore ==
    ASSUME NEW tree \in Tree, Shape(tree)
    PROVE  \A b \in Block : \A x \in LoopsAround(tree, b) : x \in Block /\ x < b
  <1>1. PICK S : S = Surrounding(tree)
    OBVIOUS
  <1>2. /\ \A b \in Block : \A x : x \in S[b] <=> \E o \in Owners(tree, b) :
              x \in S[o[1]] \/ (IsLoop(tree[o[1]][o[2]]) /\ x = b)
        /\ \A b \in Block : LoopsAround(tree, b) = S[b] \ {b}
    BY ONLY <1>1, SurroundingDef, tree \in Tree
  <1>3. \A b \in Block : b \in Nat
    BY MaxBlocksAssumption DEF Block
  <1>4. \A b \in Block : \A o \in Owners(tree, b) : o[1] \in Block /\ o[1] < b
    BY OwnersDef DEF Shape, ParentsFirst
  <1>. DEFINE Bad == {b \in Block : \E x \in S[b] : ~(x \in Block /\ x <= b)}
  <1>5. Bad = {}
    <2>. SUFFICES ASSUME Bad # {} PROVE FALSE
      OBVIOUS
    <2>1. Bad \subseteq Nat
      BY <1>3
    <2>2. PICK b \in Bad : \A d \in Bad : b <= d
      BY <2>1, LeastNumber
    <2>3. b \in Block
      OBVIOUS
    <2>4. PICK x \in S[b] : ~(x \in Block /\ x <= b)
      OBVIOUS
    <2>5. PICK o \in Owners(tree, b) : x \in S[o[1]] \/ (IsLoop(tree[o[1]][o[2]]) /\ x = b)
      BY <1>2, <2>3, <2>4
    <2>6. PICK c : c = o[1]
      OBVIOUS
    <2>7. c \in Block /\ c < b
      BY <1>4, <2>3, <2>6
    <2>8. x # b
      BY <1>3, <2>3, <2>4
    <2>9. x \in S[c]
      BY <2>5, <2>6, <2>8
    <2>10. b \in Nat /\ c \in Nat
      BY <1>3, <2>3, <2>7
    <2>11. c \notin Bad
      BY <2>2, <2>7, <2>10
    <2>12. x \in Block /\ x <= c
      BY <2>7, <2>9, <2>11
    <2>. QED BY <1>3, <2>4, <2>7, <2>10, <2>12
  <1>6. ASSUME NEW b \in Block, NEW x \in LoopsAround(tree, b) PROVE x \in Block /\ x < b
    <2>1. x \in S[b] /\ x # b
      BY <1>2
    <2>2. x \in Block /\ x <= b
      BY <1>5, <2>1
    <2>. QED BY <1>3, <2>1, <2>2
  <1>. QED BY <1>6

\* Which is why the loops of a turn tell whose it is.
LEMMA TurnIsOf ==
    ASSUME NEW tree \in Tree, Shape(tree), NEW l \in Block, NEW x \in Block,
           Turn(tree, l) = Turn(tree, x)
    PROVE  l = x
  <1>1. \A b \in Block : b \in Nat
    BY MaxBlocksAssumption DEF Block
  <1>2. /\ \A y \in LoopsAround(tree, l) : y \in Block /\ y < l
        /\ \A y \in LoopsAround(tree, x) : y \in Block /\ y < x
    BY SurroundingBefore
  <1>3. l = x \/ l < x
    BY <1>1, <1>2 DEF Turn
  <1>4. l = x \/ x < l
    BY <1>1, <1>2 DEF Turn
  <1>. QED BY <1>1, <1>3, <1>4

\* The loop around a block, if there is one.
LoopIs(tree, E, Z, b) ==
    /\ b \in Z
    /\ \/ Loops(tree)[b] = {} /\ E[b] = {}
       \/ \E x \in Block : Loops(tree)[b] = {x} /\ E[b] = Turn(tree, x)

\* Every block of the subroutine has one or none.
LEMMA LoopsKnown ==
    ASSUME NEW tree \in Tree, Shape(tree), NEW E, NEW Z, LoopFacts(tree, E, Z)
    PROVE  \A b \in Parts(tree) : LoopIs(tree, E, Z, b)
  <1>1. \A b \in Block : b \in Nat
    BY MaxBlocksAssumption DEF Block
  <1>2. PICK L : L = Loops(tree)
    OBVIOUS
  <1>3. /\ L[Root] = {}
        /\ \A c \in Block : \A j \in DOMAIN tree[c] : \A b \in SubBlocks(tree[c][j]) :
              L[b] = IF IsLoop(tree[c][j]) THEN {b} ELSE L[c]
    BY <1>2, LoopAroundProps DEF Shape
  <1>4. PICK P : P = Parts(tree)
    OBVIOUS
  <1>5. /\ P \subseteq Block
        /\ \A c \in Block : \A j \in DOMAIN tree[c] : \A b \in SubBlocks(tree[c][j]) : b \in Block /\ c < b
        /\ \A b \in P : b # Root => \E c \in P : \E j \in DOMAIN tree[c] : b \in SubBlocks(tree[c][j])
    BY <1>4, PartsProps
  <1>. DEFINE Bad == {b \in P : ~LoopIs(tree, E, Z, b)}
  <1>6. Bad = {}
    <2>. SUFFICES ASSUME Bad # {} PROVE FALSE
      OBVIOUS
    <2>1. Bad \subseteq Nat
      BY <1>1, <1>5
    <2>2. PICK b \in Bad : \A d \in Bad : b <= d
      BY <2>1, LeastNumber
    <2>3. b \in P /\ ~LoopIs(tree, E, Z, b)
      OBVIOUS
    <2>4. b # Root
      BY <1>2, <1>3, <2>3 DEF LoopIs, LoopFacts
    <2>5. PICK c \in P : \E j \in DOMAIN tree[c] : b \in SubBlocks(tree[c][j])
      BY <1>5, <2>3, <2>4
    <2>6. PICK j \in DOMAIN tree[c] : b \in SubBlocks(tree[c][j])
      BY <2>5
    <2>7. c \in Block /\ b \in Block /\ c < b /\ b \in Nat /\ c \in Nat
      BY <1>1, <1>5, <2>6
    <2>8. LoopIs(tree, E, Z, c)
      <3>1. c \notin Bad
        BY <2>2, <2>7
      <3>. QED BY <3>1
    <2>9. L[b] = IF IsLoop(tree[c][j]) THEN {b} ELSE L[c]
      BY <1>3, <2>6, <2>7
    <2>10. /\ b \in Z
           /\ IsLoop(tree[c][j]) => E[b] = Turn(tree, b)
           /\ ~IsLoop(tree[c][j]) => E[b] = E[c]
      BY <2>6, <2>8 DEF LoopFacts, LoopIs
    <2>11. LoopIs(tree, E, Z, b)
      <3>1. CASE IsLoop(tree[c][j])
        <4>1. L[b] = {b} /\ E[b] = Turn(tree, b) /\ b \in Z
          BY ONLY <2>9, <2>10, <3>1
        <4>. QED BY ONLY <1>2, <2>7, <4>1 DEF LoopIs
      <3>2. CASE ~IsLoop(tree[c][j])
        <4>1. L[b] = L[c] /\ E[b] = E[c] /\ b \in Z
          BY ONLY <2>9, <2>10, <3>2
        <4>. QED BY ONLY <1>2, <2>8, <4>1 DEF LoopIs
      <3>. QED BY <3>1, <3>2
    <2>. QED BY <2>3, <2>11
  <1>. QED BY <1>4, <1>6

\* Where all the loops of a turn are saved, the loop around is its loop.
LEMMA LoopAroundIs ==
    ASSUME NEW tree \in Tree, Shape(tree), NEW E, NEW Z, LoopFacts(tree, E, Z),
           NEW b \in Parts(tree), NEW l \in Block, E[b] = Turn(tree, l)
    PROVE  LoopAround(tree, b) = l
  <1>1. LoopIs(tree, E, Z, b)
    BY LoopsKnown
  <1>2. E[b] # {}
    BY DEF Turn
  <1>3. PICK x \in Block : Loops(tree)[b] = {x} /\ E[b] = Turn(tree, x)
    BY <1>1, <1>2 DEF LoopIs
  <1>4. x = l
    BY <1>3, TurnIsOf
  <1>5. b \in Block
    BY PartsProps
  <1>6. \A c \in Block : Loops(tree)[b] = {c} => LoopAround(tree, b) = c
    BY <1>5, LoopAroundProps DEF Shape
  <1>. QED BY <1>3, <1>4, <1>6

\* The blocks the walk is in are blocks of the subroutine.
LEMMA FramesInParts ==
    ASSUME NEW tree \in Tree, Shape(tree), NEW Y, NEW fs, ChainOK(tree, Y, fs)
    PROVE  \A k \in 1..Len(fs) : fs[k].block \in Parts(tree)
  <1>1. fs \in Seq(CFrame) /\ Len(fs) \in Nat /\ fs[1].block = Root
    BY DEF ChainOK
  <1>2. PICK P : P = Parts(tree)
    OBVIOUS
  <1>3. /\ P \subseteq Block /\ Root \in P
        /\ \A c \in Block : \A j \in DOMAIN tree[c] : \A b \in SubBlocks(tree[c][j]) : b \in P <=> c \in P
    BY <1>2, PartsProps
  <1>. DEFINE Bad == {k \in 1..Len(fs) : fs[k].block \notin P}
  <1>4. Bad = {}
    <2>. SUFFICES ASSUME Bad # {} PROVE FALSE
      OBVIOUS
    <2>1. PICK k \in Bad : \A j \in Bad : k <= j
      <3>1. Bad \subseteq Nat
        OBVIOUS
      <3>. QED BY <3>1, LeastNumber
    <2>2. k \in 1..Len(fs) /\ fs[k].block \notin P
      OBVIOUS
    <2>3. k # 1
      BY <1>1, <1>3, <2>2
    <2>4. PICK j : j = k - 1
      OBVIOUS
    <2>5. j \in 1..Len(fs) /\ j + 1 = k /\ j < Len(fs) /\ j < k /\ k \in Nat
      BY <1>1, <2>2, <2>3, <2>4
    <2>6. PICK f : f = fs[j]
      OBVIOUS
    <2>7. f \in CFrame /\ f.block \in P
      <3>1. j \notin Bad
        BY ONLY <2>1, <2>5
      <3>. QED BY <1>1, <2>5, <2>6, <3>1
    <2>8. f.visiting # 0 /\ Inside(tree, f) /\ fs[k].block = Child(tree, f)
      BY <2>5, <2>6 DEF ChainOK
    <2>9. f.pc \in DOMAIN tree[f.block]
      <3>1. f.pc \in Nat \ {0} /\ f.block \in Block
        BY <2>7 DEF CFrame
      <3>2. f.pc <= Len(tree[f.block])
        BY <2>8 DEF Inside, InRange
      <3>3. tree[f.block] \in Seq(Stat)
        BY <3>1 DEF Tree
      <3>. QED BY <3>1, <3>2, <3>3
    <2>10. PICK s : s = tree[f.block][f.pc]
      OBVIOUS
    <2>11. f.block \in Block
      BY <2>7 DEF CFrame
    <2>12. s \in Stat /\ s.kind \notin LeafKind
      <3>1. s \in Stat
        BY <2>9, <2>10, <2>11, StatsOfTree
      <3>. QED BY <2>8, <2>10, <3>1 DEF Inside, StatAt
    <2>13. s.body \in SubBlocks(s) /\ (s.alt # NoBlock => s.alt \in SubBlocks(s))
      BY <2>12, BodyIsSubBlock
    <2>14. fs[k].block \in SubBlocks(s)
      BY <2>8, <2>10, <2>13 DEF Child, Inside, StatAt
    <2>. QED BY <1>3, <2>2, <2>7, <2>9, <2>10, <2>11, <2>14
  <1>. QED BY <1>2, <1>4

-----------------------------------------------------------------------------
(* What the operations of a block may be followed by.                      *)

\* More blocks.
MoreLabels(env, env2) == \A c \in DOMAIN env : c \in DOMAIN env2 /\ env2[c] = env[c]

-----------------------------------------------------------------------------
(* The block of the insertion point: what is behind the insertion point    *)
(* comes from elsewhere than what is in front of it.                       *)

\* Inserting between the two.
LEMMA PutParts ==
    ASSUME NEW x, IsSeq(x), NEW y, IsSeq(y), NEW new, IsSeq(new), NEW s, s = x \o y
    PROVE  Put(s, Len(y), new) = (x \o new) \o y
  <1>1. PICK S : x \in Seq(S) /\ y \in Seq(S)
    BY SameUniverse
  <1>2. PICK k \in Nat : k = Len(x)
    BY <1>1
  <1>3. PICK n \in Nat : n = Len(y)
    BY <1>1
  <1>4. s \in Seq(S) /\ Len(s) = k + n /\ (\A i \in 1..k : s[i] = x[i]) /\ \A i \in 1..n : s[k + i] = y[i]
    BY ONLY <1>1, <1>2, <1>3, ConcatAt, s = x \o y
  <1>5. (k + n) - n = k
    BY <1>2, <1>3
  <1>6. SubSeq(s, 1, k) = x
    <2>1. PICK t : t = SubSeq(s, 1, k)
      OBVIOUS
    <2>2. t \in Seq(S) /\ Len(t) = k /\ \A i \in 1..k : t[i] = s[i]
      BY <1>2, <1>3, <1>4, <2>1
    <2>3. \A i \in 1..k : t[i] = x[i]
      BY ONLY <1>4, <2>2
    <2>4. t = x
      BY <1>1, <1>2, <2>2, <2>3
    <2>. QED BY ONLY <2>1, <2>4
  <1>7. PICK t : t = SubSeq(s, Len(s) - n + 1, Len(s))
    OBVIOUS
  <1>8. t = y
    <2>1. t \in Seq(S)
      BY <1>3, <1>4, <1>7
    <2>2. Len(t) = n
      BY <1>2, <1>3, <1>4, <1>7
    <2>3. \A i \in 1..n : t[i] = s[(Len(s) - n) + i]
      BY <1>2, <1>3, <1>4, <1>7
    <2>4. \A i \in 1..n : t[i] = y[i]
      <3>1. Len(s) - n = k
        BY ONLY <1>4, <1>5
      <3>. QED BY ONLY <1>4, <2>3, <3>1
    <2>5. y \in Seq(S) /\ Len(t) = Len(y) /\ \A i \in 1..Len(y) : t[i] = y[i]
      BY ONLY <1>1, <1>3, <2>2, <2>4
    <2>. QED BY ONLY <2>1, <2>5
  <1>9. Len(s) - n = k
    BY ONLY <1>4, <1>5
  <1>10. Put(s, n, new) = SubSeq(s, 1, Len(s) - n) \o new \o t
    BY ONLY <1>7 DEF Put
  <1>. QED BY ONLY <1>3, <1>6, <1>8, <1>9, <1>10

-----------------------------------------------------------------------------
(* The inductive invariant: the labels say what may come, for the blocks,  *)
(* the insertion point, the frames and the entries.                        *)

\* What the branch "in case" goes to.
Default(env, ne) ==
    IF ne = <<>> THEN {}
    ELSE IF Last(ne).back # Null THEN env[Last(ne).back] ELSE env[Last(ne).cont]

\* The loop with the body l, at statement j of block c.
LoopAt(tree, c, j, l) ==
    /\ c \in Parts(tree) /\ j \in DOMAIN tree[c]
    /\ IsLoop(tree[c][j]) /\ l = tree[c][j].body

-----------------------------------------------------------------------------
(* What is emitted.                                                        *)

\* Whose operations they are.
LEMMA OpStats ==
    ASSUME NEW p, NEW l, NEW B
    PROVE  /\ Plain.stat = NoStat /\ OpOf(p).stat = p
           /\ Save(l).stat = NoStat /\ Restore(l).stat = NoStat
           /\ [Restore(l) EXCEPT !.stat = p].stat = p
           /\ Br(B).stat = NoStat /\ Return(p).stat = p /\ Unreachable.stat = NoStat
  BY DEF Plain, OpOf, Save, Restore, Br, Return, Unreachable

-----------------------------------------------------------------------------
(* The end of a body or a branch.                                          *)

\* Inserting behind everything.
LEMMA PutLast ==
    ASSUME NEW s, IsSeq(s), NEW new, IsSeq(new)
    PROVE  Put(s, 0, new) = s \o new
  <1>1. PICK S : s \in Seq(S) /\ new \in Seq(S)
    BY SameUniverse
  <1>2. PICK y : y = <<>>
    OBVIOUS
  <1>3. IsSeq(y) /\ Len(y) = 0
    BY ONLY <1>2, Tuples
  <1>4. s = s \o y
    BY <1>1, <1>2
  <1>5. Put(s, Len(y), new) = (s \o new) \o y
    BY ONLY <1>3, <1>4, IsSeq(s), IsSeq(new), PutParts
  <1>6. (s \o new) \o y = s \o new
    <2>1. s \o new \in Seq(S)
      BY ONLY <1>1
    <2>. QED BY <1>2, <2>1
  <1>. QED BY ONLY <1>3, <1>5, <1>6

=============================================================================
