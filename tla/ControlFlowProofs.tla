------------------------- MODULE ControlFlowProofs -------------------------
(***************************************************************************)
(* Proofs about ControlFlow, for every bound and every choice of statement *)
(* kinds: type correctness, and that an accepted subroutine cannot run off *)
(* its end, cannot reach pruned code, cannot pass a conditional marked     *)
(* terminal and never breaks out of nothing; and that the walks compute    *)
(* the functions Lifetime runs the passes as.                              *)
(***************************************************************************)
EXTENDS PassAgreement, PassLemmas

-----------------------------------------------------------------------------
(* Type correctness.                                                       *)

\* What the steps every walk is made of do to the walk's own state.
LEMMA WalkStepTypes ==
    ASSUME TypeOK, pass \in Pass, frames # <<>>
    PROVE  /\ Top(frames) \in Frame
           /\ AtStat => Here \in Stat
           /\ AtStat /\ Pending(Here) # {} /\ Descend =>
                frames' \in Seq(Frame) /\ pass' = pass /\ visited' = visited
           /\ NextStat => frames' \in Seq(Frame) /\ pass' = pass /\ visited' = visited
           /\ \A p \in Phase : LeaveBlock(p) =>
                /\ frames' \in Seq(Frame)
                /\ pass' \in {pass, p}
                /\ visited' \in [Pass -> SUBSET Block]
           /\ AtStat /\ Prune => stat_nodes' \in Tree
  <1>. USE DEF TypeOK
  <1>1. Top(frames) \in Frame
    BY TopProps
  <1>2. AtStat => Here \in Stat /\ Top(frames).pc \in 1..Len(stat_nodes[Top(frames).block])
    BY <1>1, StatAtProps DEF AtStat, Here, BuilderTypeOK
  <1>3. ASSUME AtStat, Pending(Here) # {}, Descend
        PROVE  frames' \in Seq(Frame) /\ pass' = pass /\ visited' = visited
    <2>. DEFINE b == IF Here.body \in Pending(Here) THEN Here.body ELSE Here.alt
    <2>1. b \in SubBlocks(Here)
      BY <1>3 DEF Pending, SubBlocks
    <2>2. b \in Block
      BY <1>2, <1>3, <2>1, StatProps
    <2>. QED BY <1>3, <2>2, FrameProps, AppendProps DEF Descend
  <1>4. NextStat => frames' \in Seq(Frame) /\ pass' = pass /\ visited' = visited
    BY <1>1, FrameProps, SetTopProps DEF NextStat
  <1>5. ASSUME NEW p \in Phase, LeaveBlock(p)
        PROVE  /\ frames' \in Seq(Frame)
               /\ pass' \in {pass, p}
               /\ visited' \in [Pass -> SUBSET Block]
    <2>1. Pop(frames) \in Seq(Frame)
      BY TopProps
    <2>2. <<Enter(Root)>> \in Seq(Frame)
      BY RootIsBlock, FrameProps
    <2>3. Top(frames).block \in Block
      BY <1>1 DEF Frame
    <2>4. frames' \in Seq(Frame)
      BY <1>5, <2>1, <2>2 DEF LeaveBlock
    <2>5. visited' \in [Pass -> SUBSET Block]
      BY <1>5, <2>3 DEF LeaveBlock
    <2>. QED BY <1>5, <2>4, <2>5 DEF LeaveBlock
  <1>6. ASSUME AtStat, Prune PROVE stat_nodes' \in Tree
    <2>. DEFINE b == Top(frames).block
    <2>1. b \in Block /\ stat_nodes[b] \in Seq(Stat)
      BY <1>1 DEF Frame, BuilderTypeOK, Tree
    <2>2. SubSeq(stat_nodes[b], 1, Top(frames).pc) \in Seq(Stat)
      BY <1>2, <1>6, <2>1
    <2>. QED BY <1>6, <2>1, <2>2 DEF Prune, BuilderTypeOK, Tree
  <1>. QED BY <1>1, <1>2, <1>3, <1>4, <1>5, <1>6

\* A block of a loop, or of the statement the execution is at, is a block.
LEMMA RunTypes ==
    ASSUME TypeOK, pass = "run", run # <<>>
    PROVE  /\ RunFrame \in Frame
           /\ AtRun => RunAt \in Stat
           /\ \A k \in 2..Len(run) :
                /\ k \in 2..(Len(run) + 1)
                /\ IsLoop(StatAt(source, run[k - 1])) /\ InRange(source, run[k - 1])
                     => StatAt(source, run[k - 1]).body \in Block
  <1>. USE DEF TypeOK
  <1>1. RunFrame \in Frame
    BY TopProps DEF RunFrame
  <1>2. AtRun => RunAt \in Stat
    BY <1>1, StatAtProps DEF AtRun, RunAt
  <1>3. ASSUME NEW k \in 2..Len(run), IsLoop(StatAt(source, run[k - 1])),
               InRange(source, run[k - 1])
        PROVE  StatAt(source, run[k - 1]).body \in Block
    <2>1. run[k - 1] \in Frame
      OBVIOUS
    <2>2. StatAt(source, run[k - 1]) \in Stat
      BY <1>3, <2>1, StatAtProps
    <2>3. StatAt(source, run[k - 1]).kind \notin LeafKind
      BY <1>3 DEF IsLoop, LoopKind, LeafKind, ExitKind
    <2>. QED BY <2>2, <2>3, StatProps
  <1>. QED BY <1>1, <1>2, <1>3

-----------------------------------------------------------------------------
(* The inductive invariant.                                                *)

\* A statement no execution completes normally.
Stops(s) == s.kind \in ExitKind \/ GuaranteedReturn(s)

\* A statement through which no break or continue gets out: it is none, and
\* the blocks it owns, unless it is a loop, have been checked.
Confined(s) ==
    /\ s.kind \notin ExitKind
    /\ EntersBlocksOf(s) => SubBlocks(s) \subseteq visited["break_check"]

\* The walks start from the body and stop when its visit returns.
WalkInv ==
    /\ pass \in Pass <=> frames # <<>>
    /\ frames # <<>> => frames[1].block = Root
    /\ pass = "build" => visited["break_check"] = {}
    /\ pass \in {"build", "break_check"} =>
         returns = [b \in Block |-> FALSE] /\ is_terminal = {}

(***************************************************************************)
(* The break check has found every break outside a loop: the blocks it has *)
(* left, and the statements it has passed in those it is inside.           *)
(***************************************************************************)
BreakInv ==
    /\ pass = "break_check" => stat_nodes = source
    /\ \A b \in visited["break_check"] : \A i \in 1..Len(source[b]) : Confined(source[b][i])
    /\ pass = "break_check" =>
         \A k \in 1..Len(frames) : \A i \in 1..Len(source[frames[k].block]) :
            i < frames[k].pc => Confined(source[frames[k].block][i])
    /\ pass \in {"return_check", "break_prune", "run"} => Root \in visited["break_check"]

(***************************************************************************)
(* A block is what was written or a beginning of it; one that was          *)
(* shortened, or whose visit returned true, now ends with a statement no   *)
(* execution completes.                                                    *)
(***************************************************************************)
PrunedWell(b) ==
    /\ Len(stat_nodes[b]) <= Len(source[b])
    /\ \A i \in 1..Len(stat_nodes[b]) : stat_nodes[b][i] = source[b][i]
    /\ returns[b] \/ Len(stat_nodes[b]) < Len(source[b]) =>
         /\ Len(stat_nodes[b]) > 0
         /\ Stops(source[b][Len(stat_nodes[b])])

PruneInv ==
    pass # "build" =>
        /\ \A b \in Block : PrunedWell(b)
        /\ \A at \in is_terminal : /\ at[2] <= Len(source[at[1]])
                                   /\ GuaranteedReturn(source[at[1]][at[2]])
        /\ pass \in {"break_prune", "run"} => returns[Root]

(***************************************************************************)
(* The execution is inside the body, each block inside the statement of    *)
(* the frame below it, has only completed statements that can be           *)
(* completed, and is inside a loop or inside blocks the break check passed.*)
(***************************************************************************)
RunInv ==
    /\ run # <<>> <=> pass = "run"
    /\ run # <<>> => run[1].block = Root
    /\ \A k \in 2..Len(run) :
         /\ InRange(source, run[k - 1])
         /\ run[k].block \in SubBlocks(StatAt(source, run[k - 1]))
    /\ \A k \in 1..Len(run) : \A i \in 1..(run[k].pc - 1) :
         /\ i <= Len(source[run[k].block])
         /\ ~Stops(source[run[k].block][i])
    /\ \A k \in 1..Len(run) :
         run[k].block \in visited["break_check"] \/ \E j \in 2..k : j \in LoopBodies

IInv == TypeOK /\ WalkInv /\ BreakInv /\ PruneInv /\ RunInv

-----------------------------------------------------------------------------
(* Preservation by the steps before the execution.                         *)

\* Nothing runs yet.
LEMMA NotRunning ==
    ASSUME run' = <<>>, pass' # "run"
    PROVE  RunInv'
  BY DEF RunInv

\* Nothing is pruned yet.
LEMMA NotPruned ==
    ASSUME TypeOK', stat_nodes' = source', pass' \notin {"break_prune", "run"},
           returns' = [b \in Block |-> FALSE], is_terminal' = {}
    PROVE  PruneInv'
  BY DEF PruneInv, PrunedWell, TypeOK, BuilderTypeOK, Tree

\* The invariant holds before anything is read.
LEMMA InitIInv == Init => IInv
  <1>. SUFFICES ASSUME Init PROVE IInv
    OBVIOUS
  <1>1. TypeOK
    <2>1. stat_nodes \in Tree
      BY DEF Init, BuilderInit, Tree
    <2>2. open \in Seq(Block) /\ used \in Block
      BY RootIsBlock DEF Init, BuilderInit, Root
    <2>3. returns_value \in BOOLEAN
      BY ASTBuilderAssumption DEF Init, BuilderInit
    <2>4. visited \in [Pass -> SUBSET Block] /\ returns \in [Block -> BOOLEAN]
      BY DEF Init
    <2>. QED BY <2>1, <2>2, <2>3, <2>4 DEF Init, BuilderInit, TypeOK, BuilderTypeOK, Phase, Outcome
  <1>2. visited["break_check"] = {}
    BY DEF Init, Pass
  <1>. QED BY <1>1, <1>2 DEF Init, IInv, WalkInv, BreakInv, PruneInv, RunInv, Pass

\* Reading the text keeps the invariant.
LEMMA BuildingStep ==
    ASSUME IInv, Building
    PROVE  IInv'
  <1>. USE DEF IInv
  <1>1. TypeOK'
    <2>1. BuilderTypeOK'
      BY BuildTypeOK DEF Building, TypeOK
    <2>. QED BY <2>1 DEF TypeOK, Building, walkVars, runVars
  <1>2. WalkInv'
    BY DEF WalkInv, Building, walkVars
  <1>3. BreakInv'
    BY DEF BreakInv, WalkInv, Building, walkVars, Confined
  <1>4. PruneInv' /\ RunInv'
    BY NotRunning DEF Building, walkVars, runVars, PruneInv, RunInv
  <1>. QED BY <1>1, <1>2, <1>3, <1>4

\* Handing the tree to the first pass keeps the invariant.
LEMMA StartStep ==
    ASSUME IInv, StartPasses
    PROVE  IInv'
  <1>. USE DEF IInv
  <1>1. <<Enter(Root)>> \in Seq(Frame) /\ <<Enter(Root)>> # <<>>
        /\ <<Enter(Root)>>[1].block = Root /\ <<Enter(Root)>>[1].pc = 1
        /\ Len(<<Enter(Root)>>) = 1
    BY RootIsBlock, FrameProps
  <1>2. TypeOK'
    BY <1>1 DEF TypeOK, BuilderTypeOK, StartPasses, builderVars, runVars, Phase, Pass
  <1>3. WalkInv'
    BY <1>1 DEF WalkInv, StartPasses, Pass
  <1>4. BreakInv'
    BY <1>1 DEF BreakInv, WalkInv, StartPasses, builderVars
  <1>5. PruneInv'
    BY <1>2, NotPruned DEF StartPasses, builderVars, WalkInv
  <1>6. RunInv'
    BY NotRunning DEF StartPasses, runVars, RunInv
  <1>. QED BY <1>2, <1>3, <1>4, <1>5, <1>6

\* What the steps every walk is made of do to its stack.
LEMMA WalkStepFrames ==
    ASSUME frames \in Seq(Frame), frames # <<>>
    PROVE  /\ Top(frames) = frames[Len(frames)]
           /\ \A b \in Block : frames' = Append(frames, Enter(b)) =>
                /\ Len(frames') = Len(frames) + 1
                /\ \A k \in 1..Len(frames) : frames'[k] = frames[k]
                /\ frames'[Len(frames) + 1].pc = 1
           /\ NextStat =>
                /\ Len(frames') = Len(frames)
                /\ \A k \in 1..(Len(frames) - 1) : frames'[k] = frames[k]
                /\ frames'[Len(frames)].block = Top(frames).block
                /\ frames'[Len(frames)].pc = Top(frames).pc + 1
           /\ Len(frames) > 1 => \A p : LeaveBlock(p) =>
                /\ pass' = pass
                /\ Len(frames') = Len(frames) - 1
                /\ \A k \in 1..(Len(frames) - 1) : frames'[k] = frames[k]
           /\ Len(frames) = 1 => \A p : LeaveBlock(p) =>
                /\ pass' = p
                /\ p \in Pass => /\ Len(frames') = 1 /\ frames' # <<>>
                                 /\ frames'[1].block = Root /\ frames'[1].pc = 1
                /\ p \notin Pass => frames' = <<>>
  <1>1. Top(frames) = frames[Len(frames)] /\ Top(frames) \in Frame
    BY TopProps DEF Top
  <1>2. ASSUME NEW b \in Block, frames' = Append(frames, Enter(b))
        PROVE  /\ Len(frames') = Len(frames) + 1
               /\ \A k \in 1..Len(frames) : frames'[k] = frames[k]
               /\ frames'[Len(frames) + 1].pc = 1
    <2>. DEFINE e == Enter(b)
    <2>1. e \in Frame /\ e.pc = 1
      BY FrameProps
    <2>. HIDE DEF e
    <2>2. frames' = Append(frames, e)
      BY <1>2 DEF e
    <2>. QED BY <2>1, <2>2, AppendProps
  <1>3. ASSUME NextStat
        PROVE  /\ Len(frames') = Len(frames)
               /\ \A k \in 1..(Len(frames) - 1) : frames'[k] = frames[k]
               /\ frames'[Len(frames)].block = Top(frames).block
               /\ frames'[Len(frames)].pc = Top(frames).pc + 1
    <2>. DEFINE e == Advance(Top(frames))
    <2>1. e \in Frame /\ e.block = Top(frames).block /\ e.pc = Top(frames).pc + 1
      BY <1>1, FrameProps
    <2>. HIDE DEF e
    <2>2. frames' = SetTop(frames, e)
      BY <1>3 DEF NextStat, e
    <2>3. /\ Len(SetTop(frames, e)) = Len(frames)
          /\ \A k \in 1..(Len(frames) - 1) : SetTop(frames, e)[k] = frames[k]
          /\ SetTop(frames, e)[Len(frames)] = e
      BY <2>1, SetTopProps
    <2>. QED BY <2>1, <2>2, <2>3
  <1>4. ASSUME Len(frames) > 1, NEW p, LeaveBlock(p)
        PROVE  /\ pass' = pass
               /\ Len(frames') = Len(frames) - 1
               /\ \A k \in 1..(Len(frames) - 1) : frames'[k] = frames[k]
    <2>0. Len(frames) # 1
      BY <1>4, LenProps, OneOrMore
    <2>1. pass' = pass /\ frames' = Pop(frames)
      BY <2>0, <1>4 DEF LeaveBlock
    <2>. DEFINE n == Len(frames)
    <2>2. n \in 1..(Len(frames) + 1)
      OBVIOUS
    <2>. HIDE DEF n
    <2>3. Len(Below(frames, n)) = n - 1 /\ \A k \in 1..(n - 1) : Below(frames, n)[k] = frames[k]
      BY <2>2, BelowProps
    <2>. QED BY <2>1, <2>3 DEF n, Pop
  <1>5. ASSUME Len(frames) = 1, NEW p, LeaveBlock(p)
        PROVE  /\ pass' = p
               /\ p \in Pass => /\ Len(frames') = 1 /\ frames' # <<>>
                                /\ frames'[1].block = Root /\ frames'[1].pc = 1
               /\ p \notin Pass => frames' = <<>>
    BY <1>5, RootIsBlock, FrameProps DEF LeaveBlock
  <1>. QED BY <1>1, <1>2, <1>3, <1>4, <1>5

\* The body's frame stays at the bottom of the walk.
LEMMA WalkBottom ==
    ASSUME frames \in Seq(Frame), frames # <<>>, frames[1].block = Root
    PROVE  /\ \A b \in Block : frames' = Append(frames, Enter(b)) =>
                frames' # <<>> /\ frames'[1].block = Root
           /\ NextStat => frames' # <<>> /\ frames'[1].block = Root
           /\ \A p : LeaveBlock(p) /\ frames' # <<>> => frames'[1].block = Root
           /\ Len(frames) = 1 => Top(frames).block = Root
  <1>1. Len(frames) = 1 \/ Len(frames) > 1
    BY OneFrameOrMore
  <1>2. ASSUME NEW b \in Block, frames' = Append(frames, Enter(b))
        PROVE  frames' # <<>> /\ frames'[1].block = Root
    <2>1. Len(frames') = Len(frames) + 1 /\ \A k \in 1..Len(frames) : frames'[k] = frames[k]
      BY <1>2, WalkStepFrames
    <2>. QED BY <1>1, <2>1
  <1>3. ASSUME NextStat PROVE frames' # <<>> /\ frames'[1].block = Root
    <2>1. CASE Len(frames) = 1
      BY <1>3, <2>1, WalkStepFrames
    <2>2. CASE Len(frames) > 1
      <3>1. Len(frames') = Len(frames) /\ \A k \in 1..(Len(frames) - 1) : frames'[k] = frames[k]
        BY <1>3, WalkStepFrames
      <3>. QED BY <1>1, <2>2, <3>1
    <2>. QED BY <1>1, <2>1, <2>2
  <1>4. ASSUME NEW p, LeaveBlock(p), frames' # <<>> PROVE frames'[1].block = Root
    <2>1. CASE Len(frames) = 1
      BY <1>4, <2>1, WalkStepFrames
    <2>2. CASE Len(frames) > 1
      BY <1>4, <2>2, WalkStepFrames
    <2>. QED BY <1>1, <2>1, <2>2
  <1>. QED BY <1>2, <1>3, <1>4, WalkStepFrames

\* A walk step outside the break check keeps BreakInv: it depends only on
\* the tree as written and on what that first walk visited.
LEMMA BreakInvKept ==
    ASSUME BreakInv, pass \in {"return_check", "break_prune", "run"},
           pass' \in {"return_check", "break_prune", "run", "rejected"},
           source' = source, visited'["break_check"] = visited["break_check"]
    PROVE  BreakInv'
  BY DEF BreakInv, Confined

\* BreakContinueStatementErrorWalker keeps the invariant.
LEMMA BreakCheckStep ==
    ASSUME IInv, BreakOutsideLoop \/ BreakCheckStat \/ BreakCheckLeave
    PROVE  IInv'
  <1>. USE DEF IInv
  <1>. DEFINE checked == visited["break_check"]
              top     == Top(frames)
  <1>1. /\ pass = "break_check" /\ pass \in Pass /\ frames # <<>>
        /\ frames \in Seq(Frame) /\ frames[1].block = Root
        /\ stat_nodes' = stat_nodes /\ source' = source /\ stat_nodes = source
        /\ returns' = [b \in Block |-> FALSE] /\ is_terminal' = {}
        /\ run' = <<>>
        /\ UNCHANGED <<builderVars, returns, is_terminal, runVars>>
    BY DEF BreakOutsideLoop, BreakCheckStat, BreakCheckLeave, UntouchedTree, builderVars,
           runVars, WalkInv, BreakInv, RunInv, Pass, AtStat, TypeOK
  <1>2. top \in Frame /\ top = frames[Len(frames)]
    BY <1>1, WalkStepTypes, WalkStepFrames
  <1>3. CASE BreakOutsideLoop
    <2>1. pass' = "rejected" /\ frames' = <<>> /\ visited' = visited
      BY <1>3 DEF BreakOutsideLoop, Reject
    <2>2. TypeOK'
      BY <1>1, <2>1 DEF TypeOK, BuilderTypeOK, builderVars, runVars, Phase
    <2>3. WalkInv' /\ RunInv'
      BY <1>1, <2>1, NotRunning DEF WalkInv, Pass
    <2>4. PruneInv'
      BY <1>1, <2>1, <2>2, NotPruned
    <2>5. BreakInv'
      BY <1>1, <2>1 DEF BreakInv, Confined
    <2>. QED BY <2>2, <2>3, <2>4, <2>5
  <1>4. CASE BreakCheckStat
    <2>1. AtStat /\ Here.kind \notin ExitKind /\ Here = source[top.block][top.pc]
      BY <1>1, <1>4 DEF BreakCheckStat, Here, StatAt
    <2>2. CASE EntersBlocksOf(Here) /\ Pending(Here) # {}
      <3>1. Descend
        BY <1>4, <2>2 DEF BreakCheckStat
      <3>2. PICK c \in Block : frames' = Append(frames, Enter(c))
        <4>1. Here \in Stat
          BY <1>1, <2>1, WalkStepTypes
        <4>. QED BY <2>2, <3>1, <4>1, StatProps DEF Descend, Pending, SubBlocks
      <3>3. pass' = pass /\ visited' = visited
        BY <3>1 DEF Descend
      <3>4. frames' # <<>> /\ frames'[1].block = Root
        BY <1>1, <3>2, WalkBottom
      <3>5. TypeOK'
        BY <1>1, <2>1, <2>2, <3>1, <3>3, WalkStepTypes
        DEF TypeOK, BuilderTypeOK, builderVars, runVars
      <3>6. BreakInv'
        <4>1. /\ Len(frames') = Len(frames) + 1
              /\ \A k \in 1..Len(frames) : frames'[k] = frames[k]
              /\ frames'[Len(frames) + 1].pc = 1
          BY <1>1, <3>2, WalkStepFrames
        <4>2. ASSUME NEW k \in 1..Len(frames'), NEW i \in 1..Len(source[frames'[k].block]),
                     i < frames'[k].pc
              PROVE  Confined(source[frames'[k].block][i])
          <5>1. k # Len(frames) + 1
            BY <4>1, <4>2
          <5>2. k \in 1..Len(frames)
            BY <1>1, <4>1, <5>1
          <5>. QED BY <1>1, <4>1, <4>2, <5>2 DEF BreakInv
        <4>. QED BY <1>1, <3>3, <4>2 DEF BreakInv, Confined
      <3>7. WalkInv' /\ RunInv' /\ PruneInv'
        BY <1>1, <3>3, <3>4, <3>5, NotRunning, NotPruned DEF WalkInv, Pass
      <3>. QED BY <3>5, <3>6, <3>7
    <2>3. CASE ~(EntersBlocksOf(Here) /\ Pending(Here) # {})
      <3>1. NextStat
        BY <1>4, <2>3 DEF BreakCheckStat
      <3>2. pass' = pass /\ visited' = visited
        BY <3>1 DEF NextStat
      <3>3. Confined(Here)
        BY <1>1, <2>1, <2>3 DEF Confined, Pending
      <3>4. TypeOK'
        BY <1>1, <3>1, <3>2, WalkStepTypes
        DEF TypeOK, BuilderTypeOK, builderVars, runVars
      <3>5. BreakInv'
        <4>1. /\ Len(frames') = Len(frames)
              /\ \A k \in 1..(Len(frames) - 1) : frames'[k] = frames[k]
              /\ frames'[Len(frames)].block = top.block
              /\ frames'[Len(frames)].pc = top.pc + 1
          BY <1>1, <3>1, WalkStepFrames
        <4>2. ASSUME NEW k \in 1..Len(frames'), NEW i \in 1..Len(source[frames'[k].block]),
                     i < frames'[k].pc
              PROVE  Confined(source[frames'[k].block][i])
          <5>1. CASE k = Len(frames)
            <6>1. i < top.pc \/ i = top.pc
              BY <1>2, <4>1, <4>2, <5>1 DEF Frame
            <6>2. CASE i < top.pc
              BY <1>1, <1>2, <4>1, <4>2, <5>1, <6>2 DEF BreakInv
            <6>3. CASE i = top.pc
              BY <2>1, <3>3, <4>1, <5>1, <6>3
            <6>. QED BY <6>1, <6>2, <6>3
          <5>2. CASE k # Len(frames)
            <6>1. k \in 1..(Len(frames) - 1)
              BY <1>1, <4>1, <5>2
            <6>. QED BY <1>1, <4>1, <4>2, <6>1 DEF BreakInv
          <5>. QED BY <5>1, <5>2
        <4>. QED BY <1>1, <3>2, <4>2 DEF BreakInv, Confined
      <3>6. WalkInv' /\ RunInv' /\ PruneInv'
        BY <1>1, <3>1, <3>2, <3>4, WalkBottom, NotRunning, NotPruned DEF WalkInv, Pass
      <3>. QED BY <3>4, <3>5, <3>6
    <2>. QED BY <2>2, <2>3
  <1>5. CASE BreakCheckLeave
    <2>1. LeaveBlock("return_check") /\ ~InRange(source, top)
      BY <1>1, <1>5 DEF BreakCheckLeave, AtStat
    <2>2. visited'["break_check"] = checked \cup {top.block}
      BY <1>1, <2>1 DEF LeaveBlock, TypeOK, Pass
    <2>3. TypeOK'
      BY <1>1, <2>1, WalkStepTypes
      DEF TypeOK, BuilderTypeOK, builderVars, runVars, Phase, Pass
    <2>4. \A i \in 1..Len(source[top.block]) : Confined(source[top.block][i])
      <3>1. \A i \in 1..Len(source[top.block]) : i < top.pc
        BY <1>2, <2>1, <2>3 DEF InRange, Frame, TypeOK, Tree
      <3>2. Len(frames) \in 1..Len(frames)
        BY <1>1
      <3>. QED BY <1>1, <1>2, <3>1, <3>2 DEF BreakInv
    <2>5. \A s : Confined(s) => Confined(s)'
      BY <2>2 DEF Confined
    <2>6. \A b \in checked \cup {top.block} :
             \A i \in 1..Len(source[b]) : Confined(source[b][i])'
      BY <1>1, <2>4, <2>5 DEF BreakInv
    <2>7. CASE Len(frames) = 1
      <3>1. /\ pass' = "return_check" /\ frames' # <<>>
            /\ Len(frames') = 1 /\ frames'[1].block = Root
        BY <1>1, <2>1, <2>7, WalkStepFrames DEF Pass
      <3>2. Root \in visited'["break_check"]
        BY <1>1, <2>2, <2>7, WalkBottom
      <3>3. BreakInv'
        BY <1>1, <2>2, <2>6, <3>1, <3>2 DEF BreakInv
      <3>5. WalkInv'
        BY <1>1, <3>1 DEF WalkInv, Pass
      <3>6. RunInv' /\ PruneInv'
        BY <1>1, <2>3, <3>1, NotRunning, NotPruned
      <3>. QED BY <2>3, <3>3, <3>5, <3>6
    <2>8. CASE Len(frames) > 1
      <3>1. /\ pass' = pass /\ Len(frames') = Len(frames) - 1
            /\ \A k \in 1..(Len(frames) - 1) : frames'[k] = frames[k]
        BY <1>1, <2>1, <2>8, WalkStepFrames
      <3>2. frames' # <<>> /\ frames'[1].block = Root
        BY <1>1, <2>1, <2>8, <3>1, WalkBottom
      <3>3. BreakInv'
        <4>1. ASSUME NEW k \in 1..Len(frames'), NEW i \in 1..Len(source[frames'[k].block]),
                     i < frames'[k].pc
              PROVE  Confined(source[frames[k].block][i])'
          <5>. DEFINE n == Len(frames)
          <5>1. n \in Nat
            BY <1>1, LenProps
          <5>2. k \in 1..(n - 1)
            BY <3>1
          <5>. HIDE DEF n
          <5>3. k \in 1..n
            BY <5>1, <5>2
          <5>4. frames'[k] = frames[k] /\ k \in 1..Len(frames)
            BY <3>1, <5>2, <5>3 DEF n
          <5>5. Confined(source[frames[k].block][i])
            <6>1. i \in 1..Len(source[frames[k].block]) /\ i < frames[k].pc
              BY <4>1, <5>4
            <6>. QED BY <1>1, <5>4, <6>1 DEF BreakInv
          <5>. QED BY <1>1, <2>2, <5>4, <5>5 DEF Confined
        <4>. QED BY <1>1, <2>2, <2>6, <3>1, <4>1 DEF BreakInv
      <3>4. WalkInv' /\ RunInv' /\ PruneInv'
        BY <1>1, <2>3, <3>1, <3>2, NotRunning, NotPruned DEF WalkInv, Pass
      <3>. QED BY <2>3, <3>3, <3>4
    <2>. QED BY <1>1, <2>7, <2>8, OneFrameOrMore
  <1>. QED BY <1>3, <1>4, <1>5

\* What every step of the two later walks keeps, whatever it does to the tree.
LEMMA LaterWalkStep ==
    ASSUME IInv, pass \in {"return_check", "break_prune"}, source' = source,
           \/ AtStat /\ Pending(Here) # {} /\ Descend
           \/ NextStat
           \/ \E p \in {"break_prune", "run"} : LeaveBlock(p)
           \/ Reject
    PROVE  /\ WalkInv' /\ BreakInv'
           /\ frames' \in Seq(Frame) /\ pass' \in Phase
           /\ visited' \in [Pass -> SUBSET Block]
  <1>. USE DEF IInv
  <1>1. /\ frames # <<>> /\ frames \in Seq(Frame) /\ frames[1].block = Root
        /\ pass \in Pass /\ visited \in [Pass -> SUBSET Block]
    BY DEF WalkInv, TypeOK, Pass
  <1>2. CASE AtStat /\ Pending(Here) # {} /\ Descend
    <2>1. PICK c \in Block : frames' = Append(frames, Enter(c))
      <3>1. Here \in Stat
        BY <1>1, <1>2, WalkStepTypes
      <3>. QED BY <1>2, <3>1, StatProps DEF Descend, Pending, SubBlocks
    <2>2. /\ frames' \in Seq(Frame) /\ pass' = pass /\ visited' = visited
      BY <1>1, <1>2, WalkStepTypes
    <2>3. frames' # <<>> /\ frames'[1].block = Root
      BY <1>1, <2>1, WalkBottom
    <2>4. WalkInv'
      BY <1>1, <2>2, <2>3 DEF WalkInv, Pass
    <2>5. BreakInv'
      BY <2>2, BreakInvKept
    <2>. QED BY <1>1, <2>2, <2>4, <2>5 DEF Phase
  <1>3. CASE NextStat
    <2>1. /\ frames' \in Seq(Frame) /\ pass' = pass /\ visited' = visited
      BY <1>1, <1>3, WalkStepTypes
    <2>2. frames' # <<>> /\ frames'[1].block = Root
      BY <1>1, <1>3, WalkBottom
    <2>3. WalkInv'
      BY <1>1, <2>1, <2>2 DEF WalkInv, Pass
    <2>4. BreakInv'
      BY <2>1, BreakInvKept
    <2>. QED BY <1>1, <2>1, <2>3, <2>4 DEF Phase
  <1>4. ASSUME NEW p \in {"break_prune", "run"}, LeaveBlock(p)
        PROVE  /\ WalkInv' /\ BreakInv'
               /\ frames' \in Seq(Frame) /\ pass' \in Phase
               /\ visited' \in [Pass -> SUBSET Block]
    <2>1. p \in Phase
      BY DEF Phase, Pass
    <2>2. frames' \in Seq(Frame) /\ visited' \in [Pass -> SUBSET Block]
      BY <1>1, <1>4, <2>1, WalkStepTypes
    <2>3. visited'["break_check"] = visited["break_check"]
      BY <1>1, <1>4 DEF LeaveBlock, Pass
    <2>4. /\ pass' \in {pass, p}
          /\ pass' \in Pass <=> frames' # <<>>
          /\ frames' # <<>> => frames'[1].block = Root
      <3>1. CASE Len(frames) = 1
        BY <1>4, <1>1, <3>1, WalkStepFrames DEF Pass
      <3>2. CASE Len(frames) > 1
        <4>1. pass' = pass /\ Len(frames') = Len(frames) - 1
          BY <1>1, <1>4, <3>2, WalkStepFrames
        <4>2. frames' # <<>>
          <5>. DEFINE n == Len(frames)
          <5>1. n \in Nat /\ n > 1
            BY <1>1, <3>2, LenProps
          <5>. HIDE DEF n
          <5>2. n - 1 # 0
            BY <5>1
          <5>. QED BY <2>2, <4>1, <5>2, LenProps DEF n
        <4>. QED BY <1>1, <1>4, <4>1, <4>2, WalkBottom
      <3>. QED BY <1>1, <3>1, <3>2, OneFrameOrMore
    <2>5. WalkInv'
      BY <2>4 DEF WalkInv
    <2>6. BreakInv'
      BY <2>3, <2>4, BreakInvKept
    <2>. QED BY <1>1, <2>1, <2>2, <2>4, <2>5, <2>6 DEF Phase
  <1>5. CASE Reject
    <2>1. pass' = "rejected" /\ frames' = <<>> /\ visited' = visited
      BY <1>5 DEF Reject
    <2>2. BreakInv'
      BY <2>1, BreakInvKept
    <2>. QED BY <1>1, <2>1, <2>2 DEF WalkInv, Phase, Pass
  <1>. QED BY <1>2, <1>3, <1>4, <1>5

\* A step that leaves the tree and the verdicts alone keeps PruneInv.
LEMMA PruneInvKept ==
    ASSUME PruneInv, pass # "build", UNCHANGED <<stat_nodes, source, returns, is_terminal>>,
           pass' \in {"break_prune", "run"} => returns[Root]
    PROVE  PruneInv'
  BY DEF PruneInv, PrunedWell, Stops, GuaranteedReturn

\* Verdicts only ever change from false to true.
LEMMA StopsMonotone ==
    ASSUME TypeOK, NEW b \in Block,
           returns' = returns \/ returns' = [returns EXCEPT ![b] = TRUE],
           NEW s \in Stat
    PROVE  /\ GuaranteedReturn(s) => GuaranteedReturn(s)'
           /\ Stops(s) => Stops(s)'
  <1>1. s.kind \in {"block", "cond"} => s.body \in Block
    BY StatProps DEF LeafKind, ExitKind
  <1>2. s.alt # NoBlock => s.alt \in Block
    BY StatProps DEF SubBlocks
  <1>. QED BY <1>1, <1>2 DEF GuaranteedReturn, Stops, TypeOK

(***************************************************************************)
(* Shortening the block the walk is at, after a statement no execution     *)
(* completes, keeps what PruneInv says of the blocks.                      *)
(***************************************************************************)
LEMMA PruneStep ==
    ASSUME TypeOK, PruneInv, pass \in {"return_check", "break_prune"}, AtStat, Prune,
           source' = source, NEW b \in Block, b = Top(frames).block,
           returns' = returns \/ returns' = [returns EXCEPT ![b] = TRUE],
           NEW s, s = Here, Stops(s)', NEW c \in Block
    PROVE  PrunedWell(c)'
  <1>1. /\ stat_nodes[c] \in Seq(Stat) /\ source[c] \in Seq(Stat)
        /\ Len(stat_nodes[c]) <= Len(source[c])
        /\ \A i \in 1..Len(stat_nodes[c]) : stat_nodes[c][i] = source[c][i]
        /\ returns[c] \/ Len(stat_nodes[c]) < Len(source[c]) =>
             /\ Len(stat_nodes[c]) > 0
             /\ Stops(source[c][Len(stat_nodes[c])])
    BY DEF PruneInv, PrunedWell, TypeOK, BuilderTypeOK, Tree
  <1>2. CASE c # b
    <2>1. stat_nodes'[c] = stat_nodes[c] /\ returns'[c] = returns[c]
      BY <1>2 DEF Prune, TypeOK, BuilderTypeOK, Tree
    <2>2. CASE returns[c] \/ Len(stat_nodes[c]) < Len(source[c])
      <3>1. PICK t \in Stat : t = source[c][Len(stat_nodes[c])] /\ Stops(t)
        BY <1>1, <2>2
      <3>2. Stops(t)'
        BY <3>1, StopsMonotone
      <3>. QED BY <1>1, <2>1, <2>2, <3>1, <3>2 DEF PrunedWell, Stops, GuaranteedReturn
    <2>. QED BY <1>1, <2>1, <2>2 DEF PrunedWell
  <1>3. CASE c = b
    <2>. DEFINE n == Top(frames).pc
    <2>1. n \in 1..Len(stat_nodes[c]) /\ s = stat_nodes[c][n]
      <3>1. Top(frames) \in Frame
        BY TopProps DEF TypeOK, AtStat
      <3>. QED BY <1>3, <3>1 DEF AtStat, InRange, Here, StatAt, Frame
    <2>2. stat_nodes'[c] = SubSeq(stat_nodes[c], 1, n)
      BY <1>3 DEF Prune, TypeOK, BuilderTypeOK, Tree
    <2>. HIDE DEF n
    <2>3. /\ Len(stat_nodes'[c]) = n
          /\ \A i \in 1..n : stat_nodes'[c][i] = stat_nodes[c][i]
      BY <1>1, <2>1, <2>2
    <2>4. s = source[c][n] /\ n <= Len(source[c]) /\ n > 0
      BY <1>1, <2>1
    <2>5. Stops(source[c][Len(stat_nodes[c])])'
      BY <2>3, <2>4 DEF Stops, GuaranteedReturn
    <2>. QED BY <1>1, <2>1, <2>3, <2>4, <2>5 DEF PrunedWell
  <1>. QED BY <1>2, <1>3

\* ControlFlowReturnErrorWalker keeps the invariant.
LEMMA ReturnCheckStep ==
    ASSUME IInv,
           ReturnCheckDescend \/ ReturnCheckNext \/ ReturnCheckPrune \/ ReturnCheckLeave
    PROVE  IInv'
  <1>. USE DEF IInv
  <1>1. /\ pass = "return_check" /\ pass \in Pass /\ frames # <<>>
        /\ source' = source /\ run = <<>>
        /\ UNCHANGED <<open, used, count, returns_value, run, outcome>>
    BY DEF ReturnCheckDescend, ReturnCheckNext, ReturnCheckPrune, ReturnCheckLeave,
           UntouchedTree, builderVars, runVars, RunInv, Pass, AtStat
  <1>2. ASSUME UNCHANGED <<stat_nodes, returns, is_terminal>>,
               \/ AtStat /\ Pending(Here) # {} /\ Descend
               \/ NextStat
               \/ LeaveBlock("break_prune") /\ Len(frames) > 1
               \/ Reject
        PROVE  IInv'
    <2>1. /\ WalkInv' /\ BreakInv'
          /\ frames' \in Seq(Frame) /\ pass' \in Phase
          /\ visited' \in [Pass -> SUBSET Block]
      BY <1>1, <1>2, LaterWalkStep
    <2>2. pass' \in {"return_check", "rejected"}
      BY <1>1, <1>2, WalkStepFrames DEF Descend, NextStat, Reject, TypeOK
    <2>3. TypeOK'
      BY <1>1, <1>2, <2>1 DEF TypeOK, BuilderTypeOK
    <2>4. PruneInv'
      BY <1>1, <1>2, <2>2, PruneInvKept
    <2>5. RunInv'
      BY <1>1, <2>2, NotRunning
    <2>. QED BY <2>1, <2>3, <2>4, <2>5
  <1>3. CASE ReturnCheckDescend
    BY <1>2, <1>3 DEF ReturnCheckDescend, UntouchedTree, builderVars
  <1>4. CASE ReturnCheckNext
    BY <1>2, <1>4 DEF ReturnCheckNext, UntouchedTree, builderVars
  <1>5. CASE ReturnCheckLeave
    <2>1. Len(frames) = 1 \/ Len(frames) > 1
      BY <1>1, OneFrameOrMore DEF TypeOK
    <2>2. Len(frames) > 1 => Len(frames) # 1
      BY LenProps, OneOrMore DEF TypeOK
    <2>. QED BY <1>2, <1>5, <2>1, <2>2 DEF ReturnCheckLeave, UntouchedTree, builderVars
  <1>6. CASE ReturnCheckPrune
    <2>1. /\ AtStat /\ GuaranteedReturn(Here) /\ Prune /\ LeaveBlock("break_prune")
          /\ returns' = [returns EXCEPT ![Top(frames).block] = TRUE]
          /\ is_terminal' = IF Here.kind = "cond"
                            THEN is_terminal \cup {<<Top(frames).block, Top(frames).pc>>}
                            ELSE is_terminal
      BY <1>6 DEF ReturnCheckPrune
    <2>2. PICK b \in Block, n \in Nat \ {0} :
             b = Top(frames).block /\ n = Top(frames).pc
      BY <1>1, WalkStepTypes DEF Frame
    <2>3. PICK s \in Stat : s = Here
      BY <1>1, <2>1, WalkStepTypes
    <2>4. returns' = [returns EXCEPT ![b] = TRUE]
      BY <2>1, <2>2
    <2>5. GuaranteedReturn(s)' /\ Stops(s)'
      BY <2>1, <2>3, <2>4, StopsMonotone DEF Stops
    <2>6. /\ WalkInv' /\ BreakInv'
          /\ frames' \in Seq(Frame) /\ pass' \in Phase
          /\ visited' \in [Pass -> SUBSET Block]
      BY <1>1, <2>1, LaterWalkStep
    <2>7. pass' \in {"return_check", "break_prune"}
          /\ (pass' = "break_prune" => b = Root)
      <3>1. CASE Len(frames) = 1
        BY <1>1, <2>1, <2>2, <3>1, WalkBottom, WalkStepFrames DEF TypeOK, WalkInv
      <3>2. CASE Len(frames) > 1
        BY <1>1, <2>1, <3>2, WalkStepFrames DEF TypeOK
      <3>. QED BY <1>1, <3>1, <3>2, OneFrameOrMore DEF TypeOK
    <2>8. TypeOK'
      <3>1. stat_nodes' \in Tree
        BY <1>1, <2>1, WalkStepTypes
      <3>2. returns' \in [Block -> BOOLEAN] /\ is_terminal' \in SUBSET (Block \X (Nat \ {0}))
        BY <2>1, <2>2, <2>4 DEF TypeOK
      <3>. QED BY <1>1, <2>6, <3>1, <3>2 DEF TypeOK, BuilderTypeOK
    <2>9. PruneInv'
      <3>1. \A c \in Block : PrunedWell(c)'
        BY <1>1, <2>1, <2>2, <2>3, <2>4, <2>5, PruneStep
      <3>2. ASSUME NEW at \in is_terminal'
            PROVE  /\ at[2] <= Len(source[at[1]])
                   /\ GuaranteedReturn(source[at[1]][at[2]])'
        <4>1. CASE at \in is_terminal
          <5>1. /\ at[1] \in Block /\ at[2] \in Nat \ {0}
                /\ at[2] <= Len(source[at[1]])
                /\ GuaranteedReturn(source[at[1]][at[2]])
            BY <1>1, <4>1 DEF PruneInv, TypeOK
          <5>2. PICK t \in Stat : t = source[at[1]][at[2]]
            BY <5>1 DEF TypeOK, Tree
          <5>3. GuaranteedReturn(t)'
            BY <2>4, <5>1, <5>2, StopsMonotone
          <5>. QED BY <1>1, <5>1, <5>2, <5>3 DEF GuaranteedReturn
        <4>2. CASE at \notin is_terminal
          <5>1. at = <<b, n>>
            BY <2>1, <2>2, <3>2, <4>2
          <5>2. n <= Len(stat_nodes[b]) /\ s = stat_nodes[b][n]
            BY <2>1, <2>2, <2>3 DEF AtStat, InRange, Here, StatAt
          <5>3. n <= Len(source[b]) /\ s = source[b][n]
            BY <1>1, <5>2 DEF PruneInv, PrunedWell, TypeOK, BuilderTypeOK, Tree
          <5>. QED BY <1>1, <2>5, <5>1, <5>3 DEF GuaranteedReturn
        <4>. QED BY <4>1, <4>2
      <3>3. pass' = "break_prune" => returns'[Root]
        BY <2>4, <2>7 DEF TypeOK
      <3>. QED BY <1>1, <2>7, <3>1, <3>2, <3>3 DEF PruneInv
    <2>10. RunInv'
      BY <1>1, <2>7, NotRunning
    <2>. QED BY <2>6, <2>8, <2>9, <2>10
  <1>. QED BY <1>3, <1>4, <1>5, <1>6

\* BreakContinuePruneWalker keeps the invariant.
LEMMA BreakPruneStep ==
    ASSUME IInv, BreakPruneDescend \/ BreakPruneStat \/ BreakPruneLeave
    PROVE  IInv'
  <1>. USE DEF IInv
  <1>1. /\ pass = "break_prune" /\ pass \in Pass /\ frames # <<>>
        /\ frames \in Seq(Frame) /\ returns[Root]
        /\ source' = source /\ run = <<>>
        /\ UNCHANGED <<open, used, count, returns_value, returns, is_terminal, outcome>>
    BY DEF BreakPruneDescend, BreakPruneStat, BreakPruneLeave,
           UntouchedTree, builderVars, runVars, RunInv, PruneInv, Pass, AtStat, TypeOK
  <1>2. CASE BreakPruneDescend
    <2>1. /\ WalkInv' /\ BreakInv'
          /\ frames' \in Seq(Frame) /\ pass' \in Phase
          /\ visited' \in [Pass -> SUBSET Block]
      BY <1>1, <1>2, LaterWalkStep DEF BreakPruneDescend
    <2>2. stat_nodes' = stat_nodes /\ run' = <<>> /\ pass' = pass
      BY <1>1, <1>2 DEF BreakPruneDescend, UntouchedTree, builderVars, runVars, Descend
    <2>3. TypeOK'
      BY <1>1, <2>1, <2>2 DEF TypeOK, BuilderTypeOK
    <2>4. PruneInv' /\ RunInv'
      BY <1>1, <2>2, PruneInvKept, NotRunning
    <2>. QED BY <2>1, <2>3, <2>4
  <1>3. CASE BreakPruneStat
    <2>1. /\ AtStat /\ NextStat /\ run' = <<>> /\ pass' = pass
          /\ IF Here.kind \in ExitKind THEN Prune ELSE UNCHANGED stat_nodes
      BY <1>1, <1>3 DEF BreakPruneStat, runVars, NextStat
    <2>2. /\ WalkInv' /\ BreakInv'
          /\ frames' \in Seq(Frame) /\ pass' \in Phase
          /\ visited' \in [Pass -> SUBSET Block]
      BY <1>1, <2>1, LaterWalkStep
    <2>3. stat_nodes' \in Tree
      BY <1>1, <2>1, WalkStepTypes DEF TypeOK, BuilderTypeOK
    <2>4. TypeOK'
      BY <1>1, <2>1, <2>2, <2>3 DEF TypeOK, BuilderTypeOK
    <2>5. CASE Here.kind \in ExitKind
      <3>1. PICK b \in Block : b = Top(frames).block
        BY <1>1, WalkStepTypes DEF Frame
      <3>2. PICK s : s = Here
        OBVIOUS
      <3>3. Stops(s)'
        BY <2>5, <3>2 DEF Stops
      <3>4. \A c \in Block : PrunedWell(c)'
        BY <1>1, <2>1, <2>5, <3>1, <3>2, <3>3, PruneStep
      <3>5. PruneInv'
        BY <1>1, <2>1, <3>4 DEF PruneInv, GuaranteedReturn
      <3>. QED BY <1>1, <2>1, <2>2, <2>4, <3>5, NotRunning
    <2>6. CASE Here.kind \notin ExitKind
      BY <1>1, <2>1, <2>2, <2>4, <2>6, PruneInvKept, NotRunning
    <2>. QED BY <2>5, <2>6
  <1>4. CASE BreakPruneLeave
    <2>1. /\ LeaveBlock("run") /\ stat_nodes' = stat_nodes
          /\ run' = IF Len(frames) = 1 THEN <<Enter(Root)>> ELSE run
      BY <1>4 DEF BreakPruneLeave, UntouchedTree, builderVars
    <2>2. /\ WalkInv' /\ BreakInv'
          /\ frames' \in Seq(Frame) /\ pass' \in Phase
          /\ visited' \in [Pass -> SUBSET Block]
      BY <1>1, <2>1, LaterWalkStep
    <2>3. PruneInv'
      BY <1>1, <2>1, PruneInvKept
    <2>4. CASE Len(frames) = 1
      <3>. DEFINE e == Enter(Root)
      <3>1. e \in Frame /\ e.block = Root /\ e.pc = 1
        BY RootIsBlock, FrameProps
      <3>. HIDE DEF e
      <3>2. run' = <<e>> /\ pass' = "run"
        BY <1>1, <2>1, <2>4, WalkStepFrames DEF e
      <3>3. TypeOK'
        BY <1>1, <2>1, <2>2, <3>1, <3>2 DEF TypeOK, BuilderTypeOK
      <3>4. visited'["break_check"] = visited["break_check"]
        BY <1>1, <2>1 DEF LeaveBlock, TypeOK, Pass
      <3>5. Root \in visited'["break_check"]
        BY <1>1, <3>4 DEF BreakInv
      <3>6. RunInv'
        BY <3>1, <3>2, <3>5 DEF RunInv
      <3>. QED BY <2>2, <2>3, <3>3, <3>6
    <2>5. CASE Len(frames) > 1
      <3>1. pass' = pass /\ run' = <<>>
        BY <1>1, <2>1, <2>5, WalkStepFrames, LenProps, OneOrMore
      <3>2. TypeOK'
        BY <1>1, <2>1, <2>2, <3>1 DEF TypeOK, BuilderTypeOK
      <3>. QED BY <1>1, <2>2, <2>3, <3>1, <3>2, NotRunning
    <2>. QED BY <1>1, <2>4, <2>5, OneFrameOrMore
  <1>. QED BY <1>2, <1>3, <1>4

-----------------------------------------------------------------------------
(* Preservation by the execution.                                          *)

\* An execution leaves the tree and the walks alone.
LEMMA RunKeepsTheRest ==
    ASSUME IInv, pass = "run", UNCHANGED <<builderVars, walkVars>>,
           run' \in Seq(Frame), outcome' \in Outcome
    PROVE  TypeOK' /\ WalkInv' /\ BreakInv' /\ PruneInv'
  <1>. USE DEF IInv, builderVars, walkVars
  <1>1. TypeOK'
    BY DEF TypeOK, BuilderTypeOK
  <1>2. WalkInv' /\ BreakInv'
    BY DEF WalkInv, BreakInv, Confined
  <1>3. PruneInv'
    BY PruneInvKept DEF PruneInv
  <1>. QED BY <1>1, <1>2, <1>3

\* Completing the statement of frame k - 1, when an execution may.
LEMMA ContinueAfterStep ==
    ASSUME IInv, pass = "run", NEW k \in 2..(Len(run) + 1), ContinueAfter(k),
           InRange(source, run[k - 1]), ~Stops(StatAt(source, run[k - 1])),
           UNCHANGED <<builderVars, walkVars, outcome>>
    PROVE  IInv'
  <1>. USE DEF IInv
  <1>1. run \in Seq(Frame) /\ run # <<>> /\ source \in Tree
    BY DEF RunInv, TypeOK
  <1>2. /\ run' \in Seq(Frame) /\ Len(run') = k - 1
        /\ \A i \in 1..(k - 2) : run'[i] = run[i]
        /\ run'[k - 1] = Advance(run[k - 1])
    BY <1>1, RunStepProps
  <1>3. /\ run[k - 1] \in Frame
        /\ run'[k - 1].block = run[k - 1].block
        /\ run'[k - 1].pc = run[k - 1].pc + 1
    BY <1>1, <1>2, FrameProps, RunStepProps
  <1>4. UNCHANGED <<source, visited, returns, pass>>
    BY DEF walkVars
  <1>5. \A i \in 1..(k - 1) : i \in 1..Len(run) /\ run'[i].block = run[i].block
    <2>1. \A i \in 1..(k - 1) : i \in 1..(k - 2) \/ i = k - 1
      OBVIOUS
    <2>2. \A i \in 1..(k - 1) : i \in 1..Len(run)
      OBVIOUS
    <2>. QED BY <1>2, <1>3, <2>1, <2>2
  <1>6. RunInv'
    <2>1. run' # <<>> /\ run'[1].block = Root
      <3>1. run' # <<>> /\ 1 \in 1..(k - 1)
        BY <1>2
      <3>. QED BY <1>1, <1>5, <3>1 DEF RunInv
    <2>2. ASSUME NEW j \in 2..Len(run')
          PROVE  /\ InRange(source', run'[j - 1])
                 /\ run'[j].block \in SubBlocks(StatAt(source', run'[j - 1]))
      <3>1. j \in 2..Len(run) /\ j - 1 \in 1..(k - 2) /\ j \in 1..(k - 1)
        BY <1>2
      <3>2. run'[j - 1] = run[j - 1] /\ run'[j].block = run[j].block
        BY <1>2, <1>5, <3>1
      <3>. QED BY <1>4, <3>1, <3>2 DEF RunInv
    <2>3. ASSUME NEW j \in 1..Len(run'), NEW i \in 1..(run'[j].pc - 1)
          PROVE  /\ i <= Len(source[run[j].block])
                 /\ ~Stops(source[run[j].block][i])
                 /\ run'[j].block = run[j].block
      <3>1. j \in 1..Len(run) /\ run'[j].block = run[j].block
        BY <1>2, <1>5
      <3>2. CASE j \in 1..(k - 2)
        BY <1>2, <3>1, <3>2 DEF RunInv
      <3>3. CASE j = k - 1
        <4>1. i \in 1..(run[k - 1].pc - 1) \/ i = run[k - 1].pc
          BY <1>3, <2>3, <3>3 DEF Frame
        <4>2. CASE i \in 1..(run[k - 1].pc - 1)
          BY <3>1, <3>3, <4>2 DEF RunInv
        <4>3. CASE i = run[k - 1].pc
          BY <3>1, <3>3, <4>3 DEF InRange, StatAt
        <4>. QED BY <4>1, <4>2, <4>3
      <3>4. j \in 1..(k - 2) \/ j = k - 1
        BY <1>2
      <3>. QED BY <3>2, <3>3, <3>4
    <2>4. ASSUME NEW j \in 1..Len(run')
          PROVE  run[j].block \in visited["break_check"] \/ \E i \in 2..j : i \in LoopBodies'
      <3>1. j \in 1..(k - 1) /\ j \in 1..Len(run)
        BY <1>2
      <3>2. CASE run[j].block \in visited["break_check"]
        BY <3>2
      <3>3. ASSUME NEW i \in 2..j, i \in LoopBodies PROVE i \in LoopBodies'
        <4>1. i \in 2..(k - 1) /\ i - 1 \in 1..(k - 2)
          BY <3>1
        <4>2. run'[i - 1] = run[i - 1]
          BY <1>2, <4>1
        <4>. QED BY <1>2, <1>4, <3>3, <4>1, <4>2 DEF LoopBodies
      <3>. QED BY <3>1, <3>2, <3>3 DEF RunInv
    <2>5. \A j \in 1..Len(run') : run'[j].block = run[j].block
      BY <1>2, <1>5
    <2>6. \A j \in 1..Len(run') : \A i \in 1..(run'[j].pc - 1) :
            /\ i <= Len(source'[run'[j].block])
            /\ ~Stops(source[run'[j].block][i])
      BY <1>4, <2>3, <2>5
    <2>7. \A j \in 1..Len(run') : run'[j].block \in visited'["break_check"]
                                  \/ \E i \in 2..j : i \in LoopBodies'
      BY <1>4, <2>4, <2>5
    <2>8. run' # <<>> <=> pass' = "run"
      BY <1>4, <2>1
    <2>. QED BY <1>4, <2>1, <2>2, <2>6, <2>7, <2>8 DEF RunInv, Stops, GuaranteedReturn
  <1>7. TypeOK' /\ WalkInv' /\ BreakInv' /\ PruneInv'
    BY <1>2, RunKeepsTheRest DEF TypeOK
  <1>. QED BY <1>6, <1>7

\* A statement that owns a block is a loop or one the break check descends into.
LEMMA OwnersAreEntered ==
    ASSUME NEW s \in Stat, SubBlocks(s) # {}, ~IsLoop(s)
    PROVE  EntersBlocksOf(s)
  BY DEF Stat, NodeFields, Kind, LeafKind, ExitKind, IsLoop, SubBlocks, EntersBlocksOf

\* Entering a block the statement of frame k - 1 owns.
LEMMA ContinueInStep ==
    ASSUME IInv, pass = "run", NEW k \in 2..(Len(run) + 1), NEW b \in Block,
           InRange(source, run[k - 1]), b \in SubBlocks(StatAt(source, run[k - 1])),
           ContinueIn(k, b),
           UNCHANGED <<builderVars, walkVars, outcome>>
    PROVE  IInv'
  <1>. USE DEF IInv
  <1>1. run \in Seq(Frame) /\ run # <<>> /\ source \in Tree
    BY DEF RunInv, TypeOK
  <1>2. /\ run' \in Seq(Frame) /\ Len(run') = k
        /\ \A i \in 1..(k - 1) : run'[i] = run[i]
        /\ run'[k] = Enter(b)
    BY <1>1, RunStepProps
  <1>3. run[k - 1] \in Frame /\ run'[k].block = b /\ run'[k].pc = 1
    BY <1>1, <1>2, FrameProps, RunStepProps
  <1>4. UNCHANGED <<source, visited, returns, pass>>
    BY DEF walkVars
  <1>5. \A i \in 1..k : i \in 1..(k - 1) \/ i = k
    OBVIOUS
  <1>6. \A i \in 1..(k - 1) : i \in 1..Len(run)
    OBVIOUS
  <1>7. \A j \in 1..(k - 1) : \A i \in 2..j : i \in LoopBodies => i \in LoopBodies'
    <2>1. SUFFICES ASSUME NEW j \in 1..(k - 1), NEW i \in 2..j, i \in LoopBodies
                   PROVE  i \in LoopBodies'
      OBVIOUS
    <2>2. i \in 2..k /\ i - 1 \in 1..(k - 1)
      OBVIOUS
    <2>3. run'[i - 1] = run[i - 1]
      BY <1>2, <2>2
    <2>. QED BY <1>2, <1>4, <2>1, <2>2, <2>3 DEF LoopBodies
  <1>8. RunInv'
    <2>1. run' # <<>> /\ run'[1].block = Root /\ pass' = "run"
      <3>1. run' # <<>> /\ 1 \in 1..(k - 1)
        BY <1>2
      <3>. QED BY <1>1, <1>2, <1>4, <3>1 DEF RunInv
    <2>2. ASSUME NEW j \in 2..Len(run')
          PROVE  /\ InRange(source', run'[j - 1])
                 /\ run'[j].block \in SubBlocks(StatAt(source', run'[j - 1]))
      <3>1. j - 1 \in 1..(k - 1) /\ run'[j - 1] = run[j - 1]
        BY <1>2
      <3>2. CASE j \in 1..(k - 1)
        <4>1. run'[j] = run[j] /\ j \in 2..Len(run)
          BY <1>2, <3>2
        <4>. QED BY <1>4, <3>1, <4>1 DEF RunInv
      <3>3. CASE j = k
        BY <1>3, <1>4, <3>1, <3>3
      <3>. QED BY <1>2, <1>5, <3>2, <3>3
    <2>3. ASSUME NEW j \in 1..Len(run'), NEW i \in 1..(run'[j].pc - 1)
          PROVE  /\ i <= Len(source[run'[j].block])
                 /\ ~Stops(source[run'[j].block][i])
      <3>1. CASE j \in 1..(k - 1)
        <4>1. run'[j] = run[j] /\ j \in 1..Len(run)
          BY <1>2, <3>1
        <4>. QED BY <2>3, <4>1 DEF RunInv
      <3>2. CASE j = k
        BY <1>3, <2>3, <3>2
      <3>. QED BY <1>2, <1>5, <3>1, <3>2
    <2>4. ASSUME NEW j \in 1..(k - 1)
          PROVE  run'[j].block \in visited["break_check"] \/ \E i \in 2..j : i \in LoopBodies'
      BY <1>2, <1>6, <1>7, <2>4 DEF RunInv
    <2>5. b \in visited["break_check"] \/ \E i \in 2..k : i \in LoopBodies'
      <3>. DEFINE stat == StatAt(source, run[k - 1])
      <3>1. k - 1 \in 1..(k - 1) /\ k \in 2..k /\ run'[k - 1] = run[k - 1]
        BY <1>2
      <3>2. CASE IsLoop(stat)
        BY <1>2, <1>4, <3>1, <3>2 DEF LoopBodies
      <3>3. CASE ~IsLoop(stat) /\ run[k - 1].block \in visited["break_check"]
        <4>1. stat \in Stat
          BY <1>1, <1>3, StatAtProps
        <4>2. EntersBlocksOf(stat)
          BY <3>3, <4>1, OwnersAreEntered
        <4>3. Confined(stat)
          BY <1>3, <3>3 DEF BreakInv, InRange, StatAt, Frame
        <4>. QED BY <4>2, <4>3 DEF Confined
      <3>4. CASE \E i \in 2..(k - 1) : i \in LoopBodies'
        <4>1. \A i \in 2..(k - 1) : i \in 2..k
          OBVIOUS
        <4>. QED BY <3>4, <4>1
      <3>. QED BY <2>4, <3>1, <3>2, <3>3, <3>4
    <2>6. \A j \in 1..Len(run') : run'[j].block \in visited'["break_check"]
                                  \/ \E i \in 2..j : i \in LoopBodies'
      BY <1>2, <1>3, <1>4, <1>5, <2>4, <2>5
    <2>. QED BY <1>4, <2>1, <2>2, <2>3, <2>6 DEF RunInv, Stops, GuaranteedReturn
  <1>9. TypeOK' /\ WalkInv' /\ BreakInv' /\ PruneInv'
    BY <1>2, RunKeepsTheRest DEF TypeOK
  <1>. QED BY <1>8, <1>9

\* A loop can be left, whatever is in its body.
LEMMA LoopsDoNotStop == ASSUME NEW s, IsLoop(s) PROVE ~Stops(s)
  BY DEF IsLoop, LoopKind, ExitKind, Stops, GuaranteedReturn

\* A block whose end an execution reaches does not return.
LEMMA EndReachedDoesNotReturn ==
    ASSUME IInv, pass = "run", NEW k \in 1..Len(run), ~InRange(source, run[k])
    PROVE  ~returns[run[k].block]
  <1>. USE DEF IInv
  <1>. DEFINE b == run[k].block
              kept == Len(stat_nodes[b])
  <1>1. run[k] \in Frame /\ b \in Block /\ run[k].pc \in Nat
    <2>1. run \in Seq(Frame)
      BY DEF TypeOK
    <2>2. run[k] \in Frame
      BY <2>1
    <2>. QED BY <2>2 DEF Frame
  <1>2. kept \in Nat /\ Len(source[b]) \in Nat
    BY <1>1 DEF TypeOK, BuilderTypeOK, Tree
  <1>3. \A i \in 1..(run[k].pc - 1) : ~Stops(source[b][i])
    BY DEF RunInv
  <1>4. run[k].pc > Len(source[b])
    BY <1>1, <1>2 DEF InRange
  <1>5. SUFFICES ASSUME returns[b] PROVE FALSE
    OBVIOUS
  <1>6. kept > 0 /\ kept <= Len(source[b]) /\ Stops(source[b][kept])
    BY <1>1, <1>5 DEF PruneInv, PrunedWell
  <1>7. kept \in 1..(run[k].pc - 1)
    BY <1>1, <1>2, <1>4, <1>6
  <1>. QED BY <1>3, <1>6, <1>7

\* Neither does the statement, other than a loop, that owns such a block.
LEMMA EndOfBlockDoesNotStop ==
    ASSUME IInv, pass = "run", run # <<>>, Len(run) \in 2..Len(run),
           ~InRange(source, RunFrame), InRange(source, run[Len(run) - 1])
    PROVE  ~Stops(StatAt(source, run[Len(run) - 1]))
  <1>. USE DEF IInv
  <1>. DEFINE k == Len(run)
              child == run[k].block
              parent == run[k - 1]
              s == StatAt(source, parent)
  <1>1. k \in 2..Len(run) /\ RunFrame = run[k] /\ run[k] \in Frame /\ parent \in Frame
    BY LenProps DEF TypeOK, RunFrame, Top
  <1>2. source \in Tree /\ stat_nodes \in Tree
    BY DEF TypeOK, BuilderTypeOK
  <1>3. child \in SubBlocks(s)
    BY <1>1 DEF RunInv
  <1>4. ~returns[child]
    BY <1>1, EndReachedDoesNotReturn
  <1>5. s \in Stat
    BY <1>1, <1>2, StatAtProps
  <1>. HIDE DEF s, child
  <1>6. ~Stops(s)
    BY <1>3, <1>4, <1>5 DEF Stops, GuaranteedReturn, Stat, NodeFields, LeafKind, ExitKind, SubBlocks
  <1>. QED BY <1>6 DEF s

\* Back at the test of a loop, or behind the loop.
LEMMA AnotherTurnStep ==
    ASSUME IInv, pass = "run", NEW k \in LoopBodies, AnotherTurn(k),
           UNCHANGED <<builderVars, walkVars, outcome>>
    PROVE  IInv'
  <1>. DEFINE loop == StatAt(source, run[k - 1])
  <1>1. k \in 2..Len(run) /\ IsLoop(loop) /\ run # <<>> /\ TypeOK
    BY DEF LoopBodies, IInv, RunInv
  <1>2. InRange(source, run[k - 1]) /\ k \in 2..(Len(run) + 1)
    BY <1>1, RunTypes DEF IInv, RunInv
  <1>3. loop.body \in Block
    BY <1>1, <1>2, RunTypes
  <1>4. loop.body \in SubBlocks(loop)
    BY <1>3 DEF SubBlocks, Block, NoBlock
  <1>5. CASE ContinueIn(k, loop.body)
    BY <1>2, <1>3, <1>4, <1>5, ContinueInStep
  <1>6. CASE ContinueAfter(k)
    BY <1>1, <1>2, <1>6, ContinueAfterStep, LoopsDoNotStop
  <1>. QED BY <1>5, <1>6 DEF AnotherTurn

\* The statement an execution is at, as the frame below frame Len(run) + 1.
LEMMA AtRunProps ==
    ASSUME IInv, AtRun
    PROVE  /\ pass = "run" /\ run # <<>> /\ TypeOK
           /\ Len(run) + 1 \in 2..(Len(run) + 1)
           /\ run[(Len(run) + 1) - 1] = RunFrame
           /\ InRange(source, RunFrame) /\ RunAt = StatAt(source, RunFrame)
           /\ RunAt \in Stat
  <1>1. pass = "run" /\ run # <<>> /\ TypeOK
    BY DEF IInv, AtRun, CanRun, RunInv
  <1>2. Len(run) \in Nat \ {0}
    BY <1>1, LenProps, OneOrMore DEF TypeOK
  <1>3. RunAt \in Stat
    BY <1>1, RunTypes
  <1>4. (Len(run) + 1) - 1 = Len(run)
    BY <1>2
  <1>. QED BY <1>1, <1>2, <1>3, <1>4 DEF AtRun, RunFrame, RunAt, Top

\* The execution keeps the invariant.
LEMMA RunStep == ASSUME IInv, Run PROVE IInv'
  <1>. USE DEF RunUnchanged
  <1>1. ASSUME AtRun, ~Stops(RunAt), ContinueAfter(Len(run) + 1), RunUnchanged
        PROVE  IInv'
    BY <1>1, AtRunProps, ContinueAfterStep
  <1>2. CASE RunSimple
    BY <1>1, <1>2 DEF RunSimple, Stops, GuaranteedReturn, ExitKind
  <1>3. CASE RunReturn
    <2>1. TypeOK' /\ WalkInv' /\ BreakInv' /\ PruneInv'
      BY <1>3, AtRunProps, RunKeepsTheRest DEF RunReturn, TypeOK, Outcome, IInv
    <2>2. RunInv'
      <3>1. RunInv /\ UNCHANGED <<run, source, visited, returns, pass>>
        BY <1>3 DEF RunReturn, walkVars, IInv
      <3>. QED BY <3>1 DEF RunInv, Stops, GuaranteedReturn, LoopBodies
    <2>. QED BY <2>1, <2>2 DEF IInv
  <1>4. CASE RunEnter
    <2>1. PICK b \in SubBlocks(RunAt) : ContinueIn(Len(run) + 1, b)
      BY <1>4 DEF RunEnter
    <2>2. AtRun /\ b \in Block
      BY <1>4, AtRunProps DEF RunEnter, SubBlocks, Stat, NodeFields
    <2>. QED BY <1>4, <2>1, <2>2, AtRunProps, ContinueInStep DEF RunEnter
  <1>5. CASE RunSkip
    <2>1. AtRun /\ ~Stops(RunAt)
      BY <1>5 DEF RunSkip, MaySkip, Stops, GuaranteedReturn, ExitKind
    <2>. QED BY <1>1, <1>5, <2>1 DEF RunSkip
  <1>6. CASE RunBreak
    <2>1. PICK k \in LoopBodies : ContinueAfter(k)
      BY <1>6 DEF RunBreak
    <2>2. /\ pass = "run" /\ run # <<>> /\ IsLoop(StatAt(source, run[k - 1]))
          /\ k \in 2..(Len(run) + 1) /\ InRange(source, run[k - 1])
      BY <1>6, AtRunProps DEF RunBreak, LoopBodies, IInv, RunInv
    <2>. QED BY <1>6, <2>1, <2>2, ContinueAfterStep, LoopsDoNotStop DEF RunBreak
  <1>7. CASE RunContinue
    BY <1>7, AtRunProps, AnotherTurnStep DEF RunContinue
  <1>8. CASE RunEndOfBlock
    <2>1. pass = "run" /\ run # <<>> /\ TypeOK
      BY <1>8 DEF RunEndOfBlock, CanRun, IInv, RunInv
    <2>2. Len(run) \in Nat /\ Len(run) > 1
      BY <1>8, <2>1, LenProps DEF RunEndOfBlock, TypeOK
    <2>3. Len(run) \in 2..Len(run) /\ Len(run) \in 2..(Len(run) + 1)
      BY <2>2
    <2>4. CASE Len(run) \in LoopBodies
      BY <1>8, <2>1, <2>4, AnotherTurnStep DEF RunEndOfBlock
    <2>5. CASE Len(run) \notin LoopBodies
      <3>1. InRange(source, run[Len(run) - 1])
        BY <2>1, <2>3 DEF IInv, RunInv
      <3>2. ~Stops(StatAt(source, run[Len(run) - 1]))
        BY <1>8, <2>1, <2>3, <3>1, EndOfBlockDoesNotStop DEF RunEndOfBlock
      <3>. QED BY <1>8, <2>1, <2>3, <2>5, <3>1, <3>2, ContinueAfterStep DEF RunEndOfBlock
    <2>. QED BY <2>4, <2>5
  <1>. QED BY <1>2, <1>3, <1>4, <1>5, <1>6, <1>7, <1>8 DEF Run

-----------------------------------------------------------------------------
(* The theorems.                                                           *)

\* Every step of the passes and of the execution keeps the invariant.
LEMMA NextIInv == IInv /\ [Next]_vars => IInv'
  <1>. SUFFICES ASSUME IInv, [Next]_vars PROVE IInv'
    OBVIOUS
  <1>1. CASE Walk
    BY <1>1, BreakCheckStep, ReturnCheckStep, BreakPruneStep DEF Walk
  <1>2. CASE UNCHANGED vars
    <2>1. TypeOK'
      BY <1>2 DEF IInv, TypeOK, BuilderTypeOK, vars, builderVars, walkVars, runVars
    <2>2. WalkInv' /\ BreakInv'
      BY <1>2 DEF IInv, WalkInv, BreakInv, Confined, vars, builderVars, walkVars
    <2>3. PruneInv'
      BY <1>2 DEF IInv, PruneInv, PrunedWell, Stops, GuaranteedReturn,
                  vars, builderVars, walkVars
    <2>4. RunInv'
      BY <1>2 DEF IInv, RunInv, Stops, GuaranteedReturn, LoopBodies,
                  vars, builderVars, walkVars, runVars
    <2>. QED BY <2>1, <2>2, <2>3, <2>4 DEF IInv
  <1>. QED BY <1>1, <1>2, BuildingStep, StartStep, RunStep DEF Next, Done

\* The invariant the other theorems rest on holds in every reachable state.
THEOREM Invariance == Spec => []IInv
  BY InitIInv, NextIInv, PTL DEF Spec

\* Type correctness: whatever the passes cut off, the tree stays a tree.
THEOREM TypeCorrect == Spec => []TypeOK
  <1>1. IInv => TypeOK
    BY DEF IInv
  <1>. QED BY <1>1, Invariance, PTL

(***************************************************************************)
(* An accepted subroutine does not run off the end of its body:            *)
(* visitFuncDefNode and visitProcDefNode threw unless the body returns.    *)
(***************************************************************************)
THEOREM AcceptedNeverFallsOff == Spec => []NoFallOff
  <1>1. ASSUME IInv, CanRun, Len(run) = 1 PROVE InRange(source, RunFrame)
    <2>1. pass = "run" /\ run # <<>>
      BY <1>1 DEF CanRun, IInv, RunInv
    <2>2. run[1].block = Root /\ returns[Root]
      BY <1>1, <2>1 DEF IInv, RunInv, PruneInv
    <2>3. 1 \in 1..Len(run) /\ RunFrame = run[1]
      BY <1>1 DEF RunFrame, Top
    <2>. QED BY <1>1, <2>1, <2>2, <2>3, EndReachedDoesNotReturn
  <1>2. IInv => NoFallOff
    BY <1>1 DEF NoFallOff
  <1>. QED BY <1>2, Invariance, PTL

(***************************************************************************)
(* What visitBlockNode of the two pruning walkers cuts off is never        *)
(* reached by an execution of the program as written.                      *)
(***************************************************************************)
THEOREM PruningIsSound == Spec => []PrunedIsUnreachable
  <1>1. ASSUME IInv, AtRun PROVE InRange(stat_nodes, RunFrame)
    <2>. DEFINE b == RunFrame.block
                kept == Len(stat_nodes[b])
    <2>1. TypeOK /\ pass = "run" /\ run # <<>>
      BY <1>1, AtRunProps
    <2>2. Len(run) \in 1..Len(run) /\ RunFrame = run[Len(run)]
      BY <2>1, LenProps, OneOrMore DEF TypeOK, RunFrame, Top
    <2>3. RunFrame \in Frame /\ b \in Block /\ RunFrame.pc \in Nat
      <3>1. RunFrame \in Frame
        BY <2>1, TopProps DEF TypeOK, RunFrame
      <3>. QED BY <3>1 DEF Frame
    <2>4. kept \in Nat /\ Len(source[b]) \in Nat
      BY <2>1, <2>3 DEF TypeOK, BuilderTypeOK, Tree
    <2>5. RunFrame.pc <= Len(source[b])
      BY <1>1 DEF AtRun, InRange
    <2>6. SUFFICES ASSUME RunFrame.pc > kept PROVE FALSE
      BY <2>3, <2>4 DEF InRange
    <2>7. kept < Len(source[b])
      BY <2>3, <2>4, <2>5, <2>6
    <2>8. kept > 0 /\ Stops(source[b][kept])
      BY <1>1, <2>1, <2>3, <2>7 DEF IInv, PruneInv, PrunedWell
    <2>9. kept \in 1..(RunFrame.pc - 1)
      BY <2>3, <2>4, <2>6, <2>8
    <2>. QED BY <1>1, <2>2, <2>8, <2>9 DEF IInv, RunInv
  <1>2. IInv => PrunedIsUnreachable
    BY <1>1 DEF PrunedIsUnreachable
  <1>. QED BY <1>2, Invariance, PTL

(***************************************************************************)
(* Behind a conditional with is_terminal set visitCondNode of CodeGen      *)
(* emits llvm.unreachable; no execution gets there.                        *)
(***************************************************************************)
THEOREM TerminalCondIsTerminal == Spec => []TerminalCondNeverPassed
  <1>1. ASSUME IInv, NEW k \in 1..Len(run), NEW i \in 1..(run[k].pc - 1),
               <<run[k].block, i>> \in is_terminal
        PROVE  FALSE
    <2>1. pass = "run"
      <3>1. run # <<>>
        BY <1>1 DEF IInv, TypeOK
      <3>. QED BY <1>1, <3>1 DEF IInv, RunInv
    <2>2. GuaranteedReturn(source[run[k].block][i])
      BY <1>1, <2>1 DEF IInv, PruneInv
    <2>3. ~Stops(source[run[k].block][i])
      BY <1>1 DEF IInv, RunInv
    <2>. QED BY <2>2, <2>3 DEF Stops
  <1>2. IInv => TerminalCondNeverPassed
    BY <1>1 DEF TerminalCondNeverPassed
  <1>. QED BY <1>2, Invariance, PTL

(***************************************************************************)
(* visitBreakNode and visitContinueNode of CodeGen always find a loop on   *)
(* nested_blocks_stack for a statement an execution reaches.               *)
(***************************************************************************)
THEOREM NoBreakOutsideLoop == Spec => []BreakHasTarget
  <1>1. ASSUME IInv, AtRun, RunAt.kind \in ExitKind PROVE LoopBodies # {}
    <2>1. /\ TypeOK /\ pass = "run" /\ run # <<>>
          /\ RunAt = StatAt(source, RunFrame) /\ InRange(source, RunFrame)
      BY <1>1, AtRunProps
    <2>2. Len(run) \in 1..Len(run) /\ RunFrame = run[Len(run)]
      BY <2>1, LenProps, OneOrMore DEF TypeOK, RunFrame, Top
    <2>3. CASE RunFrame.block \in visited["break_check"]
      <3>1. RunFrame \in Frame /\ source \in Tree
        BY <2>1, TopProps DEF TypeOK, RunFrame
      <3>2. RunFrame.pc \in 1..Len(source[RunFrame.block])
        BY <2>1, <3>1, StatAtProps
      <3>3. Confined(RunAt)
        BY <1>1, <2>1, <2>3, <3>2 DEF IInv, BreakInv, StatAt
      <3>. QED BY <1>1, <3>3 DEF Confined
    <2>4. \/ RunFrame.block \in visited["break_check"]
          \/ \E j \in 2..Len(run) : j \in LoopBodies
      BY <1>1, <2>2 DEF IInv, RunInv
    <2>. QED BY <2>3, <2>4
  <1>2. IInv => BreakHasTarget
    BY <1>1 DEF BreakHasTarget
  <1>. QED BY <1>2, Invariance, PTL

(***************************************************************************)
(* The passes only shorten blocks (stat_nodes.resize), and the tree is     *)
(* final when the code generator gets it.                                  *)
(***************************************************************************)
THEOREM PassesShorten == Spec => PassesOnlyShorten
  <1>. DEFINE Shorter(b) ==
                /\ Len(stat_nodes'[b]) <= Len(stat_nodes[b])
                /\ stat_nodes'[b] = SubSeq(stat_nodes[b], 1, Len(stat_nodes'[b]))
                /\ pass = "run" => stat_nodes'[b] = stat_nodes[b]
  <1>1. ASSUME IInv, [Next]_vars, pass # "build", NEW b \in Block PROVE Shorter(b)
    <2>1. stat_nodes \in Tree /\ stat_nodes[b] \in Seq(Stat)
      BY <1>1 DEF IInv, TypeOK, BuilderTypeOK, Tree
    <2>2. CASE UNCHANGED stat_nodes
      BY <2>1, <2>2
    <2>3. CASE Prune /\ AtStat /\ pass # "run"
      <3>. DEFINE f == Top(frames)
      <3>1. f \in Frame /\ f.pc \in 1..Len(stat_nodes[f.block])
        BY <1>1, <2>1, <2>3, TopProps, StatAtProps DEF AtStat, IInv, TypeOK
      <3>2. CASE b = f.block
        <4>1. stat_nodes'[b] = SubSeq(stat_nodes[b], 1, f.pc)
          BY <2>1, <2>3, <3>2 DEF Prune, Tree
        <4>. HIDE DEF f
        <4>2. Len(stat_nodes'[b]) = f.pc /\ f.pc <= Len(stat_nodes[b])
          BY <2>1, <3>1, <3>2, <4>1
        <4>. QED BY <2>3, <4>1, <4>2
      <3>3. CASE b # f.block
        <4>1. stat_nodes'[b] = stat_nodes[b]
          BY <2>1, <2>3, <3>3 DEF Prune, Tree
        <4>. QED BY <2>1, <4>1
      <3>. QED BY <3>2, <3>3
    <2>4. UNCHANGED stat_nodes \/ (Prune /\ AtStat /\ pass # "run")
      BY <1>1 DEF Next, Building, StartPasses, Walk, Run, Done, vars, builderVars,
         UntouchedTree, RunUnchanged,
         BreakOutsideLoop, BreakCheckStat, BreakCheckLeave,
         ReturnCheckDescend, ReturnCheckNext, ReturnCheckPrune, ReturnCheckLeave,
         BreakPruneDescend, BreakPruneStat, BreakPruneLeave,
         RunSimple, RunReturn, RunEnter, RunSkip, RunBreak, RunContinue, RunEndOfBlock
    <2>. QED BY <2>2, <2>3, <2>4
  <1>2. IInv /\ [Next]_vars => [pass # "build" => \A b \in Block : Shorter(b)]_vars
    BY <1>1
  <1>. QED BY <1>2, Invariance, PTL DEF Spec, PassesOnlyShorten

-----------------------------------------------------------------------------
(* The walks compute the functions of PassFunctions.                       *)

\* The break check, as long as it runs, is inside blocks a break or continue
\* only gets out of when it gets out of the body.
BreakAgrees ==
    pass = "break_check" =>
        \A Z \in SUBSET Block : LooseIn(source, Z) =>
            \A k \in 1..Len(frames) : frames[k].block \in Z => Root \in Z

\* The return check cuts the written tree, and has the verdicts Returning has.
ReturnAgrees ==
    pass = "return_check" =>
        /\ WalkOf(source, Returns(source), visited["return_check"], stat_nodes, frames, "leaves")
        /\ \A b \in Block : returns[b] <=> b \in visited["return_check"] /\ b \in Returning(source)

\* The break prune cuts what the return check left.
PruneAgrees ==
    pass = "break_prune" =>
        LET tree == ReturnPruned(source)
        IN WalkOf(tree, Exits(tree), visited["break_prune"], stat_nodes, frames, "stays")

\* What is known when a walk is over, and before it starts.
VerdictsAgree ==
    /\ pass = "build" => BuildInv
    /\ pass # "build" => ParentsFirst(source)
    /\ pass \in {"build", "break_check"} => visited["return_check"] = {}
    /\ pass \in {"build", "break_check", "return_check"} => visited["break_prune"] = {}
    /\ pass \in {"break_prune", "run"} => Root \in Returning(source)
    /\ pass = "run" => stat_nodes = ExitPruned(ReturnPruned(source))
    /\ pass = "rejected" => HasLooseExit(source) \/ Root \notin Returning(source)

AgreeInv == BreakAgrees /\ ReturnAgrees /\ PruneAgrees /\ VerdictsAgree

\* The tree as it is before anything is read.
LEMMA InitAgree == Init => AgreeInv
  <1>. SUFFICES ASSUME Init PROVE AgreeInv
    OBVIOUS
  <1>1. \A b \in Block : stat_nodes[b] = <<>>
    BY DEF Init, BuilderInit
  <1>2. \A b \in Block : DOMAIN stat_nodes[b] = {}
    BY <1>1
  <1>3. Shape(stat_nodes) /\ Opened(stat_nodes, used) /\ NoFrees(stat_nodes)
        /\ ReturnsNote(stat_nodes, {NoScope})
    BY <1>2 DEF Shape, ParentsFirst, OneOwner, Opened, NoFrees, ReturnsNote
  <1>4. \A k \in DOMAIN open : open[k] <= used
    BY DEF Init, BuilderInit, Root
  <1>5. visited["return_check"] = {} /\ visited["break_prune"] = {} /\ pass = "build"
    BY DEF Init, Pass
  <1>. QED BY <1>3, <1>4, <1>5 DEF AgreeInv, BreakAgrees, ReturnAgrees, PruneAgrees,
              VerdictsAgree, BuildInv

\* Reading the text, and handing the tree to the first pass.
LEMMA BuildAgrees ==
    ASSUME IInv, AgreeInv, Building \/ StartPasses
    PROVE  AgreeInv'
  <1>. USE DEF AgreeInv
  <1>1. pass = "build" /\ BuildInv /\ visited["return_check"] = {} /\ visited["break_prune"] = {}
    BY DEF Building, StartPasses, VerdictsAgree
  <1>2. CASE Building
    <2>1. BuildInv'
      BY <1>1, <1>2, BuildKeepsInv DEF Building, IInv, TypeOK
    <2>2. pass' = "build" /\ visited' = visited
      BY <1>1, <1>2 DEF Building, walkVars
    <2>. QED BY <1>1, <2>1, <2>2 DEF BreakAgrees, ReturnAgrees, PruneAgrees, VerdictsAgree
  <1>3. CASE StartPasses
    <2>1. /\ pass' = "break_check" /\ visited' = visited /\ source' = stat_nodes
          /\ frames' = <<Enter(Root)>>
      BY <1>3 DEF StartPasses
    <2>2. \A k \in 1..Len(frames') : frames'[k].block = Root
      BY <2>1, FrameProps, RootIsBlock
    <2>3. ParentsFirst(source')
      BY <1>1, <2>1 DEF BuildInv, Shape
    <2>. QED BY <1>1, <2>1, <2>2, <2>3
         DEF BreakAgrees, ReturnAgrees, PruneAgrees, VerdictsAgree
  <1>. QED BY <1>2, <1>3

\* The block the break check is in, and the statement it is at.
LEMMA BreakCheckAt ==
    ASSUME IInv, AgreeInv, pass = "break_check", NEW Z \in SUBSET Block, LooseIn(source, Z)
    PROVE  /\ Top(frames).block \in Z => Root \in Z
           /\ AtStat => /\ Here.kind \in ExitKind => Top(frames).block \in Z
                        /\ EntersBlocksOf(Here) /\ SubBlocks(Here) \cap Z # {} =>
                             Top(frames).block \in Z
  <1>. DEFINE f == Top(frames)
  <1>1. /\ frames # <<>> /\ frames \in Seq(Frame) /\ stat_nodes = source /\ source \in Tree
    BY DEF IInv, TypeOK, WalkInv, BreakInv, Pass
  <1>2. Len(frames) \in 1..Len(frames) /\ f = frames[Len(frames)] /\ f \in Frame
    BY <1>1, LenProps, OneOrMore, TopProps DEF Top
  <1>3. f.block \in Z => Root \in Z
    BY <1>2 DEF AgreeInv, BreakAgrees
  <1>4. ASSUME AtStat
        PROVE  /\ f.block \in Block /\ f.pc \in DOMAIN source[f.block]
               /\ Here = source[f.block][f.pc]
    <2>1. f.pc \in 1..Len(source[f.block])
      BY <1>1, <1>2, <1>4, StatAtProps DEF AtStat
    <2>. QED BY <1>1, <1>2, <2>1, StatsOfTree DEF Frame, Here, StatAt
  <1>. HIDE DEF f
  <1>5. ASSUME AtStat, Here.kind \in ExitKind PROVE f.block \in Z
    BY <1>4, <1>5 DEF LooseIn, IsExit
  <1>6. ASSUME AtStat, EntersBlocksOf(Here), SubBlocks(Here) \cap Z # {} PROVE f.block \in Z
    BY <1>4, <1>6 DEF LooseIn, EntersBlocksOf
  <1>. QED BY <1>3, <1>5, <1>6 DEF f

\* The break check.
LEMMA BreakCheckAgrees ==
    ASSUME IInv, AgreeInv, BreakOutsideLoop \/ BreakCheckStat \/ BreakCheckLeave
    PROVE  AgreeInv'
  <1>1. /\ pass = "break_check" /\ frames # <<>> /\ frames \in Seq(Frame)
        /\ source \in Tree /\ source' = source /\ stat_nodes = source /\ stat_nodes' = source
        /\ returns' = returns /\ returns = [b \in Block |-> FALSE]
        /\ frames[1].block = Root /\ ParentsFirst(source)
        /\ visited \in [Pass -> SUBSET Block]
        /\ visited["return_check"] = {} /\ visited["break_prune"] = {}
    BY DEF BreakOutsideLoop, BreakCheckStat, BreakCheckLeave, AtStat, UntouchedTree,
           builderVars, IInv, TypeOK, WalkInv, BreakInv, AgreeInv, VerdictsAgree
  <1>2. ASSUME NEW Z \in SUBSET Block, LooseIn(source, Z), NEW k \in 1..Len(frames),
               frames[k].block \in Z
        PROVE  Root \in Z
    BY <1>1, <1>2 DEF AgreeInv, BreakAgrees
  <1>3. SUFFICES ASSUME NEW Z \in SUBSET Block, LooseIn(source, Z),
                        HasLooseExit(source) <=> Root \in Z
                 PROVE  AgreeInv'
    BY <1>1, LooseDef
  <1>4. CASE BreakOutsideLoop
    <2>1. Root \in Z
      BY <1>1, <1>3, <1>4, BreakCheckAt DEF BreakOutsideLoop
    <2>2. pass' = "rejected" /\ visited' = visited
      BY <1>4 DEF BreakOutsideLoop, Reject
    <2>. QED BY <1>1, <1>3, <2>1, <2>2
         DEF AgreeInv, BreakAgrees, ReturnAgrees, PruneAgrees, VerdictsAgree
  <1>5. ASSUME pass' = "break_check", visited'["return_check"] = {},
               visited'["break_prune"] = {},
               \A Y \in SUBSET Block : LooseIn(source, Y) =>
                  \A k \in 1..Len(frames') : frames'[k].block \in Y => Root \in Y
        PROVE  AgreeInv'
    BY <1>1, <1>5 DEF AgreeInv, BreakAgrees, ReturnAgrees, PruneAgrees, VerdictsAgree
  <1>6. CASE BreakCheckStat /\ EntersBlocksOf(Here) /\ Pending(Here) # {}
    <2>1. AtStat /\ Descend
      BY <1>6 DEF BreakCheckStat
    <2>2. Here \in Stat
      BY <1>1, <2>1, WalkStepTypes DEF IInv, Pass
    <2>3. PICK c \in Block : frames' = Append(frames, Enter(c)) /\ c \in SubBlocks(Here)
      BY <1>6, <2>1, <2>2, StatProps DEF Descend, Pending, SubBlocks
    <2>4. /\ Len(frames') = Len(frames) + 1
          /\ \A k \in 1..Len(frames) : frames'[k] = frames[k]
          /\ frames'[Len(frames) + 1].block = c
      <3>1. PICK e \in Frame : e = Enter(c)
        BY FrameProps
      <3>2. e.block = c
        BY <3>1, FrameProps
      <3>3. frames' = Append(frames, e)
        BY <2>3, <3>1
      <3>. QED BY <1>1, <3>2, <3>3, AppendProps
    <2>5. ASSUME NEW Y \in SUBSET Block, LooseIn(source, Y), NEW k \in 1..Len(frames'),
                 frames'[k].block \in Y
          PROVE  Root \in Y
      <3>1. Len(frames) \in Nat
        BY <1>1, LenProps
      <3>2. CASE k \in 1..Len(frames)
        BY <1>2, <2>4, <2>5, <3>2
      <3>3. CASE k = Len(frames) + 1
        BY <1>1, <1>6, <2>1, <2>3, <2>4, <2>5, <3>3, BreakCheckAt
      <3>. QED BY <2>4, <3>1, <3>2, <3>3
    <2>. QED BY <1>1, <1>5, <2>1, <2>5 DEF Descend
  <1>7. CASE BreakCheckStat /\ ~(EntersBlocksOf(Here) /\ Pending(Here) # {})
    <2>1. NextStat
      BY <1>7 DEF BreakCheckStat
    <2>2. /\ Len(frames') = Len(frames)
          /\ \A k \in 1..(Len(frames) - 1) : frames'[k] = frames[k]
          /\ frames'[Len(frames)].block = frames[Len(frames)].block
      BY <1>1, <2>1, WalkStepFrames
    <2>3. \A k \in 1..Len(frames) : k = Len(frames) \/ k \in 1..(Len(frames) - 1)
      BY <1>1, LenProps
    <2>4. \A k \in 1..Len(frames') : k \in 1..Len(frames) /\ frames'[k].block = frames[k].block
      BY <2>2, <2>3
    <2>. QED BY <1>1, <1>2, <1>5, <2>1, <2>4 DEF NextStat
  <1>8. CASE BreakCheckLeave
    <2>1. LeaveBlock("return_check")
      BY <1>8 DEF BreakCheckLeave
    <2>2. visited'["return_check"] = {} /\ visited'["break_prune"] = {}
      BY <1>1, <2>1 DEF LeaveBlock, Pass
    <2>3. CASE Len(frames) > 1
      <3>1. /\ pass' = pass /\ Len(frames') = Len(frames) - 1
            /\ \A k \in 1..(Len(frames) - 1) : frames'[k] = frames[k]
        BY <1>1, <2>1, <2>3, WalkStepFrames
      <3>2. \A k \in 1..(Len(frames) - 1) : k \in 1..Len(frames)
        BY <1>1, LenProps
      <3>. QED BY <1>1, <1>2, <1>5, <2>2, <3>1, <3>2
    <2>4. CASE Len(frames) = 1
      <3>1. pass' = "return_check" /\ frames' = <<Enter(Root)>>
        BY <2>1, <2>4 DEF LeaveBlock, Pass
      <3>2. WalkOf(source, Returns(source), {}, source, frames', "leaves")
        BY <1>1, <3>1, ReturnPrunedDef, WalkStarts
      <3>3. \A b \in Block : returns[b] <=> b \in {} /\ b \in Returning(source)
        BY <1>1
      <3>. QED BY <1>1, <2>2, <3>1, <3>2, <3>3
           DEF AgreeInv, BreakAgrees, ReturnAgrees, PruneAgrees, VerdictsAgree
    <2>. QED BY <1>1, <2>3, <2>4, OneFrameOrMore
  <1>. QED BY <1>4, <1>6, <1>7, <1>8

\* A walk goes down: the block it enters is one it has not left.
LEMMA DescendsInto ==
    ASSUME AtStat, Pending(Here) # {}, Descend
    PROVE  \E c \in SubBlocks(Here) : c \notin visited[pass] /\ frames' = Append(frames, Enter(c))
  BY DEF Descend, Pending, SubBlocks

\* What the two pruning walks have in common: the tree they were given, the
\* blocks they have left, and how each step moves the walk.
LEMMA PruningWalk ==
    ASSUME IInv, pass \in {"return_check", "break_prune"},
           NEW tree \in Tree, ParentsFirst(tree), NEW stops, StopsIn(tree, stops),
           NEW mode, WalkOf(tree, stops, visited[pass], stat_nodes, frames, mode)
    PROVE  /\ AtStat => /\ Top(frames).block \in Block
                        /\ Top(frames).pc \in DOMAIN tree[Top(frames).block]
                        /\ Here = tree[Top(frames).block][Top(frames).pc] /\ Here \in Stat
           /\ AtStat /\ Pending(Here) # {} /\ Descend =>
                WalkOf(tree, stops, visited[pass], stat_nodes, frames', mode)
           /\ AtStat /\ Pending(Here) = {} /\ Top(frames).pc \notin stops[Top(frames).block]
              /\ NextStat => WalkOf(tree, stops, visited[pass], stat_nodes, frames', mode)
           /\ AtStat /\ Pending(Here) = {} /\ Top(frames).pc \in stops[Top(frames).block]
              /\ Prune =>
                /\ stat_nodes' \in Tree
                /\ \A b \in Block : b # Top(frames).block => stat_nodes'[b] = stat_nodes[b]
                /\ Left(tree, stops, visited[pass], stat_nodes', Top(frames).block)
                /\ NextStat /\ mode = "stays" =>
                     WalkOf(tree, stops, visited[pass], stat_nodes', frames', mode)
           /\ ~AtStat => /\ Left(tree, stops, visited[pass], stat_nodes, Top(frames).block)
                         /\ NoStopLeft(stops, mode, Top(frames))
  <1>1. /\ frames # <<>> /\ frames \in Seq(Frame) /\ stat_nodes \in Tree
    BY DEF IInv, TypeOK, BuilderTypeOK, WalkInv, Pass
  <1>2. PICK f : f = Top(frames)
    OBVIOUS
  <1>3. PICK V : V = visited[pass]
    OBVIOUS
  <1>4. PICK nodes \in Tree : nodes = stat_nodes
    BY <1>1
  <1>5. PICK stack \in Seq(Frame) : stack = frames
    BY <1>1
  <1>6. WalkOf(tree, stops, V, nodes, stack, mode) /\ stack # <<>> /\ f = Top(stack)
    BY <1>1, <1>2, <1>3, <1>4, <1>5
  <1>7. AtStat <=> InRange(nodes, f)
    BY <1>1, <1>2, <1>4 DEF AtStat
  <1>8. AtStat => Here = StatAt(nodes, f)
    BY <1>2, <1>4 DEF Here
  <1>9. ASSUME AtStat
        PROVE  /\ f.block \in Block
               /\ f.pc \in DOMAIN tree[f.block]
               /\ Here = tree[f.block][f.pc] /\ Here \in Stat
    <2>1. /\ f.block \in Block \ V /\ f.pc \in Nat \ {0} /\ f.pc <= Len(tree[f.block])
          /\ StatAt(nodes, f) = tree[f.block][f.pc] /\ StatAt(nodes, f) \in Stat
      BY <1>6, <1>7, <1>9, WalkTop
    <2>2. f.pc \in DOMAIN tree[f.block]
      BY <2>1, StatsOfTree
    <2>. QED BY <1>8, <1>9, <2>1, <2>2
  <1>10. ASSUME AtStat, Pending(Here) # {}, Descend
         PROVE  WalkOf(tree, stops, V, nodes, frames', mode)
    <2>1. PICK c \in SubBlocks(StatAt(nodes, f)) : c \notin V /\ frames' = Append(stack, Enter(c))
      BY <1>3, <1>5, <1>8, <1>10, DescendsInto
    <2>. QED BY <1>6, <1>7, <1>10, <2>1, WalkDescends
  <1>11. ASSUME AtStat, Pending(Here) = {}, NextStat, f.pc \notin stops[f.block]
         PROVE  WalkOf(tree, stops, V, nodes, frames', mode)
    <2>1. SubBlocks(StatAt(nodes, f)) \subseteq V
      BY <1>3, <1>8, <1>11 DEF Pending
    <2>2. frames' = SetTop(stack, Advance(f))
      BY <1>2, <1>5, <1>11 DEF NextStat
    <2>. QED BY <1>6, <1>7, <1>11, <2>1, <2>2, WalkMoves
  <1>12. ASSUME AtStat, Pending(Here) = {}, Prune, f.pc \in stops[f.block]
         PROVE  /\ stat_nodes' \in Tree
                /\ \A b \in Block : b # f.block => stat_nodes'[b] = nodes[b]
                /\ Left(tree, stops, V, stat_nodes', f.block)
                /\ NextStat /\ mode = "stays" =>
                     WalkOf(tree, stops, V, stat_nodes', frames', mode)
    <2>1. AtStop(tree, stops, V, nodes, f)
      BY <1>3, <1>7, <1>8, <1>12 DEF Pending, AtStop
    <2>2. stat_nodes' = CutHere(nodes, f)
      BY <1>2, <1>4, <1>12 DEF Prune, CutHere
    <2>3. PICK nodes2 : nodes2 = stat_nodes' /\ nodes2 = CutHere(nodes, f)
      BY <2>2
    <2>4. /\ nodes2 \in Tree
          /\ \A b \in Block : b # f.block => nodes2[b] = nodes[b]
          /\ Left(tree, stops, V, nodes2, f.block)
      <3>1. nodes2 \in Tree
        BY <1>6, <2>1, <2>3, WalkCut
      <3>2. Left(tree, stops, V, nodes2, f.block)
        BY <1>6, <2>1, <2>3, WalkCut
      <3>3. \A b \in Block : b # f.block => nodes2[b] = nodes[b]
        BY <2>3 DEF CutHere, Tree
      <3>. QED BY <3>1, <3>2, <3>3
    <2>5. ASSUME NextStat, mode = "stays" PROVE WalkOf(tree, stops, V, nodes2, frames', mode)
      <3>1. frames' = SetTop(stack, Advance(f))
        BY <1>2, <1>5, <2>5 DEF NextStat
      <3>. QED BY <1>6, <2>1, <2>3, <2>5, <3>1, WalkCuts
    <2>. QED BY <2>3, <2>4, <2>5
  <1>13. ASSUME ~AtStat
         PROVE  /\ Left(tree, stops, V, nodes, f.block)
                /\ NoStopLeft(stops, mode, f)
    <2>1. ~InRange(nodes, f)
      BY <1>7, <1>13
    <2>. QED BY <1>6, <2>1, WalkAtEnd
  <1>. QED BY <1>2, <1>3, <1>4, <1>9, <1>10, <1>11, <1>12, <1>13

\* Leaving a block, which the same step may have cut.
LEMMA PruningWalkLeaves ==
    ASSUME IInv, pass \in {"return_check", "break_prune"},
           NEW tree \in Tree, ParentsFirst(tree), NEW stops, StopsIn(tree, stops),
           NEW mode, WalkOf(tree, stops, visited[pass], stat_nodes, frames, mode),
           stat_nodes' \in Tree,
           \A b \in Block : b # Top(frames).block => stat_nodes'[b] = stat_nodes[b],
           Left(tree, stops, visited[pass], stat_nodes', Top(frames).block),
           NEW p, LeaveBlock(p)
    PROVE  /\ visited'[pass] = visited[pass] \cup {Top(frames).block}
           /\ \A q \in Pass : q # pass => visited'[q] = visited[q]
           /\ Top(frames).block \in Block \ visited[pass]
           /\ Len(frames) > 1 =>
                /\ pass' = pass
                /\ WalkOf(tree, stops, visited'[pass], stat_nodes', frames', mode)
           /\ Len(frames) = 1 =>
                /\ pass' = p
                /\ stat_nodes' = PrunedBy(tree, stops)
                /\ Top(frames).block = Root
                /\ p \in Pass => frames' = <<Enter(Root)>>
  <1>1. /\ frames # <<>> /\ frames \in Seq(Frame) /\ stat_nodes \in Tree
        /\ visited \in [Pass -> SUBSET Block] /\ pass \in Pass /\ frames[1].block = Root
    BY DEF IInv, TypeOK, BuilderTypeOK, WalkInv, Pass
  <1>2. PICK f : f = Top(frames)
    OBVIOUS
  <1>3. PICK V : V = visited[pass]
    OBVIOUS
  <1>4. PICK nodes \in Tree : nodes = stat_nodes
    BY <1>1
  <1>5. PICK stack \in Seq(Frame) : stack = frames
    BY <1>1
  <1>6. PICK nodes2 \in Tree : nodes2 = stat_nodes'
    OBVIOUS
  <1>7. WalkOf(tree, stops, V, nodes, stack, mode) /\ stack # <<>> /\ f = Top(stack)
    BY <1>1, <1>2, <1>3, <1>4, <1>5
  <1>8. /\ \A b \in Block : b # f.block => nodes2[b] = nodes[b]
        /\ Left(tree, stops, V, nodes2, f.block)
    BY <1>2, <1>3, <1>4, <1>6
  <1>9. /\ WalkOf(tree, stops, V \cup {f.block}, nodes2, Pop(stack), mode)
        /\ Len(stack) = 1 /\ f.block = Root => nodes2 = PrunedBy(tree, stops)
    BY <1>7, <1>8, WalkLeaves
  <1>10. f.block \in Block \ V
    BY <1>7, WalkTop
  <1>11. /\ visited'[pass] = V \cup {f.block}
         /\ \A q \in Pass : q # pass => visited'[q] = visited[q]
    BY <1>1, <1>2, <1>3 DEF LeaveBlock
  <1>12. Len(frames) = 1 => f.block = Root
    BY <1>1, <1>2, WalkBottom
  <1>13. ASSUME Len(frames) > 1 PROVE pass' = pass /\ frames' = Pop(frames)
    <2>1. Len(frames) # 1
      BY <1>1, <1>13, LenProps, OneOrMore
    <2>. QED BY <2>1 DEF LeaveBlock
  <1>14. ASSUME Len(frames) = 1
         PROVE  pass' = p /\ (p \in Pass => frames' = <<Enter(Root)>>)
    BY <1>14 DEF LeaveBlock
  <1>. QED BY <1>2, <1>3, <1>5, <1>6, <1>9, <1>10, <1>11, <1>12, <1>13, <1>14

\* The return check's verdict on a statement whose blocks it has left.
LEMMA VerdictOnHere ==
    ASSUME IInv, AgreeInv, pass = "return_check", AtStat, Pending(Here) = {}, Here \in Stat
    PROVE  GuaranteedReturn(Here) <=> ReturnsSurely(Here, Returning(source))
  <1>1. SubBlocks(Here) \subseteq visited["return_check"]
    BY DEF Pending
  <1>2. \A c \in SubBlocks(Here) : c \in Block
    BY StatProps
  <1>3. \A c \in SubBlocks(Here) : returns[c] <=> c \in Returning(source)
    BY <1>1, <1>2 DEF AgreeInv, ReturnAgrees
  <1>4. PICK s \in Stat : s = Here
    OBVIOUS
  <1>5. s.kind = "block" => SubBlocks(s) = {s.body}
    BY BodiesAreBlocks
  <1>6. s.kind = "cond" /\ s.alt # NoBlock => SubBlocks(s) = {s.body, s.alt}
    BY BodiesAreBlocks
  <1>. QED BY <1>3, <1>4, <1>5, <1>6 DEF GuaranteedReturn, ReturnsSurely

\* A step of the return check, as far as AgreeInv goes.
LEMMA ReturnAgreesNext ==
    ASSUME AgreeInv, pass = "return_check", pass' = "return_check", source' = source,
           visited'["break_prune"] = visited["break_prune"], ReturnAgrees'
    PROVE  AgreeInv'
  BY DEF AgreeInv, BreakAgrees, PruneAgrees, VerdictsAgree

\* The return check.
LEMMA ReturnCheckAgrees ==
    ASSUME IInv, AgreeInv,
           ReturnCheckDescend \/ ReturnCheckNext \/ ReturnCheckPrune \/ ReturnCheckLeave
    PROVE  AgreeInv'
  <1>. DEFINE f     == Top(frames)
              stops == Returns(source)
              V     == visited["return_check"]
  <1>1. /\ pass = "return_check" /\ frames # <<>> /\ frames \in Seq(Frame)
        /\ source \in Tree /\ source' = source /\ stat_nodes \in Tree
        /\ returns \in [Block -> BOOLEAN]
        /\ frames[1].block = Root /\ ParentsFirst(source)
        /\ visited["break_prune"] = {}
    BY DEF ReturnCheckDescend, ReturnCheckNext, ReturnCheckPrune, ReturnCheckLeave, AtStat,
           UntouchedTree, IInv, TypeOK, BuilderTypeOK, WalkInv, AgreeInv, VerdictsAgree
  <1>2. StopsIn(source, stops) /\ ReturnPruned(source) = PrunedBy(source, stops)
    BY <1>1, ReturnPrunedDef
  <1>3. /\ WalkOf(source, stops, visited[pass], stat_nodes, frames, "leaves")
        /\ \A b \in Block : returns[b] <=> b \in V /\ b \in Returning(source)
    BY <1>1 DEF AgreeInv, ReturnAgrees
  <1>4. AtStat => /\ f.block \in Block /\ f.pc \in DOMAIN source[f.block]
                  /\ Here = source[f.block][f.pc] /\ Here \in Stat
    BY <1>1, <1>2, <1>3, PruningWalk
  <1>. HIDE DEF stops, V
  <1>5. ASSUME AtStat, Pending(Here) = {}
        PROVE  GuaranteedReturn(Here) <=> f.pc \in stops[f.block]
    <2>1. GuaranteedReturn(Here) <=> ReturnsSurely(Here, Returning(source))
      BY <1>1, <1>4, <1>5, VerdictOnHere
    <2>2. f.pc \in 1..Len(source[f.block])
      BY <1>1, <1>4, <1>5, StatsOfTree
    <2>. QED BY <1>4, <1>5, <2>1, <2>2 DEF stops, Returns
  <1>6. f.block \in Block => (f.block \in Returning(source) <=> stops[f.block] # {})
    BY <1>1, ReturningDef, StatsOfTree DEF stops, Returns
  <1>. HIDE DEF f
  <1>7. CASE ReturnCheckDescend
    <2>1. AtStat /\ Pending(Here) # {} /\ Descend
      BY <1>7 DEF ReturnCheckDescend
    <2>2. WalkOf(source, stops, visited[pass], stat_nodes, frames', "leaves")
      BY <1>1, <1>2, <1>3, <2>1, PruningWalk
    <2>3. pass' = pass /\ visited' = visited /\ returns' = returns /\ stat_nodes' = stat_nodes
      BY <1>7, <2>1 DEF Descend, ReturnCheckDescend, UntouchedTree, builderVars
    <2>4. ReturnAgrees'
      BY <1>1, <1>3, <2>2, <2>3 DEF ReturnAgrees, stops, V
    <2>. QED BY <1>1, <2>3, <2>4, ReturnAgreesNext
  <1>8. CASE ReturnCheckNext
    <2>1. AtStat /\ Pending(Here) = {} /\ NextStat
      BY <1>8 DEF ReturnCheckNext
    <2>2. f.pc \notin stops[f.block]
      BY <1>5, <1>8 DEF ReturnCheckNext
    <2>3. WalkOf(source, stops, visited[pass], stat_nodes, frames', "leaves")
      BY <1>1, <1>2, <1>3, <2>1, <2>2, PruningWalk DEF f
    <2>4. pass' = pass /\ visited' = visited /\ returns' = returns /\ stat_nodes' = stat_nodes
      BY <1>8, <2>1 DEF NextStat, ReturnCheckNext, UntouchedTree, builderVars
    <2>5. ReturnAgrees'
      BY <1>1, <1>3, <2>3, <2>4 DEF ReturnAgrees, stops, V
    <2>. QED BY <1>1, <2>4, <2>5, ReturnAgreesNext
  <1>9. CASE ReturnCheckPrune
    <2>1. /\ AtStat /\ Pending(Here) = {} /\ Prune /\ GuaranteedReturn(Here)
          /\ returns' = [returns EXCEPT ![f.block] = TRUE]
          /\ LeaveBlock("break_prune")
      BY <1>9 DEF ReturnCheckPrune, f
    <2>2. f.pc \in stops[f.block]
      BY <1>5, <2>1
    <2>3. /\ stat_nodes' \in Tree
          /\ \A b \in Block : b # f.block => stat_nodes'[b] = stat_nodes[b]
          /\ Left(source, stops, visited[pass], stat_nodes', f.block)
      BY <1>1, <1>2, <1>3, <2>1, <2>2, PruningWalk DEF f
    <2>4. /\ visited'[pass] = visited[pass] \cup {f.block}
          /\ \A q \in Pass : q # pass => visited'[q] = visited[q]
          /\ f.block \in Block \ visited[pass]
          /\ Len(frames) > 1 =>
               /\ pass' = pass
               /\ WalkOf(source, stops, visited'[pass], stat_nodes', frames', "leaves")
          /\ Len(frames) = 1 =>
               /\ pass' = "break_prune"
               /\ stat_nodes' = PrunedBy(source, stops)
               /\ f.block = Root
               /\ "break_prune" \in Pass => frames' = <<Enter(Root)>>
      BY <1>1, <1>2, <1>3, <2>1, <2>3, PruningWalkLeaves DEF f
    <2>5. f.block \in Returning(source)
      BY <1>6, <2>2, <2>4
    <2>6. visited'["break_prune"] = {}
      BY <1>1, <2>4 DEF Pass
    <2>7. CASE Len(frames) > 1
      <3>1. \A b \in Block : returns'[b] <=> b \in visited'[pass] /\ b \in Returning(source)
        BY <1>1, <1>3, <2>1, <2>4, <2>5 DEF V
      <3>2. ReturnAgrees'
        BY <1>1, <2>4, <2>7, <3>1 DEF ReturnAgrees, stops
      <3>. QED BY <1>1, <2>4, <2>6, <2>7, <3>2, ReturnAgreesNext
    <2>8. CASE Len(frames) = 1
      <3>1. PICK tree \in Tree : tree = ReturnPruned(source)
        BY <1>1, ReturnPrunedProps DEF Shortened
      <3>2. ParentsFirst(tree)
        <4>1. Shortened(source, tree)
          BY <1>1, <3>1, ReturnPrunedProps
        <4>. QED BY <1>1, <4>1 DEF Shortened, ParentsFirst
      <3>3. StopsIn(tree, Exits(tree))
        BY ExitPrunedDef
      <3>4. pass' = "break_prune" /\ frames' = <<Enter(Root)>> /\ stat_nodes' = tree
        BY <1>2, <2>4, <2>8, <3>1 DEF Pass
      <3>5. WalkOf(tree, Exits(tree), {}, tree, frames', "stays")
        BY <3>2, <3>3, <3>4, WalkStarts
      <3>6. PruneAgrees'
        BY <1>1, <2>6, <3>1, <3>4, <3>5 DEF PruneAgrees
      <3>. QED BY <1>1, <2>4, <2>5, <2>8, <3>4, <3>6
           DEF AgreeInv, BreakAgrees, ReturnAgrees, VerdictsAgree
    <2>. QED BY <1>1, <2>7, <2>8, OneFrameOrMore
  <1>10. CASE ReturnCheckLeave
    <2>1. ~AtStat /\ returns' = returns /\ stat_nodes' = stat_nodes
      BY <1>10 DEF ReturnCheckLeave, UntouchedTree, builderVars
    <2>2. /\ Left(source, stops, visited[pass], stat_nodes, f.block)
          /\ NoStopLeft(stops, "leaves", f)
      BY <1>1, <1>2, <1>3, <2>1, PruningWalk DEF f
    <2>3. stops[f.block] = {}
      BY <2>2 DEF NoStopLeft
    <2>4. CASE Len(frames) = 1
      <3>1. Reject
        BY <1>10, <2>4 DEF ReturnCheckLeave
      <3>2. f.block = Root
        BY <1>1, <2>4, WalkBottom DEF f
      <3>3. Root \notin Returning(source)
        BY <1>6, <2>3, <3>2, RootIsBlock
      <3>. QED BY <1>1, <3>1, <3>3
           DEF Reject, AgreeInv, BreakAgrees, ReturnAgrees, PruneAgrees, VerdictsAgree
    <2>5. CASE Len(frames) > 1
      <3>1. LeaveBlock("break_prune")
        <4>1. Len(frames) # 1
          BY <1>1, <2>5, LenProps, OneOrMore
        <4>. QED BY <1>10, <4>1 DEF ReturnCheckLeave
      <3>2. /\ visited'[pass] = visited[pass] \cup {f.block}
            /\ \A q \in Pass : q # pass => visited'[q] = visited[q]
            /\ f.block \in Block \ visited[pass]
            /\ pass' = pass
            /\ WalkOf(source, stops, visited'[pass], stat_nodes', frames', "leaves")
        BY <1>1, <1>2, <1>3, <2>1, <2>2, <2>5, <3>1, PruningWalkLeaves DEF f
      <3>3. f.block \notin Returning(source)
        BY <1>6, <2>3, <3>2
      <3>4. \A b \in Block : returns'[b] <=> b \in visited'[pass] /\ b \in Returning(source)
        BY <1>1, <1>3, <2>1, <3>2, <3>3 DEF V
      <3>5. ReturnAgrees' /\ visited'["break_prune"] = visited["break_prune"]
        BY <1>1, <3>2, <3>4 DEF ReturnAgrees, stops, Pass
      <3>. QED BY <1>1, <3>2, <3>5, ReturnAgreesNext
    <2>. QED BY <1>1, <2>4, <2>5, OneFrameOrMore
  <1>. QED BY <1>7, <1>8, <1>9, <1>10

\* The break prune.
LEMMA BreakPruneAgrees ==
    ASSUME IInv, AgreeInv, BreakPruneDescend \/ BreakPruneStat \/ BreakPruneLeave
    PROVE  AgreeInv'
  <1>. DEFINE f == Top(frames)
  <1>1. /\ pass = "break_prune" /\ frames # <<>> /\ frames \in Seq(Frame)
        /\ source \in Tree /\ source' = source /\ stat_nodes \in Tree
        /\ ParentsFirst(source) /\ Root \in Returning(source)
    BY DEF BreakPruneDescend, BreakPruneStat, BreakPruneLeave, AtStat, UntouchedTree,
           IInv, TypeOK, BuilderTypeOK, WalkInv, AgreeInv, VerdictsAgree
  <1>2. PICK tree \in Tree : tree = ReturnPruned(source)
    BY <1>1, ReturnPrunedProps DEF Shortened
  <1>3. ParentsFirst(tree)
    <2>1. Shortened(source, tree)
      BY <1>1, <1>2, ReturnPrunedProps
    <2>. QED BY <1>1, <2>1 DEF Shortened, ParentsFirst
  <1>4. PICK stops : /\ stops = Exits(tree) /\ StopsIn(tree, stops)
                     /\ ExitPruned(tree) = PrunedBy(tree, stops)
    BY ExitPrunedDef
  <1>5. WalkOf(tree, stops, visited[pass], stat_nodes, frames, "stays")
    BY <1>1, <1>2, <1>4 DEF AgreeInv, PruneAgrees
  <1>6. AtStat => /\ f.block \in Block /\ f.pc \in DOMAIN tree[f.block]
                  /\ Here = tree[f.block][f.pc]
    BY <1>1, <1>3, <1>4, <1>5, PruningWalk
  <1>7. AtStat => (Here.kind \in ExitKind <=> f.pc \in stops[f.block])
    <2>1. AtStat => f.pc \in 1..Len(tree[f.block])
      BY <1>6, StatsOfTree
    <2>. QED BY <1>4, <1>6, <2>1 DEF Exits, IsExit
  <1>. HIDE DEF f
  <1>8. ASSUME pass' = pass, visited' = visited,
               WalkOf(tree, stops, visited[pass], stat_nodes', frames', "stays")
        PROVE  AgreeInv'
    BY <1>1, <1>2, <1>4, <1>8
    DEF AgreeInv, BreakAgrees, ReturnAgrees, PruneAgrees, VerdictsAgree
  <1>9. CASE BreakPruneDescend
    <2>1. AtStat /\ Pending(Here) # {} /\ Descend /\ stat_nodes' = stat_nodes
      BY <1>9 DEF BreakPruneDescend, UntouchedTree, builderVars
    <2>2. WalkOf(tree, stops, visited[pass], stat_nodes, frames', "stays")
      BY <1>1, <1>3, <1>4, <1>5, <2>1, PruningWalk
    <2>. QED BY <1>8, <2>1, <2>2 DEF Descend
  <1>10. CASE BreakPruneStat
    <2>1. AtStat /\ Pending(Here) = {} /\ NextStat
      BY <1>10 DEF BreakPruneStat
    <2>2. CASE Here.kind \in ExitKind
      <3>1. Prune /\ f.pc \in stops[f.block]
        BY <1>7, <1>10, <2>1, <2>2 DEF BreakPruneStat
      <3>2. WalkOf(tree, stops, visited[pass], stat_nodes', frames', "stays")
        BY <1>1, <1>3, <1>4, <1>5, <2>1, <3>1, PruningWalk DEF f
      <3>. QED BY <1>8, <2>1, <3>2 DEF NextStat
    <2>3. CASE Here.kind \notin ExitKind
      <3>1. stat_nodes' = stat_nodes /\ f.pc \notin stops[f.block]
        BY <1>7, <1>10, <2>1, <2>3 DEF BreakPruneStat
      <3>2. WalkOf(tree, stops, visited[pass], stat_nodes, frames', "stays")
        BY <1>1, <1>3, <1>4, <1>5, <2>1, <3>1, PruningWalk DEF f
      <3>. QED BY <1>8, <2>1, <3>1, <3>2 DEF NextStat
    <2>. QED BY <2>2, <2>3
  <1>11. CASE BreakPruneLeave
    <2>1. ~AtStat /\ stat_nodes' = stat_nodes /\ LeaveBlock("run")
      BY <1>11 DEF BreakPruneLeave, UntouchedTree, builderVars
    <2>2. Left(tree, stops, visited[pass], stat_nodes, f.block)
      BY <1>1, <1>3, <1>4, <1>5, <2>1, PruningWalk DEF f
    <2>3. /\ Len(frames) > 1 =>
               /\ pass' = pass
               /\ WalkOf(tree, stops, visited'[pass], stat_nodes', frames', "stays")
          /\ Len(frames) = 1 =>
               /\ pass' = "run"
               /\ stat_nodes' = PrunedBy(tree, stops)
      BY <1>1, <1>3, <1>4, <1>5, <2>1, <2>2, PruningWalkLeaves DEF f
    <2>4. CASE Len(frames) > 1
      BY <1>1, <1>2, <1>4, <2>3, <2>4
      DEF AgreeInv, BreakAgrees, ReturnAgrees, PruneAgrees, VerdictsAgree
    <2>5. CASE Len(frames) = 1
      BY <1>1, <1>2, <1>4, <2>3, <2>5
      DEF AgreeInv, BreakAgrees, ReturnAgrees, PruneAgrees, VerdictsAgree
    <2>. QED BY <1>1, <2>4, <2>5, OneFrameOrMore
  <1>. QED BY <1>9, <1>10, <1>11

\* Every step keeps the agreement; the execution changes nothing of it.
LEMMA NextAgrees == IInv /\ AgreeInv /\ [Next]_vars => AgreeInv'
  <1>. SUFFICES ASSUME IInv, AgreeInv, [Next]_vars PROVE AgreeInv'
    OBVIOUS
  <1>1. ASSUME UNCHANGED <<builderVars, walkVars>> PROVE AgreeInv'
    BY <1>1 DEF AgreeInv, BreakAgrees, ReturnAgrees, PruneAgrees, VerdictsAgree, BuildInv,
                builderVars, walkVars
  <1>2. Run \/ Done \/ UNCHANGED vars => UNCHANGED <<builderVars, walkVars>>
    BY DEF Run, Done, vars, RunUnchanged, RunSimple, RunReturn, RunEnter, RunSkip, RunBreak,
           RunContinue, RunEndOfBlock
  <1>. QED BY <1>1, <1>2, BuildAgrees, BreakCheckAgrees, ReturnCheckAgrees, BreakPruneAgrees
       DEF Next, Walk

(***************************************************************************)
(* The three walkers, which descend one call at a time and shorten the     *)
(* vectors they iterate over, reject exactly the trees PassFunctions says  *)
(* they reject and leave of the others the tree it says they leave.        *)
(***************************************************************************)
THEOREM WalksAgree == Spec => []WalksComputeFunctions
  <1>1. ASSUME IInv, AgreeInv PROVE WalksComputeFunctions
    <2>1. ASSUME pass = "run" PROVE ~HasLooseExit(source)
      <3>1. /\ source \in Tree /\ ParentsFirst(source) /\ Root \in visited["break_check"]
            /\ visited["break_check"] \in SUBSET Block
        BY <1>1, <2>1 DEF IInv, TypeOK, BreakInv, AgreeInv, VerdictsAgree, Pass
      <3>2. \A b \in visited["break_check"] : \A i \in 1..Len(source[b]) : Confined(source[b][i])
        BY <1>1 DEF IInv, BreakInv
      <3>3. ExitFree(source, visited["break_check"])
        BY <3>1, <3>2, StatsOfTree DEF ExitFree, Confined, IsExit, EntersBlocksOf
      <3>. QED BY <3>1, <3>3, ExitFreeIsAccepted
    <2>. QED BY <1>1, <2>1 DEF WalksComputeFunctions, AgreeInv, VerdictsAgree
  <1>2. Spec => [](IInv /\ AgreeInv)
    <2>1. Init => IInv /\ AgreeInv
      BY InitIInv, InitAgree
    <2>2. (IInv /\ AgreeInv) /\ [Next]_vars => (IInv /\ AgreeInv)'
      BY NextIInv, NextAgrees
    <2>. QED BY <2>1, <2>2, PTL DEF Spec
  <1>3. IInv /\ AgreeInv => WalksComputeFunctions
    BY <1>1
  <1>. QED BY <1>2, <1>3, PTL

=============================================================================
