----------------------------- MODULE GazpreaAST -----------------------------
(***************************************************************************)
(* The statement tree the AST passes of the Gazprea compiler share.        *)
(*                                                                         *)
(* A BlockNode is an identifier, and the tree is a table from blocks to    *)
(* the sequence of their statements (BlockNode::stat_nodes).  The passes   *)
(* reach blocks through shared pointers and edit them in place, so a pass  *)
(* replaces an entry of the table and every holder of the block sees it.   *)
(* A statement is a record; "body" and "alt" are the blocks it owns.       *)
(***************************************************************************)
EXTENDS Naturals, Sequences

CONSTANT MaxBlocks      \* bound: how many BlockNodes one subroutine may have

ASSUME MaxBlocksAssumption == MaxBlocks \in Nat \ {0}

Block   == 1..MaxBlocks
Root    == 1            \* the body of the subroutine: func_block, proc_block
NoBlock == 0            \* a null shared_ptr<BlockNode>

(***************************************************************************)
(* InfLoopNode, PredLoopNode with pre_predicated true and false, and       *)
(* IterLoopNode: the walkers treat the four alike, the generated code does *)
(* not.                                                                    *)
(***************************************************************************)
LoopKind == {"inf_loop", "pre_loop", "post_loop", "iter_loop"}
ExitKind == {"break", "continue"}
LeafKind == {"decl", "plain", "free", "return"} \cup ExitKind
Kind     == LeafKind \cup LoopKind \cup {"block", "cond"}

(***************************************************************************)
(* scope_id is FreeNode::scope_id; on a return it is that of the return's  *)
(* free_node.  NoScope stands for a null free_node.                        *)
(***************************************************************************)
CurrentScope == 0
FuncProcScope == 1
LoopScope == 2
MainScope == 3
NoScope == 4

NodeFields == [kind: Kind, body: Block \cup {NoBlock}, alt: Block \cup {NoBlock},
               scope_id: 0..4]

\* Leaves own no block, the other nodes own one, and only a CondNode may own
\* a second one (its else_block).
Stat == {s \in NodeFields : /\ s.kind \in LeafKind <=> s.body = NoBlock
                            /\ s.kind # "cond" => s.alt = NoBlock}

Tree == [Block -> Seq(Stat)]

Leaf(k)       == [kind |-> k, body |-> NoBlock, alt |-> NoBlock, scope_id |-> NoScope]
Owning(k, b)  == [Leaf(k) EXCEPT !.body = b]
FreeNode(sid) == [Leaf("free") EXCEPT !.scope_id = sid]

IsLoop(s)    == s.kind \in LoopKind
SubBlocks(s) == {s.body, s.alt} \ {NoBlock}

\* Control flow that may leave a loop after its body, or pass a statement by.
MayExit(s) == s.kind # "inf_loop"
MaySkip(s) == s.kind \in {"pre_loop", "iter_loop"} \/ (s.kind = "cond" /\ s.alt = NoBlock)

\* A frame of a walk (or of an execution): block, and the statement reached.
Frame       == [block: Block, pc: Nat \ {0}]
Enter(b)    == [block |-> b, pc |-> 1]
Advance(f)  == [f EXCEPT !.pc = @ + 1]

Top(stack)           == stack[Len(stack)]
Below(stack, k)      == SubSeq(stack, 1, k - 1)     \* the frames under frame k
Pop(stack)           == Below(stack, Len(stack))
SetTop(stack, f)     == [stack EXCEPT ![Len(stack)] = f]
InRange(tree, f)     == f.pc <= Len(tree[f.block])
StatAt(tree, f)      == tree[f.block][f.pc]
=============================================================================
