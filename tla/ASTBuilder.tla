----------------------------- MODULE ASTBuilder -----------------------------
(***************************************************************************)
(* ASTBuilder: the ANTLR parse-tree visitor that builds the body of one    *)
(* subroutine.  The program text is the environment: each action takes the *)
(* next statement the parser may have recognised, so the behaviours of     *)
(* this module enumerate every statement tree up to the bounds.            *)
(***************************************************************************)
EXTENDS GazpreaAST

CONSTANTS
    MaxStats,       \* bound: statements of one subroutine, all blocks together
    LeafKinds,      \* the leaf statements the text is made of
    LoopKinds,      \* the loops the text is made of
    ReturnTypes     \* {TRUE}: function; {FALSE}: procedure without "returns"

ASSUME ASTBuilderAssumption ==
    /\ MaxStats \in Nat
    /\ LeafKinds \subseteq LeafKind \ {"free"}
    /\ LoopKinds \subseteq LoopKind
    /\ ReturnTypes \subseteq BOOLEAN

VARIABLES
    stat_nodes,     \* the tree: BlockNode::stat_nodes of every block
    open,           \* the blocks the recursive visit is inside, outermost first
    used,           \* how many blocks have been created
    count,          \* how many statements have been read
    returns_value   \* does the subroutine declare a return type?

builderVars == <<stat_nodes, open, used, count, returns_value>>

BuilderTypeOK ==
    /\ stat_nodes \in Tree
    /\ open \in Seq(Block)
    /\ used \in Block
    /\ count \in Nat
    /\ returns_value \in BOOLEAN

BuilderInit ==
    /\ stat_nodes = [b \in Block |-> <<>>]
    /\ open = <<Root>>
    /\ used = 1
    /\ count = 0
    /\ returns_value \in ReturnTypes

Reading == open # <<>>

\* stat_nodes.push_back(s) on the innermost open block
PushBack(s) ==
    stat_nodes' = [stat_nodes EXCEPT ![Top(open)] = Append(@, s)]

ReadLeaf ==
    /\ Reading /\ count < MaxStats
    /\ \E k \in LeafKinds : PushBack(Leaf(k))
    /\ count' = count + 1
    /\ UNCHANGED <<open, used, returns_value>>

(***************************************************************************)
(* A loop, a nested block or the if-part of a conditional: its body is     *)
(* always a BlockNode, a single statement is wrapped in one.               *)
(***************************************************************************)
OpenBody ==
    /\ Reading /\ count < MaxStats /\ used < MaxBlocks
    /\ \E k \in LoopKinds \cup {"block", "cond"} : PushBack(Owning(k, used + 1))
    /\ open' = Append(open, used + 1)
    /\ used' = used + 1
    /\ count' = count + 1
    /\ UNCHANGED returns_value

\* condElse follows the if-part: the if-part is closed and the else opened.
OpenElse ==
    /\ Len(open) > 1 /\ used < MaxBlocks
    /\ LET parent == open[Len(open) - 1]
           last   == Len(stat_nodes[parent])
       IN /\ last > 0
          /\ stat_nodes[parent][last].kind = "cond"
          /\ stat_nodes[parent][last].alt = NoBlock
          /\ stat_nodes' = [stat_nodes EXCEPT ![parent][last].alt = used + 1]
    /\ open' = SetTop(open, used + 1)
    /\ used' = used + 1
    /\ UNCHANGED <<count, returns_value>>

CloseBody ==
    /\ Len(open) > 1
    /\ open' = Pop(open)
    /\ UNCHANGED <<stat_nodes, used, count, returns_value>>

(***************************************************************************)
(* visitFuncDef, visitProcDef: the body is complete.  A procedure without  *)
(* a return type gets an empty return appended, whatever its last          *)
(* statement is.                                                           *)
(***************************************************************************)
CloseSubroutine ==
    /\ Len(open) = 1
    /\ open' = <<>>
    /\ IF returns_value THEN UNCHANGED stat_nodes ELSE PushBack(Leaf("return"))
    /\ UNCHANGED <<used, count, returns_value>>

Build == ReadLeaf \/ OpenBody \/ OpenElse \/ CloseBody \/ CloseSubroutine
=============================================================================
