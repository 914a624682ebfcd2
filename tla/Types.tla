------------------------------- MODULE Types -------------------------------
(***************************************************************************)
(* Type inference, type checks and the types the code is emitted with      *)
(* (TypeInferWalker.cpp, BinaryOpTypeErrorWalker.cpp, the expressions of   *)
(* CodeGenASTWalker.cpp), for the body of one function that may call       *)
(* itself.                                                                 *)
(*                                                                         *)
(* Each pass walks all statements before the next pass starts, and types   *)
(* are objects the passes share: a variable declared with `var' has the    *)
(* object of its expression, a name the one of its symbol, a sign the one  *)
(* of its operand, a call the one of the function.  The checks promote an  *)
(* expression by setting the base of the object they got for it, whoever   *)
(* else holds it.                                                          *)
(*                                                                         *)
(* A variable is named by the number of the statement that declares it, 0  *)
(* is the function.  Sizes, tuples and matrices are left out; operations   *)
(* of two literals are folded before the checks and are left out too.      *)
(***************************************************************************)
EXTENDS Scalars, Sequences, FiniteSets, TLC

CONSTANTS
    MaxStats,       \* bound: statements of the body
    MaxOperations,  \* bound: statements whose expression has an operator
    Literals,       \* base types literals are written with
    DeclTypes,      \* types declarations are written with
    CastBases,      \* base types expressions are cast to
    BinaryOps,      \* operations expressions are written with
    ReturnBases     \* base types the function may return

ASSUME TypesAssumption ==
    /\ MaxStats \in Nat \ {0} /\ MaxOperations \in Nat
    /\ Literals \cup CastBases \cup ReturnBases \subseteq BaseType

VARIABLES
    returns,    \* base type the function was declared with
    prog,       \* the statements
    pass,       \* the running pass, or how compilation ended
    at,         \* the next statement of the pass
    types,      \* type object -> what it holds
    symtype,    \* variable -> its symbol's type object
    node        \* statement -> the type object of its expression's node

vars == <<returns, prog, pass, at, types, symtype, node>>

---------------------------------------------------------------------------
(* Types and the objects that hold them.                                   *)

PrimitiveType(base) == [shape |-> "scalar", base |-> base]
VectorType(base) == [shape |-> "vector", base |-> base]
IsPrimitive(t) == t.shape = "scalar"
IsVectorType(t) == t.shape = "vector"

\* What ends a pass, or the code it emits, in place of a type.
Ends(how) == [shape |-> how, base |-> "null"]
Endings == {"rejected", "threw", "crashed", "illtyped", "mistyped"}
IsEnd(t) == t.shape \in Endings

Untyped == [shape |-> "none", base |-> "null"]      \* a declaration with `var'
NoNode == <<"none", 0>>                             \* a node whose type is never set

Function == <<"function", 0>>
Object(kind, n) == <<kind, n>>

Statement == 1..Len(prog)
Variable == {n \in Statement : prog[n].kind = "decl"}

Numbers == {"integer", "real"}

\* Mutant: a real is promoted to an integer.
declPromMatrixBack(from, to) ==
    IF from = "real" /\ to = "integer" THEN "integer" ELSE promoteBaseType(from, to)

declPromMatrix(from, to) == IF from = "real" /\ to = "integer" THEN "null" ELSE promoteBaseType(from, to)

isEqualType(t, u) == t.base = u.base /\ (IsVectorType(t) \/ IsPrimitive(u))

---------------------------------------------------------------------------
(* Inference.  T gives the types of the names, 0 that of the function.     *)

AtomType(T, a) ==
    CASE a.op = "literal" -> PrimitiveType(a.base)
      [] a.op = "id"      -> T[a.id]
      [] a.op = "call"    -> T[0]

inferBoolVector(l, r, op) ==
    CASE op \in Equality -> PrimitiveType("boolean")
      [] op \in Ordering -> VectorType("boolean")
      [] OTHER -> VectorType(IF l = r /\ l.base = "boolean" THEN "boolean" ELSE "null")

\* Mutant: the number is that of the left operand.
inferBinaryOpLeft(l, r, op) ==
    IF op \in Arithmetic /\ ~IsVectorType(l) /\ ~IsVectorType(r) THEN PrimitiveType(l.base)
    ELSE IF op \in Arithmetic \cup {"**"} THEN VectorType(l.base) ELSE PrimitiveType("boolean")

inferBinaryOp(l, r, op) ==
    LET vector == IsVectorType(l) \/ IsVectorType(r)
        number == IF "real" \in {l.base, r.base} THEN "real" ELSE "integer"
    IN CASE op = "||" ->
              VectorType(IF l.base = "integer" /\ r.base = "real" THEN "real" ELSE l.base)
         [] op \in Equality \cup Ordering \cup Logical ->
              IF vector THEN inferBoolVector(l, r, op) ELSE PrimitiveType("boolean")
         [] op = "**" -> IF vector THEN PrimitiveType(number) ELSE Ends("rejected")
         [] OTHER -> IF vector THEN VectorType(number) ELSE PrimitiveType(number)

inferExpr(T, e) ==
    CASE e.op = "unary"   -> AtomType(T, e.arg)
      [] e.op = "cast"    -> PrimitiveType(e.base)
      [] e.op = "binary"  -> inferBinaryOp(AtomType(T, e.l), AtomType(T, e.r), e.sym)
      [] e.op = "vector"  -> VectorType(e.base)
      [] e.op = "reverse" -> T[e.id]
      [] e.op = "index"   -> PrimitiveType(T[e.id].base)
      [] e.op = "length"  -> PrimitiveType("integer")
      [] OTHER            -> AtomType(T, e)

\* The type object visiting the expression of statement n returns.
Returned(n, e) ==
    LET of[x \in {e} \cup (IF e.op = "unary" THEN {e.arg} ELSE {})] ==
          CASE x.op \in {"id", "reverse"} -> symtype[x.id]
            [] x.op = "call"  -> Function
            [] x.op = "cast"  -> Object("cast", n)
            [] x.op = "unary" -> of[x.arg]
            [] OTHER          -> Object("node", n)
    IN of[e]

\* Nodes whose type nobody sets: that of a reverse is set in a member of its
\* own, which hides the node's.
Unset(e) == e.op \in {"call", "length", "reverse"}

\* The type object its node is left with.
NodeType(n, e) == IF Unset(e) THEN NoNode ELSE Returned(n, e)

Typing == [x \in DOMAIN symtype |-> types[symtype[x]]]

\* Visiting the expression of statement n.
Inferred(n, t) ==
    (IF Returned(n, prog[n].expr) = Object("node", n) THEN Object("node", n) :> t ELSE <<>>) @@ types

\* What inference makes of statement n, whose expression has the type t: the
\* types, the symbols, the nodes and how it ends.  It rejects what cannot be
\* promoted to the declared vector, and crashes when a vector's node, which it
\* promotes, has no type.
visitDeclNode(n, t) ==
    LET s == prog[n]
        e == s.expr
        declared == Object("decl", n)
        fresh == Returned(n, e) = Object("node", n)
        promoted == declPromMatrix(t.base, s.type.base)
        typed == (declared :> s.type) @@ Inferred(n, t)
        ends(ok) == IF ~ok THEN "rejected"
                    ELSE IF IsVectorType(t) /\ ~IsPrimitive(s.type) /\ NodeType(n, e) = NoNode
                    THEN "crashed" ELSE "ok"
    IN CASE s.type = Untyped ->
              [types |-> (declared :> t) @@ Inferred(n, t),
               sym   |-> IF fresh THEN declared ELSE Returned(n, e),
               node  |-> NodeType(n, e),
               ends  |-> ends(IsPrimitive(t) \/ t.base # "null")]
         [] IsPrimitive(s.type) ->
              [types |-> typed, sym |-> declared, node |-> NodeType(n, e), ends |-> "ok"]
         [] IsVectorType(s.type) /\ IsPrimitive(t) ->
              [types |-> typed, sym |-> declared, node |-> declared, ends |-> ends(promoted # "null")]
         [] OTHER ->
              [types |-> IF NodeType(n, e) = NoNode THEN typed
                         ELSE [typed EXCEPT ![NodeType(n, e)].base = promoted],
               sym |-> declared, node |-> NodeType(n, e), ends |-> ends(promoted # "null")]

---------------------------------------------------------------------------
(* The checks.  N is the type the expression's node was left with.         *)

checkVecType(l, r, op) ==
    CASE op = "||" -> VectorType(l.base)
      [] op \in Equality \cup Ordering ->
           IF "boolean" \in {l.base, r.base} THEN Ends("rejected")
           ELSE IF op \in Equality THEN PrimitiveType("boolean") ELSE VectorType("boolean")
      [] op \in Logical ->
           IF l = r /\ l.base = "boolean" THEN VectorType("boolean") ELSE Ends("rejected")
      [] OTHER ->
           IF {l.base, r.base} \subseteq Numbers THEN VectorType(promoteBaseType(l.base, r.base))
           ELSE Ends("rejected")

\* Mutant: orderings are not asked for numbers.
checkPrimitivesAnyOrder(l, r, op) ==
    IF op \in Equality \cup Ordering \cup Logical THEN PrimitiveType("boolean")
    ELSE IF {l.base, r.base} \subseteq Numbers
    THEN PrimitiveType(promoteBaseType(l.base, r.base)) ELSE Ends("rejected")

\* A logical operation looks at its right operand only.
checkPrimitives(l, r, op) ==
    LET numbers == {l.base, r.base} \subseteq Numbers
        boolean == PrimitiveType("boolean")
    IN CASE op \in Equality -> IF numbers \/ l.base = r.base THEN boolean ELSE Ends("rejected")
         [] op \in Logical  -> IF r.base = "boolean" THEN boolean ELSE Ends("rejected")
         [] op \in Ordering -> IF numbers THEN boolean ELSE Ends("rejected")
         [] OTHER -> IF numbers THEN PrimitiveType(promoteBaseType(l.base, r.base))
                     ELSE Ends("rejected")

checkBinaryOp(l, r, op, N) ==
    IF ~IsVectorType(l) /\ ~IsVectorType(r) THEN checkPrimitives(l, r, op)
    ELSE IF op # "**" THEN checkVecType(l, r, op)
    ELSE IF N.base = "null" THEN Ends("rejected") ELSE N

checkUnaryOp(t, op) ==
    IF t.base \in (IF op = "not" THEN {"boolean"} ELSE Numbers) THEN t ELSE Ends("rejected")

checkTypeCast(t, to, base) ==
    CASE to \in {"boolean", "character"} /\ ~IsPrimitive(t)  -> Ends("crashed")
      [] to \in {"boolean", "character"} /\ t.base = "real" -> Ends("rejected")
      [] OTHER -> PrimitiveType(base)

checkExpr(T, e, N) ==
    CASE e.op = "unary"  -> checkUnaryOp(AtomType(T, e.arg), e.sym)
      [] e.op = "cast"   -> checkTypeCast(AtomType(T, e.arg), e.base, N.base)
      [] e.op = "binary" -> checkBinaryOp(AtomType(T, e.l), AtomType(T, e.r), e.sym, N)
      [] e.op \in {"vector", "index"} -> N
      [] OTHER -> inferExpr(T, e)

\* The object the check of statement n promotes; a literal, a length and
\* most operations are given a new one.
Promoted(n, e, t) ==
    CASE e.op \in {"vector", "index"} -> node[n]
      [] e.op = "binary" -> IF e.sym = "**" THEN node[n] ELSE NoNode
      [] e.op \in {"literal", "length"} -> NoNode
      [] e.op = "unary" /\ e.arg.op = "literal" -> NoNode
      [] OTHER -> Returned(n, e)

\* What a statement accepts, of an expression of type t; to is the type of
\* the variable, N of the expression's node.
promotionOf(s, t, to) ==
    IF s.kind = "decl" THEN declPromMatrix(t.base, to.base) ELSE promoteBaseType(t.base, to.base)

\* A declaration or an assignment to a variable of type to.
promotesTo(to, t, base) == IF isEqualType(to, [t EXCEPT !.base = base]) THEN "ok" ELSE "rejected"

\* Nothing is asked of a vector.
visitReturnNode(t, to) ==
    IF IsPrimitive(t) => t.base = to.base \/ (t.base = "integer" /\ to.base = "real")
    THEN "ok" ELSE "rejected"

visitVecMatTupAssignNode(t, to, hasNode) ==
    CASE ~IsPrimitive(t) -> "rejected"
      [] ~hasNode        -> "crashed"
      [] OTHER -> IF promoteBaseType(t.base, to.base) = "null" THEN "rejected" ELSE "ok"

---------------------------------------------------------------------------
(* The code.  A value has the type it was computed with.                   *)

Word(base) == ScalarOf(base, 1)

\* A scalar operation as a type, or as how the compiler ends on it.
AsType(s) ==
    CASE s.base \in BaseType  -> PrimitiveType(s.base)
      [] s.base = "Thrown"    -> Ends("threw")
      [] OTHER                -> Ends("illtyped")

CastTo(v, base) == AsType(typeCast(Word(v.base), base))

\* Elements of base on both sides; what is made of them is one scalar or a
\* vector.
vectorBinaryOp(op, base) ==
    LET element == AsType(IF op = "**" THEN emitMul(Word(base), Word(base))
                          ELSE scalarBinaryOp(Word(base), Word(base), op))
    IN IF IsEnd(element) \/ op \in Equality \cup {"**"} THEN element ELSE VectorType(element.base)

\* An operand of a concatenation: a vector is read with the result's base.
Concatenated(v, base) ==
    IF IsPrimitive(v) THEN CastTo(v, base) ELSE IF v.base = base THEN v ELSE Ends("mistyped")

firstEnd(a, b, else) == IF IsEnd(a) THEN a ELSE IF IsEnd(b) THEN b ELSE else

\* A comparison or a product of vectors needs a vector on both sides; lt and
\* rt are the types of the operands' nodes, Untyped for one that has none.
emitPromoted(lt, rt, op) ==
    LET base == promoteBaseType(lt.base, rt.base)
    IN IF Untyped \in {lt, rt} THEN Ends("crashed")
       ELSE IF base = "null" THEN Ends("threw")
       ELSE IF IsPrimitive(lt) THEN Ends("crashed")
       ELSE IF IsPrimitive(rt) THEN Ends("illtyped")
       ELSE vectorBinaryOp(op, base)

\* l, r: the values; N: the type of the operation's node.
emitBinaryOp(l, r, lt, rt, op, N) ==
    IF op = "||"
    THEN firstEnd(Concatenated(l, N.base), Concatenated(r, N.base), VectorType(N.base))
    ELSE IF IsVectorType(N) /\ N.base # "boolean"
    THEN firstEnd(CastTo(l, N.base), CastTo(r, N.base), vectorBinaryOp(op, N.base))
    ELSE IF IsVectorType(lt) \/ IsVectorType(rt) THEN emitPromoted(lt, rt, op)
    ELSE IF IsVectorType(l) \/ IsVectorType(r) THEN Ends("illtyped")
    ELSE AsType(scalarBinaryOp(Word(l.base), Word(r.base), op))

emitUnaryOp(v, op) ==
    CASE IsVectorType(v) -> v
      [] IsPrimitive(v) /\ op = "not" -> AsType(emitUnaryNot(Word(v.base)))
      [] OTHER -> AsType(emitUnaryMinus(Word(v.base)))

OperandNode(T, a) == IF a.op = "call" THEN Untyped ELSE AtomType(T, a)

emitExpr(T, e, N) ==
    CASE e.op = "unary"  -> emitUnaryOp(AtomType(T, e.arg), e.sym)
      [] e.op = "cast"   -> LET v == AtomType(T, e.arg)
                            IN IF IsVectorType(v) THEN Ends("illtyped") ELSE CastTo(v, N.base)
      [] e.op = "binary" -> emitBinaryOp(AtomType(T, e.l), AtomType(T, e.r),
                                OperandNode(T, e.l), OperandNode(T, e.r), e.sym, N)
      [] e.op = "vector" -> VectorType(N.base)
      [] OTHER -> inferExpr(T, e)

\* A value stored in a variable of type to.
emitDec(v, to) ==
    CASE IsVectorType(to) /\ IsPrimitive(v) -> CastTo(v, to.base)
      [] IsPrimitive(to) /\ v.base = "integer" /\ to.base = "real" -> to
      [] OTHER -> IF v.base = to.base THEN to ELSE Ends("mistyped")

emitAssignId(v, to, hasScalarNode) ==
    CASE IsVectorType(to) /\ IsPrimitive(v) ->
           IF hasScalarNode THEN CastTo(v, to.base) ELSE Ends("illtyped")
      [] IsVectorType(to) /\ IsVectorType(v) -> IF v.base = to.base THEN to ELSE Ends("mistyped")
      [] OTHER -> IF v.base = to.base \/ (v.base = "integer" /\ to.base = "real") THEN to
                  ELSE Ends("threw")

emitReturn(v, to) == IF v = to THEN to ELSE Ends("illtyped")

---------------------------------------------------------------------------
(* The types the program was written with.                                 *)

AsDeclared ==
    LET T[x \in 0..Len(prog)] ==
          IF x = 0 THEN PrimitiveType(returns)
          ELSE IF prog[x].kind # "decl" THEN Untyped
          ELSE IF prog[x].type = Untyped THEN inferExpr([y \in 0..(x - 1) |-> T[y]], prog[x].expr)
          ELSE prog[x].type
    IN T

\* How the checks take a statement on its own, every name having the type it
\* was written with.
Alone(s, T, own) ==
    LET e == s.expr
        t == inferExpr(T, e)
        vectors == s.kind = "decl" /\ IsVectorType(t) /\ IsVectorType(s.type)
        N == IF vectors THEN VectorType(declPromMatrix(t.base, s.type.base)) ELSE t
        c == checkExpr(T, e, N)
        to == CASE s.kind = "return" -> T[0] [] s.kind = "decl" -> own [] OTHER -> T[s.id]
    IN IF IsEnd(t) THEN t.shape
       ELSE IF s.kind = "decl" /\ IsVectorType(own) /\ declPromMatrix(t.base, own.base) = "null"
       THEN "rejected"
       ELSE IF s.kind = "decl" /\ IsVectorType(own) /\ IsVectorType(t) /\ Unset(e) THEN "crashed"
       ELSE IF IsEnd(c) THEN c.shape
       ELSE IF s.kind = "store"
       THEN visitVecMatTupAssignNode(c, to, ~Unset(e))
       ELSE IF s.kind = "return" THEN visitReturnNode(c, to)
       ELSE promotesTo(to, c, promotionOf(s, c, to))

AloneAt(n) == LET T == AsDeclared IN Alone(prog[n], T, T[n])

---------------------------------------------------------------------------
(* The passes.                                                             *)

Init ==
    /\ returns \in ReturnBases
    /\ prog = <<>> /\ pass = "write" /\ at = 1
    /\ types = Function :> PrimitiveType(returns)
    /\ symtype = 0 :> Function
    /\ node = <<>>

Literal == {[op |-> "literal", base |-> b] : b \in Literals}
Named(X) == {[op |-> "id", id |-> x] : x \in X} \cup {[op |-> "call"]}
Atoms(X) == Literal \cup Named(X)

Leaves(X) == Atoms(X) \cup {[op |-> "vector", base |-> b] : b \in Literals}

\* Expressions with an operator; V are the vectors among X.
Operations(X, V) ==
    {[op |-> o, id |-> x] : o \in {"reverse", "index", "length"}, x \in V}
    \cup {[op |-> "cast", base |-> b, arg |-> a] : b \in CastBases, a \in Named(X)}
    \cup {[op |-> "unary", sym |-> o, arg |-> a] : o \in {"-", "not"}, a \in Atoms(X)}
    \cup {[op |-> "binary", sym |-> o, l |-> l, r |-> r] :
             o \in BinaryOps, l \in Atoms(X), r \in Named(X)}
    \cup {[op |-> "binary", sym |-> o, l |-> l, r |-> r] :
             o \in BinaryOps, l \in Named(X), r \in Literal}

Operated == {n \in Statement : prog[n].expr \notin Leaves(Variable)}

\* A statement is written: every statement but the last is one the checks
\* take on its own, and nothing follows a return.
Write ==
    /\ pass = "write" /\ Len(prog) < MaxStats
    /\ \A n \in Statement : prog[n].kind # "return" /\ AloneAt(n) = "ok"
    /\ LET V == {x \in Variable : IsVectorType(AsDeclared[x])}
       IN \E e \in Leaves(Variable) \cup
              (IF Cardinality(Operated) < MaxOperations THEN Operations(Variable, V) ELSE {}) :
          \/ \E t \in DeclTypes :
                prog' = Append(prog, [kind |-> "decl", type |-> t, expr |-> e])
          \/ \E x \in Variable :
                prog' = Append(prog, [kind |-> "assign", id |-> x, expr |-> e])
          \/ \E x \in V :
                prog' = Append(prog, [kind |-> "store", id |-> x, expr |-> e])
          \/ prog' = Append(prog, [kind |-> "return", expr |-> e])
    /\ UNCHANGED <<returns, pass, at, types, symtype, node>>

StartInfer ==
    /\ pass = "write" /\ prog # <<>> /\ pass' = "infer"
    /\ types' = types @@ [o \in {Object("cast", n) : n \in {m \in Statement : prog[m].expr.op = "cast"}} |->
                            PrimitiveType(prog[o[2]].expr.base)]
    /\ UNCHANGED <<returns, prog, at, symtype, node>>

\* Mutant: off by one.
AdvanceEarly(this, next) ==
    IF at + 1 < Len(prog) THEN pass' = this /\ at' = at + 1 ELSE pass' = next /\ at' = 1

\* A pass that is through its last statement hands over to the next one.
Advance(this, next) ==
    IF at < Len(prog) THEN pass' = this /\ at' = at + 1 ELSE pass' = next /\ at' = 1

Stop(how) == pass' = how /\ UNCHANGED <<at, types, symtype, node>>

TypeInferWalker ==
    /\ pass = "infer"
    /\ LET s == prog[at]
           t == inferExpr(Typing, s.expr)
           d == visitDeclNode(at, t)
       IN IF IsEnd(t) THEN Stop(t.shape)
          ELSE IF s.kind = "decl" /\ d.ends # "ok" THEN Stop(d.ends)
          ELSE /\ types' = IF s.kind = "decl" THEN d.types ELSE Inferred(at, t)
               /\ symtype' = IF s.kind = "decl" THEN (at :> d.sym) @@ symtype ELSE symtype
               /\ node' = Append(node, IF s.kind = "decl" THEN d.node ELSE NodeType(at, s.expr))
               /\ Advance("infer", "check")
    /\ UNCHANGED <<returns, prog>>

NodeOf(n) == IF node[n] = NoNode THEN Untyped ELSE types[node[n]]

CheckedAt == checkExpr(Typing, prog[at].expr, NodeOf(at))

\* A declaration or an assignment promotes the type of its expression to
\* that of its variable, in the object the expression returned.
CheckPromotes ==
    /\ pass = "check" /\ prog[at].kind \in {"decl", "assign"}
    /\ LET s  == prog[at]
           t  == CheckedAt
           x  == IF s.kind = "decl" THEN at ELSE s.id
           to == promotionOf(s, t, types[symtype[x]])
           o  == Promoted(at, s.expr, t)
           promoted == IF o = NoNode THEN types ELSE [types EXCEPT ![o].base = to]
       IN IF IsEnd(t) THEN Stop(t.shape)
          ELSE /\ types' = promoted
               /\ UNCHANGED <<symtype, node>>
               /\ IF promotesTo(promoted[symtype[x]], t, to) = "ok"
                  THEN Advance("check", "emit") ELSE pass' = "rejected" /\ UNCHANGED at
    /\ UNCHANGED <<returns, prog>>

CheckOnly ==
    /\ pass = "check" /\ prog[at].kind \in {"store", "return"}
    /\ LET s == prog[at]
           t == CheckedAt
           verdict == IF IsEnd(t) THEN t.shape
                      ELSE IF s.kind = "store"
                      THEN visitVecMatTupAssignNode(t, types[symtype[s.id]], node[at] # NoNode)
                      ELSE visitReturnNode(t, types[Function])
       IN IF verdict # "ok" THEN Stop(verdict)
          ELSE Advance("check", "emit") /\ UNCHANGED <<types, symtype, node>>
    /\ UNCHANGED <<returns, prog>>

Emitted(n) ==
    LET s == prog[n]
        v == emitExpr(Typing, s.expr, NodeOf(n))
    IN IF IsEnd(v) THEN v ELSE
       CASE s.kind = "decl"   -> emitDec(v, types[symtype[n]])
         [] s.kind = "assign" -> emitAssignId(v, types[symtype[s.id]], IsPrimitive(NodeOf(n)))
         [] s.kind = "store"  -> CastTo(v, types[symtype[s.id]].base)
         [] s.kind = "return" -> emitReturn(v, types[Function])

CodeGenASTWalker ==
    /\ pass = "emit"
    /\ LET v == Emitted(at)
       IN IF IsEnd(v) THEN Stop(v.shape)
          ELSE Advance("emit", "compiled") /\ UNCHANGED <<types, symtype, node>>
    /\ UNCHANGED <<returns, prog>>

Next == Write \/ StartInfer \/ TypeInferWalker \/ CheckPromotes \/ CheckOnly \/ CodeGenASTWalker

Spec == Init /\ [][Next]_vars

---------------------------------------------------------------------------
(* Properties.                                                             *)

\* Variables, or the function, that were integer as written and are real now.
Widened ==
    LET T == AsDeclared
        Now == Typing
    IN {x \in DOMAIN symtype : T[x].base = "integer" /\ Now[x].base = "real"}

---------------------------------------------------------------------------
(* What the code cannot be emitted for although the checks take it.        *)

\* The base a concatenation is emitted with.
ConcatBase(s, T) ==
    IF s.kind = "decl" /\ IsVectorType(s.type) THEN s.type.base ELSE inferExpr(T, s.expr).base

BadOperation(s, T) ==
    LET op == s.expr.sym
        l  == AtomType(T, s.expr.l)
        r  == AtomType(T, s.expr.r)
        base == ConcatBase(s, T)
    IN \/ op \in Logical /\ IsPrimitive(l) /\ l.base # "boolean"
       \/ op \in Ordering \cup Equality \cup {"**"} /\ l.shape # r.shape
       \/ op = "**" /\ ~({l.base, r.base} \subseteq Numbers)
       \/ op = "||" /\ \E o \in {l, r} :
            \/ IsVectorType(o) /\ o.base # base
            \/ IsPrimitive(o) /\ o.base = "real" /\ base \notin Numbers

BadStatement(s, T) ==
    LET e == s.expr
        t == inferExpr(T, e)
    IN \/ s.kind = "return" /\ (IsVectorType(t) \/ (returns = "real" /\ t.base = "integer"))
       \/ s.kind = "decl" /\ ~IsPrimitive(s.type) /\ e.op = "reverse"
       \/ s.kind \in {"store", "assign"} /\ e.op \in {"call", "length"}
       \/ s.kind = "assign" /\ e.op = "binary" /\ IsVectorType(t) /\ t.base # T[s.id].base
       \/ e.op = "cast" /\ IsVectorType(AtomType(T, e.arg))
       \/ e.op = "binary" /\ BadOperation(s, T)

\* While no variable was widened, a program that is not rejected compiles, but
\* for these: a vector declared from a reversed one (inference crashes on it), a
\* logical operation whose left side is no boolean, a comparison or product
\* of a vector and a scalar, a product of vectors that hold no numbers, a
\* concatenation emitted with another base than that of a vector in it, a
\* returned vector, an integer returned as a real, a call or a length stored
\* in a vector, an operation on integer vectors assigned to a real one, a
\* vector cast to a scalar.
AcceptedCompiles ==
    pass \in Endings \ {"rejected"} => Widened # {} \/ BadStatement(prog[at], AsDeclared)

\* While no variable was widened, inference and the checks end on a program
\* as they would on one of its statements alone, every name having the type
\* it was written with, and take it only when they take each of them: no
\* statement changes what another one means.
EndsAsAlone ==
    pass \in {"infer", "check"} =>
        /\ pass' \in Endings /\ Widened = {} => \E n \in Statement : AloneAt(n) = pass'
        /\ pass' = "emit" /\ Widened' = {} => \A n \in Statement : AloneAt(n) = "ok"

VerdictAsDeclared == [][EndsAsAlone]_vars

\* While no variable was widened, an expression is emitted with the type that
\* was inferred for it, or with the base of the vector it is promoted to.
EmittedAsInferred ==
    pass = "emit" /\ Widened = {} =>
        LET s == prog[at]
            T == AsDeclared
            t == inferExpr(T, s.expr)
            v == emitExpr(Typing, s.expr, NodeOf(at))
        IN \/ IsEnd(v) \/ v = t
           \/ s.kind = "decl" /\ IsVectorType(s.type) /\ v.base = s.type.base
           \/ s.kind = "assign" /\ IsVectorType(t) /\ v.base = T[s.id].base
           \/ s.expr.op = "cast" /\ t.base = "integer" /\ v.base = "real"

\* The type of a variable or of the function changes from integer to real
\* only, whichever pass runs, until a statement is rejected.
TypesOnlyWiden ==
    [][types' # types /\ pass' # "rejected" =>
        LET Before == Typing
            After == Typing'
        IN \A x \in DOMAIN symtype : After[x] # Before[x] =>
              Before[x].base = "integer" /\ After[x] = [Before[x] EXCEPT !.base = "real"]]_vars

---------------------------------------------------------------------------
(* What the source says of this code, and what it does.                    *)

\* BinaryOpTypeErrorWalker.cpp says it promotes the type of the expression to
\* the type of the declaration: a variable that is only read keeps the type
\* it was declared with.
PromotesTheExpression == pass \in {"emit", "compiled"} => Widened = {}

=============================================================================
