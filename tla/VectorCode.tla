----------------------------- MODULE VectorCode -----------------------------
(***************************************************************************)
(* The code CodeGenASTWalker emits for the vectors and tuples of one       *)
(* subroutine, as it runs.                                                 *)
(*                                                                         *)
(* An expression is evaluated with a stack of operands: visiting a node    *)
(* pops what its children pushed and pushes its result, a statement takes  *)
(* what its expression left.  A vector is a block of the heap.  A tuple is *)
(* a struct in the frame of the subroutine that points to its vectors; its *)
(* symbol->value is the address of the struct.                             *)
(*                                                                         *)
(* Memory nothing points to any more leaves the heap; lost says that the   *)
(* last step lost some without freeing it.                                 *)
(***************************************************************************)
EXTENDS VectorMemory

CONSTANTS
    Vars,           \* the variables
    Bases,          \* the base types of vectors
    MaxSize,        \* bound: elements of a vector
    Depth,          \* bound: operands that wait
    MaxLive,        \* bound: blocks that are pointed to after a step
    ValueBound,     \* bound: the values of elements and scalars are 0..ValueBound
    MaxStructs      \* bound: tuples that are pointed to

ASSUME VectorCodeAssumption ==
    /\ IsFiniteSet(Vars) /\ Bases \subseteq BaseType
    /\ MaxSize \in Nat /\ Depth \in Nat /\ MaxStructs \in Nat
    /\ MaxLive \in Nat /\ MaxBlocks >= MaxLive + 4   \* a step allocates 4 at most
    /\ ValueBound \in 0..MaxWord

VARIABLES heap, frame, store, stack, status, lost

vars == <<heap, frame, store, stack, status, lost>>

Values == 0..ValueBound
NoSize == -1
NotDeclared == [kind |-> "none"]
TupleAt(s) == [kind |-> "tuple", struct |-> s]
Status == {"running", "returned"} \cup RuntimeError \cup Undefinedness

IsScalar(p) == p.kind = "scalar"
IsVector(p) == p.kind = "vector"
IsTuple(p) == p.kind = "tuple"

\* Everything that points to memory: the variables and the operands.
Pointers(sto, stk) == Range(sto) \cup Range(stk)

\* The vectors a value points to, one entry for each pointer.
VectorsOf(p, frm) ==
    CASE IsVector(p) -> <<p>>
      [] IsTuple(p)  -> Restrict(frm[p.struct],
                                 {i \in DOMAIN frm[p.struct] : isStructType(frm[p.struct][i])})
      [] OTHER       -> <<>>

\* The structs and the blocks that are pointed to.
HeldStructs(ptrs) == {p.struct : p \in {q \in ptrs : IsTuple(q)}}
HeldBlocks(ptrs, frm) == UNION {{v.block : v \in Range(VectorsOf(p, frm))} : p \in ptrs}

\* The vectors some places point to, one entry for each pointer.
AllVectors(places, frm) ==
    [q \in UNION {{x} \X DOMAIN VectorsOf(places[x], frm) : x \in DOMAIN places} |->
        VectorsOf(places[q[1]], frm)[q[2]]]

TypeOK ==
    /\ \A b \in DOMAIN heap : heap[b].live \in BOOLEAN
    /\ \A b \in DOMAIN heap : Range(heap[b].elems) \subseteq Values /\ Len(heap[b].elems) <= MaxSize
    /\ DOMAIN store = Vars
    /\ Len(stack) <= Depth
    /\ \A p \in Pointers(store, stack) : p.kind \in {"none", "scalar", "vector", "tuple"}
    /\ HeldStructs(Pointers(store, stack)) = DOMAIN frame
    /\ HeldBlocks(Pointers(store, stack), frame) = DOMAIN heap
    /\ status \in Status
    /\ lost \in BOOLEAN

Init ==
    /\ heap = <<>> /\ frame = <<>>
    /\ store = [v \in Vars |-> NotDeclared]
    /\ stack = <<>>
    /\ status = "running"
    /\ lost = FALSE

---------------------------------------------------------------------------
(* Steps.                                                                  *)

WithinBounds(h, stk) ==
    /\ \A b \in DOMAIN h : Len(h[b].elems) <= MaxSize /\ Range(h[b].elems) \subseteq Values
    /\ \A i \in DOMAIN stk : stk[i].kind = "scalar" => stk[i].val \in Values

\* A value whose vector, or whose struct, has moved.
Move(p, blocks, structs) ==
    CASE IsVector(p) -> [p EXCEPT !.block = blocks[p.block]]
      [] IsTuple(p)  -> [p EXCEPT !.struct = structs[p.struct]]
      [] OTHER       -> p

MoveAll(places, blocks, structs) ==
    [x \in DOMAIN places |-> Move(places[x], blocks, structs)]

\* The state after a step, without what nothing points to; what is left moves
\* to the first addresses.
Settle(h, frm, sto, stk, sta) ==
    LET ptrs    == Pointers(sto, stk)
        blocks  == Number(HeldBlocks(ptrs, frm))
        structs == Number(HeldStructs(ptrs))
    IN /\ Cardinality(DOMAIN blocks) <= MaxLive
       /\ heap' = [n \in Range(blocks) |-> h[AntiFunction(blocks)[n]]]
       /\ WithinBounds(heap', stk)
       /\ frame' = [n \in Range(structs) |->
                        MoveAll(frm[AntiFunction(structs)[n]], blocks, structs)]
       /\ store' = MoveAll(sto, blocks, structs)
       /\ stack' = MoveAll(stk, blocks, structs)
       /\ status' = sta
       /\ lost' = \E b \in DOMAIN h \ DOMAIN blocks : h[b].live

\* The program stops with an error, or nothing is said of it any more.
Stop(e) ==
    /\ heap' = <<>> /\ frame' = <<>>
    /\ store' = [v \in Vars |-> NotDeclared] /\ stack' = <<>>
    /\ status' = e /\ lost' = FALSE

Running == status = "running"
Operands(n) == Running /\ Len(stack) >= n
Top == stack[Len(stack)]
Below == stack[Len(stack) - 1]
Popped(n) == SubSeq(stack, 1, Len(stack) - n)

\* An expression: n operands give way to the result r.
Evaluate(n, r) ==
    IF r.end # "no" THEN Stop(r.end)
    ELSE Settle(r.heap, frame, store, Append(Popped(n), r.val), "running")

\* A statement: the operands are used up, and the variable v, if any, has a
\* new value.
Execute(r, sto, frm) ==
    IF r.end # "no" THEN Stop(r.end) ELSE Settle(r.heap, frm, sto, <<>>, "running")

Statement(n) == Running /\ Len(stack) = n
Push == Running /\ Len(stack) < Depth

---------------------------------------------------------------------------
(* Expressions.                                                            *)

SequencesUpTo(n) == UNION {[1..k -> Values] : k \in 0..n}

Literal == Push /\ \E b \in Bases, x \in Values :
    x \in ValuesOf(b) /\ Evaluate(0, Done(heap, ScalarOperand(ScalarOf(b, x))))

emitVectorLiteral == Push /\ \E b \in Bases, elems \in SequencesUpTo(MaxSize) :
    Range(elems) \subseteq ValuesOf(b) /\ Evaluate(0, createVector(heap, b, elems))

\* Mutant of loadVectorId: the variable's own vector.
loadVectorIdItself(v) == Done(heap, VectorAt(store[v].base, store[v].block))

\* A vector variable is copied; of a tuple the address is loaded.
loadVectorId(v) == cloneVector(heap, VectorAt(store[v].base, store[v].block))

emitLoadID(v) ==
    IF IsVector(store[v]) THEN loadVectorId(v) ELSE Done(heap, TupleAt(store[v].struct))

IdNode(v) == Push /\ store[v].kind # "none" /\ Evaluate(0, emitLoadID(v))

visitUnaryOp(op, v) ==
    IF IsScalar(v)
    THEN LET s == CASE op = "not" -> emitUnaryNot(v) [] op = "-" -> emitUnaryMinus(v) [] OTHER -> v
         IN Done(heap, ScalarOperand(s))
    ELSE CASE op = "not" -> emitVectorNot(heap, v)
           [] op = "-"   -> emitVectorUnaryMinus(heap, v)
           [] OTHER      -> Done(heap, v)

\* What the checks let through: not of booleans, a sign of numbers.
UnaryOp == Operands(1) /\ ~IsTuple(Top) /\ \E op \in {"not", "-", "+"} :
    /\ op = "not" <=> isBoolType(Top)
    /\ Evaluate(1, visitUnaryOp(op, Top))

Index == Operands(2) /\ IsVector(Below) /\ IsScalar(Top) /\ isIntegerType(Top) /\
    Evaluate(2, Then(loadArrVal(heap, Below, Top.val - 1),
                     LAMBDA q : freeVector(q, Below)))

RangeNode == Operands(2) /\ IsScalar(Below) /\ isIntegerType(Below)
    /\ IsScalar(Top) /\ isIntegerType(Top)
    /\ Evaluate(2, emitRangeVector(heap, Below.val, Top.val))

ReverseCall == Operands(1) /\ IsVector(Top) /\ Evaluate(1, reverseVector(heap, Top))

\* The operand of length is a copy nobody frees.
LengthCall == Operands(1) /\ IsVector(Top) /\
    Evaluate(1, IF Live(heap, Top)
                THEN Done(heap, ScalarOperand(ScalarOf("integer", getArrSize(heap, Top))))
                ELSE Ended(heap, "use_after_free"))

\* A vector of 20 characters is allocated first.  A character or a boolean
\* goes into it; an integer or a real is written into a buffer and copied
\* from there into a second vector.  MaxSize stands for 20 here.
emitFormatScalar(h, s) ==
    LET first == createVector(h, "character", [i \in 1..MaxSize |-> IF i = 1 THEN 1 ELSE 0])
    IN IF isCharType(s) \/ isBoolType(s) THEN first
       ELSE createVector(first.heap, "character", <<1>>)

FormatCall == Operands(1) /\ IsScalar(Top) /\ Evaluate(1, emitFormatScalar(heap, Top))

GeneratorNode == Operands(1) /\ IsVector(Top) /\ \E base \in Bases :
    \E body \in [Values -> {ScalarOf(base, x) : x \in Values \cap ValuesOf(base)}] :
        Evaluate(1, createVectorGenerator(heap, Top, base, body))

\* A cast does not compare the sizes: cast_overruns is the copy of a vector
\* that is longer than the type it is cast to.
castVector(h, v, base, size) ==
    IF size = NoSize THEN promoteVectorTo(h, v, base)
    ELSE Then(promoteVectorTo(h, v, base), LAMBDA q :
        IF Live(q.heap, q.val) /\ getArrSize(q.heap, q.val) > size
        THEN Ended(q.heap, "cast_overruns") ELSE transferVecElements(q.heap, q.val, size))

Castable(from, to) == from = "real" => to \in {"integer", "real"}

TypeCast == Operands(1) /\ ~IsTuple(Top) /\ \E base \in Bases, size \in {NoSize} \cup 0..MaxSize :
    /\ Castable(Top.base, base)
    /\ IF IsVector(Top) THEN Evaluate(1, castVector(heap, Top, base, size))
       ELSE IF size = NoSize THEN Evaluate(1, Done(heap, ScalarOperand(typeCast(Top, base))))
       ELSE Evaluate(1, scalarToVector(heap, Top, size, base))

---------------------------------------------------------------------------
(* Operations on two operands.                                             *)

\* "!=" is handed to the same function as "==".
vectorBinaryOp(h, l, r, op, base) ==
    CASE op = "+"   -> emitVectorAdd(h, l, r, base)
      [] op = "-"   -> emitVectorSub(h, l, r, base)
      [] op = "*"   -> emitVectorMul(h, l, r, base)
      [] op = "/"   -> emitVectorDiv(h, l, r, base)
      [] op = "%"   -> emitVectorRem(h, l, r, base)
      [] op = "^"   -> emitVectorExp(h, l, r, base)
      [] op = "<"   -> emitVectorLessThan(h, l, r)
      [] op = ">"   -> emitVectorGreaterThan(h, l, r)
      [] op = "<="  -> emitVectorLessEq(h, l, r)
      [] op = ">="  -> emitVectorGreaterEq(h, l, r)
      [] op \in Equality -> emitVectorEqualTo(h, l, r)
      [] op = "**"  -> emitVectorDot(h, l, r, base)
      [] op = "and" -> emitVectorAnd(h, l, r)
      [] op = "or"  -> emitVectorOr(h, l, r)
      [] op = "xor" -> emitVectorXor(h, l, r)
      [] op = "||"  -> emitVectorConcat(h, l, r, base)
      [] op = "by"  -> emitVectorStride(h, l, r)

\* An operand as a vector of the result's base: a scalar is spread over size
\* elements, a vector promoted.
AsVector(h, p, size, base) ==
    IF IsScalar(p) THEN scalarToVector(h, p, size, base)
    ELSE IF Live(h, p) THEN promoteVectorTo(h, p, base) ELSE Ended(h, "use_after_free")

OnVectors(l, r, sizeL, sizeR, op, base) ==
    Then(AsVector(heap, l, sizeL, base), LAMBDA p :
        Then(AsVector(p.heap, r, sizeR, base), LAMBDA q :
            vectorBinaryOp(q.heap, p.val, q.val, op, base)))

visitBinaryOp(l, r, op) ==
    LET base == promoteBaseType(l.base, r.base)
        size == IF IsVector(l) THEN getArrSize(heap, l) ELSE getArrSize(heap, r)
    IN CASE op = "||" -> OnVectors(l, r, 1, 1, op, base)
         [] op = "by" -> vectorBinaryOp(heap, l, r, op, l.base)
         [] op \notin {"||", "by"} /\ IsScalar(l) /\ IsScalar(r) ->
              LET s == scalarBinaryOp(l, r, op)
              IN IF Failed(s) THEN Ended(heap, EndOf(s.base)) ELSE Done(heap, ScalarOperand(s))
         [] OTHER -> OnVectors(l, r, size, size, op, base)

\* The operands the type checks let through, except two the back end cannot
\* compile or reads with the wrong base: an order between a vector and a
\* scalar, a concatenation of an integer and a real vector.
Accepted(l, r, op) ==
    /\ ~IsTuple(l) /\ ~IsTuple(r)
    /\ op \in Arithmetic => Numeric(l, r)
    /\ op \in Ordering => Numeric(l, r) /\ l.kind = r.kind
    /\ op \in Equality => promoteBaseType(l.base, r.base) # "null" /\ l.kind = r.kind
    /\ op \in Logical => isBoolType(l) /\ isBoolType(r) /\ l.kind = r.kind
    /\ op = "**" => Numeric(l, r) /\ IsVector(l) /\ IsVector(r)
    /\ op = "||" => isSameType(l, r)
    /\ op = "by" => IsVector(l) /\ IsScalar(r) /\ isIntegerType(r)

BinaryOp(op) ==
    Operands(2) /\ Accepted(Below, Top, op) /\ Evaluate(2, visitBinaryOp(Below, Top, op))

BinaryOps == Arithmetic \cup Ordering \cup Equality \cup Logical \cup {"**", "||", "by"}

---------------------------------------------------------------------------
(* Tuples: an integer and an integer vector, or the two vectors of a       *)
(* filter.                                                                 *)

CanCreateStruct == Cardinality(DOMAIN frame) < MaxStructs
FreshStruct == Min(1..MaxStructs \ DOMAIN frame)

\* The struct is a new one; its fields are stored as they are.
emitCreateTuple(fields) == Put(frame, FreshStruct, fields)

EvaluateTuple(n, h, fields) ==
    Settle(h, emitCreateTuple(fields), store, Append(Popped(n), TupleAt(FreshStruct)), "running")

\* A tuple literal: its vector goes into a new vector of the type's size.
TupleNode == Operands(2) /\ CanCreateStruct /\ IsScalar(Below) /\ isIntegerType(Below) /\
    IsVector(Top) /\ isIntegerType(Top) /\ \E size \in {NoSize} \cup 0..MaxSize :
        LET r == IF size = NoSize THEN Done(heap, Top)
                 ELSE IF Live(heap, Top) /\ ~declVectorSizeCheck(size, getArrSize(heap, Top))
                 THEN Ended(heap, "SizeError")
                 ELSE transferVecElements(heap, Top, size)
        IN IF r.end # "no" THEN Stop(r.end) ELSE EvaluateTuple(2, r.heap, <<Below, r.val>>)

\* A filter with one predicate: what it keeps, and the rest.  The domain is
\* not freed.
FilterNode == Operands(1) /\ CanCreateStruct /\ IsVector(Top) /\ \E keep \in SUBSET Values :
    LET r1 == createFilter(heap, Top, keep)
        r2 == createFilter(r1.heap, Top, Values \ keep)
    IN IF r1.end # "no" THEN Stop(r1.end) ELSE EvaluateTuple(1, r2.heap, <<r1.val, r2.val>>)

\* When the tuple has a vector anywhere, whatever is loaded is copied as a
\* vector; an integer is no address.
emitTupleAccess(v, pos) ==
    LET field == frame[store[v].struct][pos]
    IN IF IsVector(field) THEN cloneVector(heap, field) ELSE Ended(heap, "no_code")

TupleAccessNode(v) == Push /\ IsTuple(store[v]) /\
    \E pos \in DOMAIN frame[store[v].struct] : Evaluate(0, emitTupleAccess(v, pos))

\* The MLIR types of the fields; every vector is a pointer.
SameFields(lf, rf) ==
    \A i \in DOMAIN lf : lf[i].kind = rf[i].kind /\ (IsScalar(lf[i]) => isSameType(lf[i], rf[i]))

\* == and != of tuples compare the tuples' own vectors, which frees them; the
\* right one is read with the base of the left one.
emitTupleEqualTo(l, r) ==
    LET lf == frame[l.struct]
        rf == frame[r.struct]
        Field(h, i) == IF IsScalar(lf[i]) THEN Done(h, ScalarOperand(emitEqualTo(lf[i], rf[i])))
                       ELSE emitVectorEqualTo(h, lf[i], VectorAt(lf[i].base, rf[i].block))
    IN IF ~SameFields(lf, rf) THEN Done(heap, ScalarOperand(ScalarOf("boolean", 0)))
       ELSE Then(Field(heap, 1), LAMBDA p :
                Then(Field(p.heap, 2), LAMBDA q :
                    Done(q.heap, ScalarOperand(emitAnd(p.val, q.val)))))

TupleEquality == Operands(2) /\ IsTuple(Below) /\ IsTuple(Top) /\ \E negated \in BOOLEAN :
    Evaluate(2, Then(emitTupleEqualTo(Below, Top), LAMBDA q :
        Done(q.heap, IF negated THEN ScalarOperand(emitUnaryNot(q.val)) ELSE q.val)))

---------------------------------------------------------------------------
(* Statements.                                                             *)

\* Both the size check and the copy; size is that of the declaration.
Resized(v, size) ==
    IF Live(heap, v) /\ ~declVectorSizeCheck(size, getArrSize(heap, v))
    THEN Ended(heap, "SizeError") ELSE transferVecElements(heap, v, size)

Bind(v, val) == [store EXCEPT ![v] = val]

VectorVar(val, size) == Put(val, "size", size)

\* The vector a declaration makes of the operand p.
DeclaredVector(p, size) ==
    CASE IsScalar(p) -> scalarToVector(heap, p, size, p.base)
      [] IsVector(p) /\ size # NoSize -> Resized(p, size)
      [] OTHER -> Done(heap, p)

emitDec(v, r, size) ==
    IF r.end # "no" THEN Stop(r.end)
    ELSE Execute(r, Bind(v, VectorVar(r.val, size)), frame)

emitVectorDec(v) == Statement(1) /\ store[v] = NotDeclared /\ ~IsTuple(Top) /\
    \E size \in {NoSize} \cup 0..MaxSize :
        /\ IsScalar(Top) => size # NoSize
        /\ emitDec(v, DeclaredVector(Top, size), size)

\* Without an expression: zeros, and for a tuple a zero and a vector of them.
emitDefaultDec(v) == Statement(0) /\ store[v] = NotDeclared /\ \E base \in Bases, size \in 0..MaxSize :
    LET r == createVector(heap, base, [i \in 1..size |-> 0])
    IN \/ emitDec(v, r, size)
       \/ /\ CanCreateStruct /\ base = "integer"
          /\ Execute(r, Bind(v, TupleAt(FreshStruct)),
                     emitCreateTuple(<<ScalarOperand(ScalarOf("integer", 0)), r.val>>))

\* An operand that is a variable's struct is the variable itself.
IsVariable(p) == IsTuple(p) /\ \E u \in Vars : store[u] = p

\* A declaration from a variable copies the fields, and shares the vectors.
emitTupleDec(v) == Statement(1) /\ store[v] = NotDeclared /\ IsTuple(Top) /\
    IF IsVariable(Top)
    THEN CanCreateStruct /\ Execute(Done(heap, Nothing), Bind(v, TupleAt(FreshStruct)),
                                    emitCreateTuple(frame[Top.struct]))
    ELSE Execute(Done(heap, Nothing), Bind(v, Top), frame)

\* The loop runs over the target; the source is freed.
emitAssignVector(h, v, from) ==
    LET to == VectorAt(store[v].base, store[v].block)
    IN CASE ~Live(h, to) \/ ~Live(h, from) -> Ended(h, "use_after_free")
         [] Live(h, to) /\ Live(h, from) /\ getArrSize(h, from) < getArrSize(h, to) ->
              Ended(h, "out_of_bounds")
         [] OTHER -> freeVector(Done([h EXCEPT ![to.block].elems =
                         SubSeq(Elems(h, from), 1, getArrSize(h, to))], Nothing), from)

visitIdAssign(v, p) ==
    LET size == store[v].size
        r    == IF IsScalar(p) THEN scalarToVector(heap, p, size, store[v].base) ELSE Done(heap, p)
    IN Then(r, LAMBDA q :
         IF size # NoSize /\ Live(q.heap, q.val)
            /\ ~declVectorSizeCheck(size, getArrSize(q.heap, q.val))
         THEN Ended(q.heap, "SizeError") ELSE emitAssignVector(q.heap, v, q.val))

AssignVector(v) == Statement(1) /\ IsVector(store[v]) /\ ~IsTuple(Top)
    /\ Top.base = store[v].base
    /\ (IsScalar(Top) => store[v].size # NoSize)
    /\ Execute(visitIdAssign(v, Top), store, frame)

\* The variable's struct is replaced.  A literal is evaluated twice: the
\* second struct is the one that is kept.
CloneField(h, p) == IF IsScalar(p) THEN Done(h, p) ELSE cloneVector(h, p)

CloneFields(h, fields) ==
    Then(CloneField(h, fields[1]), LAMBDA p :
        Then(CloneField(p.heap, fields[2]), LAMBDA q : Done(q.heap, <<p.val, q.val>>)))

AssignTuple(v) == Statement(1) /\ IsTuple(store[v]) /\ IsTuple(Top) /\ \E literal \in BOOLEAN :
    IF literal
    THEN /\ CanCreateStruct /\ ~IsVariable(Top)
         /\ LET r == CloneFields(heap, frame[Top.struct])
            IN Execute(r, Bind(v, TupleAt(FreshStruct)), emitCreateTuple(r.val))
    ELSE Execute(Done(heap, Nothing), Bind(v, Top), frame)

\* v[index] = value.
AssignIndex(v) == Statement(2) /\ IsVector(store[v])
    /\ IsScalar(Below) /\ IsScalar(Top) /\ isIntegerType(Top)
    /\ Castable(Below.base, store[v].base)
    /\ Execute(storeArrVal(heap, store[v], Top.val - 1, typeCast(Below, store[v].base)), store, frame)

\* v.pos = value: what was there is not freed.
emitTupAssign(v) == Statement(1) /\ IsTuple(store[v]) /\ ~IsTuple(Top) /\
    \E pos \in DOMAIN frame[store[v].struct] :
        LET s == store[v].struct
        IN /\ frame[s][pos].kind = Top.kind /\ frame[s][pos].base = Top.base
           /\ Execute(Done(heap, Nothing), store, [frame EXCEPT ![s][pos] = Top])

\* Unpacking assigns the tuple's own vectors, which frees them.
UnpackField(h, own, targets, i) ==
    IF i \in DOMAIN own THEN emitAssignVector(h, targets[i], own[i]) ELSE Done(h, Nothing)

Unpack(t) == Statement(0) /\ IsTuple(store[t]) /\
    LET own == VectorsOf(store[t], frame)
    IN \E targets \in [DOMAIN own -> {u \in Vars : IsVector(store[u])}] :
        /\ \A i \in DOMAIN own : own[i].base = store[targets[i]].base
        /\ Execute(Then(UnpackField(heap, own, targets, 1),
                        LAMBDA q : UnpackField(q.heap, own, targets, 2)), store, frame)

\* Every vector is freed, one after the other.
FreeAll(h, vectors) ==
    IF \E q \in DOMAIN vectors :
           \/ ~Live(h, vectors[q])
           \/ \E r \in DOMAIN vectors \ {q} : vectors[r].block = vectors[q].block
    THEN Ended(h, "double_free")
    ELSE Done([b \in DOMAIN h |->
                 IF \E q \in DOMAIN vectors : vectors[q].block = b THEN Freed ELSE h[b]], Nothing)

OutStream == Statement(1) /\ IsVector(Top) /\
    Execute(IF Live(heap, Top) THEN freeVector(Done(heap, Nothing), Top)
            ELSE Ended(heap, "use_after_free"), store, frame)

\* A scalar is printed, stored in a scalar variable, decides a branch.
UseScalar == Statement(1) /\ IsScalar(Top) /\ Execute(Done(heap, Nothing), store, frame)

---------------------------------------------------------------------------
(* Calls.  Every vector is a header in the frame of the subroutine that    *)
(* made it and an array in the heap, so the header of a vector that a call *)
(* returns is in a frame that is gone: whether it is still intact when it  *)
(* is last used is decided here, at the call.                              *)

CallResult(n, h) ==
    \/ \E b \in Bases, x \in Values :
         x \in ValuesOf(b) /\ Evaluate(n, Done(h, ScalarOperand(ScalarOf(b, x))))
    \/ \E b \in Bases, elems \in SequencesUpTo(MaxSize) :
         Range(elems) \subseteq ValuesOf(b) /\ Evaluate(n, createVector(h, b, elems))
    \/ Stop("dead_frame")

\* A function frees none of its parameters; all that waits is passed to it.
CallFunction == Operands(1) /\ CallResult(Len(stack), heap)

\* A procedure frees its constant parameters, the vectors of a tuple too.
Freed1 == FreeAll(heap, VectorsOf(Top, frame))

CallProcedure == Statement(1) /\
    IF Freed1.end # "no" THEN Stop(Freed1.end) ELSE CallResult(1, Freed1.heap)

\* The call statement frees the result; so nothing is left of it.
CallStatement == Statement(1) /\ Execute(Freed1, store, frame)

\* A parameter that may change is the variable: the callee stores elements.
CallByReference(v) == Statement(0) /\ IsVector(store[v]) /\
    IF Live(heap, store[v])
    THEN \E elems \in [1..getArrSize(heap, store[v]) -> Values \cap ValuesOf(store[v].base)] :
            Execute(Done([heap EXCEPT ![store[v].block].elems = elems], Nothing), store, frame)
    ELSE Stop("use_after_free")

---------------------------------------------------------------------------
(* The end of a block, and return.                                         *)

NoVariables == [v \in Vars |-> NotDeclared]

Owned == AllVectors(store, frame)

\* Mutant of visitFreeNode: the vector that is returned is freed as well.
visitFreeNodeAndOperand ==
    Then(FreeAll(heap, Owned), LAMBDA q : FreeAll(q.heap, AllVectors(stack, frame)))

visitFreeNode == FreeAll(heap, Owned)

EndOfBlock == Statement(0) /\ store # NoVariables /\ Execute(visitFreeNode, NoVariables, frame)

Return == Statement(1) /\
    IF visitFreeNode.end # "no" THEN Stop(visitFreeNode.end)
    ELSE Settle(visitFreeNode.heap, frame, NoVariables, stack, "returned")

Exited == status # "running" /\ UNCHANGED vars

Expression ==
    \/ Literal \/ emitVectorLiteral \/ UnaryOp \/ Index \/ RangeNode
    \/ ReverseCall \/ LengthCall \/ FormatCall \/ GeneratorNode \/ TypeCast
    \/ \E op \in BinaryOps : BinaryOp(op)
    \/ TupleNode \/ FilterNode \/ TupleEquality
    \/ \E v \in Vars : IdNode(v) \/ TupleAccessNode(v)
    \/ CallFunction \/ CallProcedure

Assignment(v) ==
    \/ AssignVector(v) \/ AssignTuple(v) \/ AssignIndex(v) \/ emitTupAssign(v)
    \/ Unpack(v) \/ CallByReference(v)

Next ==
    \/ Expression
    \/ \E v \in Vars : emitVectorDec(v) \/ emitDefaultDec(v) \/ emitTupleDec(v) \/ Assignment(v)
    \/ OutStream \/ UseScalar \/ CallStatement \/ EndOfBlock \/ Return \/ Exited

Spec == Init /\ [][Next]_vars

---------------------------------------------------------------------------
(* Properties.                                                             *)

Dangling == {b \in DOMAIN heap : ~heap[b].live}

\* What owns a vector: a variable, or an operand that is no variable's struct.
Temporaries == Restrict(stack, {i \in DOMAIN stack : ~IsVariable(stack[i])})

Owners(places, b) ==
    {q \in DOMAIN AllVectors(places, frame) : AllVectors(places, frame)[q].block = b}

Owned1(b) == Cardinality(Owners(store, b)) + Cardinality(Owners(Temporaries, b)) = 1

\* The vector of a variable is allocated, and nothing else points to it:
\* loadVectorId copies, and whatever an operation frees is such a copy.
VariablesOwnTheirVectors ==
    \A v \in Vars : IsVector(store[v]) => Live(heap, store[v]) /\ Owned1(store[v].block)

\* Evaluating an expression changes no vector variable, however many operands
\* the operations consume.
ExpressionsHaveNoEffect ==
    [][stack' # <<>> /\ status' = "running" =>
        \A v \in Vars : IsVector(store[v]) =>
            IsVector(store'[v]) /\ heap'[store'[v].block] = heap[store[v].block]]_vars

\* While every vector has one owner, one is freed under its owner only when
\* it is a field of a tuple: compared, unpacked, passed to a procedure or
\* returned.
OnlyFieldsAreFreedInUse ==
    [][/\ Dangling' # {}
       /\ Dangling = {} /\ \A b \in DOMAIN heap : Owned1(b)
       => (stack # <<>> /\ IsTuple(Top)) \/ \E v \in Vars : Unpack(v)]_vars

\* Freed memory is used, or freed again, only after that, after a tuple was
\* copied, or when a tuple is compared with itself.
WildOnlyThroughTuples ==
    [][status' \in {"use_after_free", "double_free"} =>
        \/ Dangling # {} \/ \E b \in DOMAIN heap : ~Owned1(b)
        \/ TupleEquality]_vars

\* Each operation frees the operands it consumes; these are all that do not.
\* Of the tuples that are compared, those are dropped whose fields differ.
OnlyTheseLeak ==
    [][lost' => \/ LengthCall \/ FilterNode \/ FormatCall \/ BinaryOp("by") \/ CallFunction
                \/ TupleEquality /\ ~SameFields(frame[Below.struct], frame[Top.struct])
                \/ \E v \in Vars : AssignTuple(v) \/ emitTupAssign(v)]_vars

\* Reads and writes outside a vector come, but for a cast, from an index, a
\* stride or an assignment; declarations, literals, calls and the other
\* operations stay inside.
OutOfBoundsFromThese ==
    [][status' = "out_of_bounds" =>
        \/ Index \/ BinaryOp("by")
        \/ \E v \in Vars : AssignIndex(v) \/ AssignVector(v) \/ Unpack(v)]_vars

\* Return frees the variables and leaves the vector it returns alone.
ReturnsItsOwnCopy ==
    [][status' = "returned" /\ IsVector(Top) =>
        heap'[stack'[1].block] = heap[Top.block]]_vars

---------------------------------------------------------------------------
(* What the source says of this code, and what it does.                    *)

\* CodeGenASTWalker.cpp says of a returned value that it is a copy, so that
\* it is safe to free everything behind it: nothing returned is freed.
ReturnedIsACopy == status = "returned" => Dangling = {}

=============================================================================
