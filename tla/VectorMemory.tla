---------------------------- MODULE VectorMemory ----------------------------
(***************************************************************************)
(* The vectors of a running program: EmitVectors.cpp, the vector half of   *)
(* EmitBinaryOps.cpp and SizeError.c, one operator per function of the     *)
(* back end, as what the code it emits does to the heap.                   *)
(*                                                                         *)
(* A heap maps blocks to their elements; a block that was freed stays in   *)
(* it, not live, while something still points to it.  A vector is the base *)
(* type its elements are read with and its block.  Every function returns  *)
(* a heap, its value and how it ended: "no" end, the error it stopped the  *)
(* program with, or what it did that C leaves undefined, after which       *)
(* nothing is said.                                                        *)
(***************************************************************************)
EXTENDS Scalars, FiniteSetsExt, Functions, SequencesExt

CONSTANT MaxBlocks      \* bound: blocks that are allocated at once

ASSUME VectorMemoryAssumption == MaxBlocks \in Nat \ {0}

HeapBlock == 1..MaxBlocks

RuntimeError == {"SizeError", "IndexError", "MathError"}
Undefinedness == {"out_of_bounds", "cast_overruns", "use_after_free", "double_free", "overflow",
                  "no_code", "dead_frame"}

VectorAt(base, b) == [kind |-> "vector", base |-> base, block |-> b]
ScalarOperand(s) == [kind |-> "scalar", base |-> s.base, val |-> s.val]
isStructType(v) == v.kind # "scalar"

Nothing == [kind |-> "none"]
Done(h, v) == [heap |-> h, val |-> v, end |-> "no"]
Ended(h, e) == [heap |-> h, val |-> Nothing, end |-> e]

\* Mutant of EndOf: the failure is handed on under its own name.
EndOfUntranslated(failure) == IF failure = "MathError" THEN "Thrown" ELSE "overflow"

\* How a scalar operation that failed on some element ends the program.
EndOf(failure) ==
    CASE failure = "MathError" -> "MathError"
      [] failure = "Undefined" -> "overflow"
      [] OTHER                 -> "no_code"

\* The result of r handed to the next call, unless the program has ended.
Then(r, next(_)) == IF r.end = "no" THEN next(r) ELSE r

\* The function f with the value y for x.
Put(f, x, y) == [z \in DOMAIN f \cup {x} |-> IF z = x THEN y ELSE f[z]]

\* The elements of a set of numbers, numbered in their order.
Number(S) == [a \in S |-> Cardinality({b \in S : b <= a})]

---------------------------------------------------------------------------
(* Blocks.                                                                 *)

Allocated(elems) == [live |-> TRUE, elems |-> elems]
Freed == [live |-> FALSE, elems |-> <<>>]

createVector(h, base, elems) ==
    LET b == Min(HeapBlock \ DOMAIN h)
    IN Done(Put(h, b, Allocated(elems)), VectorAt(base, b))

Live(h, v) == h[v.block].live
Elems(h, v) == h[v.block].elems
Elem(h, v, i) == ScalarOf(v.base, Elems(h, v)[i])
getArrSize(h, v) == Len(Elems(h, v))

freeVector(r, v) ==
    Then(r, LAMBDA q : IF Live(q.heap, v) THEN [q EXCEPT !.heap[v.block] = Freed]
                       ELSE Ended(q.heap, "double_free"))

\* A new vector of scalars; the first that failed is what the program ends
\* with.
Vector(h, base, scalars) ==
    LET bad == {i \in DOMAIN scalars : Failed(scalars[i])}
    IN IF bad # {} THEN Ended(h, EndOf(scalars[Min(bad)].base))
       ELSE createVector(h, base, [i \in DOMAIN scalars |-> scalars[i].val])

\* vectorIndexCheck lets the index that equals the size through; i counts
\* from 0, as in the code.
vectorIndexCheck(i, size) == ~(i > size \/ i < 0)

loadArrVal(h, v, i) ==
    CASE ~Live(h, v) -> Ended(h, "use_after_free")
      [] Live(h, v) /\ ~vectorIndexCheck(i, getArrSize(h, v)) -> Ended(h, "IndexError")
      [] Live(h, v) /\ i = getArrSize(h, v) -> Ended(h, "out_of_bounds")
      [] OTHER -> Done(h, ScalarOperand(Elem(h, v, i + 1)))

storeArrVal(h, v, i, s) ==
    CASE ~Live(h, v) -> Ended(h, "use_after_free")
      [] Live(h, v) /\ ~vectorIndexCheck(i, getArrSize(h, v)) -> Ended(h, "IndexError")
      [] Live(h, v) /\ i = getArrSize(h, v) -> Ended(h, "out_of_bounds")
      [] OTHER -> Done([h EXCEPT ![v.block].elems[i + 1] = s.val], Nothing)

---------------------------------------------------------------------------
(* Making and copying vectors.                                             *)

scalarToVector(h, s, size, base) ==
    Vector(h, base, [i \in 1..size |-> typeCast(s, base)])

\* Mutant of cloneVector: the copy runs the wrong way.
cloneVectorOntoItself(h, v) ==
    createVector([h EXCEPT ![v.block].elems = [i \in DOMAIN @ |-> 0]], v.base, Elems(h, v))

cloneVector(h, v) ==
    IF Live(h, v) THEN createVector(h, v.base, Elems(h, v)) ELSE Ended(h, "use_after_free")

promoteVectorTo(h, v, base) ==
    CASE v.base = base -> Done(h, v)
      [] v.base # base /\ ~Live(h, v) -> Ended(h, "use_after_free")
      [] OTHER -> freeVector(
            Vector(h, base, [i \in DOMAIN Elems(h, v) |-> typeCast(Elem(h, v, i), base)]), v)

\* Mutant of declVectorSizeCheck: one element more is let through.
declVectorSizeCheckByOne(decl_size, size) == size <= decl_size + 1

declVectorSizeCheck(decl_size, size) == size <= decl_size

\* A vector of size elements that starts with those of v.  A longer v stores
\* one element behind the new block before the index check stops it.
transferVecElements(h, v, size) ==
    IF ~Live(h, v) THEN Ended(h, "use_after_free")
    ELSE IF getArrSize(h, v) > size THEN Ended(h, "out_of_bounds")
    ELSE freeVector(createVector(h, v.base,
            Elems(h, v) \o [i \in 1..(size - getArrSize(h, v)) |-> 0]), v)

\* The elements from the first to the last of 0..(size-1) that are kept.
resizeVectorWithInt(r, elems) == Then(r, LAMBDA q :
    freeVector(createVector(q.heap, q.val.base, elems), q.val))

\* Mutant of reverseVector: the operand is freed and returned.
reverseVectorInPlace(h, v) ==
    IF getArrSize(h, v) = 0 THEN Ended(h, "IndexError")
    ELSE freeVector(Done([h EXCEPT ![v.block].elems = Reverse(@)], v), v)

reverseVector(h, v) ==
    IF ~Live(h, v) THEN Ended(h, "use_after_free")
    ELSE IF getArrSize(h, v) = 0 THEN Ended(h, "IndexError")
    ELSE freeVector(createVector(h, v.base, Reverse(Elems(h, v))), v)

emitRangeVector(h, lower, upper) ==
    createVector(h, "integer", [i \in 1..(upper - lower + 1) |-> Wrap(lower + i - 1)])

\* The body of a generator is a function of the domain's element.  The
\* domain is freed.
createVectorGenerator(h, dom, base, body) ==
    IF ~Live(h, dom) THEN Ended(h, "use_after_free")
    ELSE freeVector(Vector(h, base, [i \in DOMAIN Elems(h, dom) |->
                        typeCast(body[Elems(h, dom)[i]], base)]), dom)

\* One filter keeps the elements of a set; the domain stays allocated for
\* the next one.
createFilter(h, dom, keep) ==
    LET kept == Number({i \in DOMAIN Elems(h, dom) : Elems(h, dom)[i] \in keep})
    IN IF ~Live(h, dom) THEN Ended(h, "use_after_free")
       ELSE resizeVectorWithInt(createVector(h, dom.base, [i \in DOMAIN Elems(h, dom) |-> 0]),
                [n \in 1..Cardinality(DOMAIN kept) |-> Elems(h, dom)[AntiFunction(kept)[n]]])

---------------------------------------------------------------------------
(* Operations.  An operation on two vectors checks their sizes, builds its *)
(* result and frees both operands.                                         *)

vectorSizeCheck(h, l, r) == getArrSize(h, l) = getArrSize(h, r)

Pairwise(h, l, r, make(_)) ==
    IF ~Live(h, l) \/ ~Live(h, r) THEN Ended(h, "use_after_free")
    ELSE IF ~vectorSizeCheck(h, l, r) THEN Ended(h, "SizeError")
    ELSE freeVector(freeVector(make(h), l), r)

Elementwise(h, l, r, base, f(_, _)) ==
    Pairwise(h, l, r, LAMBDA g :
        Vector(g, base, [i \in DOMAIN Elems(g, l) |-> f(Elem(g, l, i), Elem(g, r, i))]))

emitVectorAdd(h, l, r, base) == Elementwise(h, l, r, base, emitAdd)
emitVectorSub(h, l, r, base) == Elementwise(h, l, r, base, emitSub)
emitVectorMul(h, l, r, base) == Elementwise(h, l, r, base, emitMul)
emitVectorDiv(h, l, r, base) == Elementwise(h, l, r, base, emitDiv)
emitVectorRem(h, l, r, base) == Elementwise(h, l, r, base, emitRem)
emitVectorExp(h, l, r, base) == Elementwise(h, l, r, base, emitExpo)
emitVectorLessThan(h, l, r) == Elementwise(h, l, r, "boolean", emitLessThan)
emitVectorLessEq(h, l, r) == Elementwise(h, l, r, "boolean", emitLessEq)
emitVectorGreaterThan(h, l, r) == Elementwise(h, l, r, "boolean", emitGreaterThan)
emitVectorGreaterEq(h, l, r) == Elementwise(h, l, r, "boolean", emitGreaterEq)
emitVectorAnd(h, l, r) == Elementwise(h, l, r, "boolean", emitAnd)
emitVectorOr(h, l, r) == Elementwise(h, l, r, "boolean", emitOr)
emitVectorXor(h, l, r) == Elementwise(h, l, r, "boolean", emitXor)

\* Operations whose result is one scalar, accumulated over the elements.
Accumulate(h, l, r, f(_, _), join(_, _), start) ==
    Pairwise(h, l, r, LAMBDA g :
        Done(g, ScalarOperand(FoldLeft(join, start,
                    [i \in DOMAIN Elems(g, l) |-> f(Elem(g, l, i), Elem(g, r, i))]))))

emitVectorEqualTo(h, l, r) ==
    Accumulate(h, l, r, emitEqualTo, emitAnd, ScalarOf("boolean", 1))

emitVectorDot(h, l, r, base) == Accumulate(h, l, r, emitMul, emitAdd, ScalarOf(base, 0))

emitVectorNot(h, v) ==
    IF ~Live(h, v) THEN Ended(h, "use_after_free")
    ELSE freeVector(Vector(h, "boolean", [i \in DOMAIN Elems(h, v) |-> emitUnaryNot(Elem(h, v, i))]), v)

emitVectorUnaryMinus(h, v) ==
    IF ~Live(h, v) THEN Ended(h, "use_after_free")
    ELSE Then(scalarToVector(h, ScalarOf("integer", -1), getArrSize(h, v), v.base),
              LAMBDA q : emitVectorMul(q.heap, v, q.val, v.base))

\* Mutants of emitVectorConcat: the right operand is kept; the left one is
\* freed in its place.
emitVectorConcatKeepsRight(h, l, r, base) ==
    freeVector(createVector(h, base, Elems(h, l) \o Elems(h, r)), l)

emitVectorConcatFreesLeft(h, l, r, base) ==
    freeVector(freeVector(createVector(h, base, Elems(h, l) \o Elems(h, r)), l), l)

\* No sizes to compare; both operands are read with the result's base.
emitVectorConcat(h, l, r, base) ==
    IF ~Live(h, l) \/ ~Live(h, r) THEN Ended(h, "use_after_free")
    ELSE freeVector(freeVector(createVector(h, base, Elems(h, l) \o Elems(h, r)), l), r)

\* A stride that is not positive never leaves the loop of a vector that has
\* elements; the operand is not freed.
emitVectorStride(h, v, stride) ==
    IF ~Live(h, v) THEN Ended(h, "use_after_free")
    ELSE IF stride.val <= 0 /\ getArrSize(h, v) > 0 THEN Ended(h, "out_of_bounds")
    ELSE resizeVectorWithInt(createVector(h, v.base, [i \in DOMAIN Elems(h, v) |-> 0]),
            [i \in 1..(IF getArrSize(h, v) = 0 THEN 0
                      ELSE (getArrSize(h, v) + stride.val - 1) \div stride.val) |->
                Elems(h, v)[(i - 1) * stride.val + 1]])

=============================================================================
