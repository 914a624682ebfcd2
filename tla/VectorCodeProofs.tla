-------------------------- MODULE VectorCodeProofs --------------------------
(***************************************************************************)
(* Who owns a vector, for every subroutine: proofs about VectorCode.       *)
(*                                                                         *)
(* The first part says of each function of the back end what it does to    *)
(* the blocks of the heap it is given, and nothing of the elements in      *)
(* them: which blocks it may change, that what it returns is its own, what *)
(* it frees.  The second part is about steps, and the last about the       *)
(* actions.                                                                *)
(***************************************************************************)
EXTENDS VectorCode, FiniteSetTheorems, SequenceTheorems, WellFoundedInduction,
        NaturalsInduction, TLAPS

---------------------------------------------------------------------------
(* Numbers and sequences.                                                  *)

\* A nonempty set of natural numbers has a least element, and Min is it.
LEMMA MinProps ==
    ASSUME NEW S \in SUBSET Nat, S # {}
    PROVE  Min(S) \in S /\ \A x \in S : Min(S) <= x
  <1>1. IsWellFoundedOn(OpToRel(<, Nat), Nat)
    BY NatLessThanWellFounded
  <1>2. PICK m \in S : \A x \in S : <<x, m>> \notin OpToRel(<, Nat)
    BY <1>1, WFMin, Zenon
  <1>3. \A x \in S : m <= x
    <2>1. TAKE x \in S
    <2>2. x \in Nat /\ m \in Nat
      BY <1>2
    <2>3. ~(x < m)
      BY <1>2, <2>2 DEF OpToRel
    <2>. QED BY <2>2, <2>3
  <1>. QED BY <1>2, <1>3 DEF Min

\* Numbering gives every element a number of its own, and AntiFunction takes
\* it back.
LEMMA NumberProps ==
    ASSUME NEW S \in SUBSET Nat, IsFiniteSet(S), NEW num, num = Number(S)
    PROVE  /\ DOMAIN num = S /\ Range(num) \subseteq 1..Cardinality(S)
           /\ \A a \in S : num[a] \in Range(num) /\ AntiFunction(num)[num[a]] = a
           /\ \A n \in Range(num) : AntiFunction(num)[n] \in S /\ num[AntiFunction(num)[n]] = n
           /\ \A a, b \in S : num[a] = num[b] => a = b
  <1>1. \A a \in S : num[a] = Cardinality({b \in S : b <= a})
    BY DEF Number
  <1>2. DOMAIN num = S
    BY DEF Number
  <1>3. ASSUME NEW a \in S PROVE num[a] \in 1..Cardinality(S)
    <2>. DEFINE T == {b \in S : b <= a}
    <2>1. IsFiniteSet(T) /\ Cardinality(T) <= Cardinality(S) /\ Cardinality(T) \in Nat
      BY FS_Subset, FS_CardinalityType
    <2>2. a \in T
      OBVIOUS
    <2>3. Cardinality(T) # 0
      <3>. HIDE DEF T
      <3>. QED BY <2>1, <2>2, FS_EmptySet
    <2>. QED BY <1>1, <2>1, <2>3, FS_CardinalityType
  <1>4. ASSUME NEW a \in S, NEW b \in S, a < b PROVE num[a] # num[b]
    <2>. DEFINE T == {c \in S : c <= a}  U == {c \in S : c <= b}
    <2>1. IsFiniteSet(U)
      BY FS_Subset
    <2>. a \in Nat /\ b \in Nat
      OBVIOUS
    <2>2. T \subseteq U
      <3>1. ASSUME NEW c \in S, c <= a PROVE c <= b
        <4>1. c \in Nat
          OBVIOUS
        <4>. QED BY <4>1, <3>1, <1>4
      <3>. QED BY <3>1
    <2>4. b \in U
      OBVIOUS
    <2>5. b \notin T
      BY <1>4
    <2>3. Cardinality(T) # Cardinality(U)
      <3>. HIDE DEF T, U
      <3>. QED BY <2>1, <2>2, <2>4, <2>5, FS_Subset
    <2>. QED BY <1>1, <2>3
  <1>5. \A a, b \in S : num[a] = num[b] => a = b
    <2>1. TAKE a, b \in S
    <2>2. a \in Nat /\ b \in Nat
      OBVIOUS
    <2>3. a < b \/ b < a \/ a = b
      BY <2>2
    <2>. QED BY <1>4, <2>3
  <1>6. Range(num) = {num[a] : a \in S}
    BY <1>2 DEF Range
  <1>7. \A n \in Range(num) : AntiFunction(num)[n] \in S /\ num[AntiFunction(num)[n]] = n
    <2>. TAKE n \in Range(num)
    <2>1. AntiFunction(num) =
            [t \in Range(num) |-> CHOOSE s \in DOMAIN num : t \in Range(num) => num[s] = t]
      BY Zenon DEF AntiFunction, Inverse
    <2>2. AntiFunction(num)[n] = CHOOSE s \in DOMAIN num : n \in Range(num) => num[s] = n
      BY <2>1, Zenon
    <2>3. \E s \in DOMAIN num : num[s] = n
      BY <1>2, <1>6
    <2>4. AntiFunction(num)[n] \in DOMAIN num /\ num[AntiFunction(num)[n]] = n
      BY <2>2, <2>3, Zenon
    <2>. QED BY <1>2, <2>4
  <1>8. \A a \in S : num[a] \in Range(num)
    BY <1>6
  <1>9. \A a \in S : AntiFunction(num)[num[a]] = a
    BY ONLY <1>5, <1>7, <1>8
  <1>. QED BY ONLY <1>2, <1>3, <1>5, <1>6, <1>7, <1>8, <1>9

\* Finite sets of numbers between 1 and a bound.
LEMMA UpTo ==
    ASSUME NEW n \in Int, NEW S \in SUBSET (1..n)
    PROVE  /\ IsFiniteSet(S) /\ Cardinality(S) \in Nat /\ S \in SUBSET Nat
           /\ n \in Nat => Cardinality(S) <= n
  <1>1. IsFiniteSet(1..n) /\ (n \in Nat => Cardinality(1..n) = n)
    BY FS_Interval
  <1>2. IsFiniteSet(S) /\ Cardinality(S) <= Cardinality(1..n)
    BY <1>1, FS_Subset
  <1>3. S \in SUBSET Nat
    OBVIOUS
  <1>. QED BY <1>1, <1>2, <1>3, FS_CardinalityType

\* A sequence, whatever its elements are.
Sequence(s) == \E n \in Nat : DOMAIN s = 1..n /\ s = [i \in 1..n |-> s[i]]

LEMMA SequenceProps ==
    ASSUME NEW s, Sequence(s)
    PROVE  /\ Len(s) \in Nat /\ DOMAIN s = 1..Len(s) /\ s \in Seq(Range(s))
  <1>1. PICK n \in Nat : DOMAIN s = 1..n /\ s = [i \in 1..n |-> s[i]]
    BY DEF Sequence
  <1>2. \A i \in 1..n : s[i] \in Range(s)
    BY <1>1 DEF Range
  <1>3. s \in Seq(Range(s))
    BY <1>1, <1>2
  <1>. QED BY <1>3, LenProperties

LEMMA SeqIsSequence == ASSUME NEW S, NEW s \in Seq(S) PROVE Sequence(s)
  BY LenProperties DEF Sequence

---------------------------------------------------------------------------
(* What a function of the back end does to the heap.                       *)

HeapOK(h) ==
    /\ DOMAIN h \subseteq HeapBlock
    /\ \A b \in DOMAIN h : DOMAIN h[b] = {"live", "elems"} /\ h[b].live \in BOOLEAN
                           /\ Sequence(h[b].elems)

Room(h, n) == Cardinality(DOMAIN h) + n <= MaxBlocks

\* The ends of functions whose operands are allocated and different, of those
\* that may leave a vector, and all there are.
Harmless == {"no", "SizeError", "IndexError", "MathError", "overflow", "no_code", "cast_overruns"}
Outside == Harmless \cup {"out_of_bounds"}
AnyEnd == Outside \cup {"use_after_free", "double_free"}

\* From the heap h the result r was made: no block but those of the set D was
\* touched, and at most n were added.
Gives(h, D, n, E, r) ==
    /\ DOMAIN r = {"heap", "val", "end"} /\ r.end \in E
    /\ r.end = "no" =>
        /\ HeapOK(r.heap) /\ DOMAIN h \subseteq DOMAIN r.heap
        /\ Cardinality(DOMAIN r.heap) <= Cardinality(DOMAIN h) + n
        /\ \A b \in DOMAIN h \ D : r.heap[b] = h[b]

\* It is a vector of its own.
OwnVector(h, D, r) ==
    r.end = "no" => /\ r.val = VectorAt(r.val.base, r.val.block)
                    /\ r.val.block \in DOMAIN r.heap \ (DOMAIN h \ D)
                    /\ Live(r.heap, r.val)

OneScalar(r) == r.end = "no" => IsScalar(r.val)

\* Of the blocks of D, and of the new ones, only the result is left.
Tidy(h, D, r) ==
    r.end = "no" => \A b \in DOMAIN r.heap : r.heap[b].live =>
                        b \in DOMAIN h \ D \/ (IsVector(r.val) /\ r.val.block = b)

\* A block that is allocated, of a vector that is an operand.
LiveVector(h, v) == IsVector(v) /\ v = VectorAt(v.base, v.block) /\ v.block \in DOMAIN h /\ Live(h, v)

LEMMA HeapFinite ==
    ASSUME NEW h, HeapOK(h)
    PROVE  IsFiniteSet(DOMAIN h) /\ Cardinality(DOMAIN h) \in Nat /\ DOMAIN h \in SUBSET Nat
  BY UpTo, VectorMemoryAssumption DEF HeapOK, HeapBlock

\* A new block is at an address that was free.
LEMMA FreshBlock ==
    ASSUME NEW h, HeapOK(h), Room(h, 1)
    PROVE  Min(HeapBlock \ DOMAIN h) \in HeapBlock \ DOMAIN h
  <1>. DEFINE S == HeapBlock \ DOMAIN h
  <1>1. S \in SUBSET Nat
    BY VectorMemoryAssumption DEF HeapBlock
  <1>2. S # {}
    <2>1. SUFFICES ASSUME DOMAIN h = HeapBlock PROVE FALSE
      BY DEF HeapOK
    <2>2. Cardinality(HeapBlock) = MaxBlocks
      BY FS_Interval, VectorMemoryAssumption DEF HeapBlock
    <2>. QED BY <2>1, <2>2, VectorMemoryAssumption DEF Room
  <1>. HIDE DEF S
  <1>3. Min(S) \in S
    BY <1>1, <1>2, MinProps
  <1>. QED BY <1>3 DEF S

LEMMA CreateVector ==
    ASSUME NEW h, HeapOK(h), Room(h, 1), NEW base, NEW elems, Sequence(elems),
           NEW r, r = createVector(h, base, elems)
    PROVE  /\ r.end = "no" /\ r.val.base = base /\ r.heap[r.val.block].elems = elems
           /\ Gives(h, {}, 1, {"no"}, r) /\ OwnVector(h, {}, r) /\ Tidy(h, {}, r)
           /\ r.val.block \notin DOMAIN h
  <1>1. PICK b : b = Min(HeapBlock \ DOMAIN h)
    OBVIOUS
  <1>2. b \in HeapBlock /\ b \notin DOMAIN h
    BY <1>1, FreshBlock
  <1>3. r = Done(Put(h, b, Allocated(elems)), VectorAt(base, b))
    BY <1>1 DEF createVector
  <1>4. /\ DOMAIN r = {"heap", "val", "end"} /\ r.end = "no"
        /\ r.heap = Put(h, b, Allocated(elems)) /\ r.val = VectorAt(base, b)
    BY <1>3 DEF Done
  <1>5. /\ DOMAIN r.heap = DOMAIN h \cup {b} /\ r.heap[b] = Allocated(elems)
        /\ \A c \in DOMAIN h : r.heap[c] = h[c]
    BY <1>2, <1>4 DEF Put
  <1>6. r.val.base = base /\ r.val.block = b /\ r.val.kind = "vector"
    BY <1>4 DEF VectorAt
  <1>7. HeapOK(r.heap)
    <2>1. DOMAIN Allocated(elems) = {"live", "elems"} /\ Allocated(elems).live = TRUE
          /\ Allocated(elems).elems = elems
      BY DEF Allocated
    <2>. QED BY <1>2, <1>5, <2>1 DEF HeapOK
  <1>8. Cardinality(DOMAIN r.heap) = Cardinality(DOMAIN h) + 1
    BY <1>2, <1>5, HeapFinite, FS_AddElement
  <1>9. Gives(h, {}, 1, {"no"}, r)
    BY <1>4, <1>5, <1>7, <1>8, HeapFinite DEF Gives
  <1>10. r.heap[b].live /\ r.heap[b].elems = elems
    BY <1>5 DEF Allocated
  <1>11. OwnVector(h, {}, r)
    BY <1>2, <1>4, <1>5, <1>6, <1>10 DEF OwnVector, Live
  <1>12. Tidy(h, {}, r)
    BY <1>5, <1>6 DEF Tidy, IsVector
  <1>. QED BY <1>2, <1>4, <1>6, <1>9, <1>10, <1>11, <1>12

\* A block that is freed is not the result's, nor one that was touched before.
LEMMA FreeVector ==
    ASSUME NEW h, NEW D, NEW n, NEW E, NEW q, NEW v, NEW r, r = freeVector(q, v),
           Gives(h, D, n, E, q), LiveVector(h, v), v.block \notin D
    PROVE  /\ Gives(h, D \cup {v.block}, n, E, r) /\ r.end = q.end
           /\ r.end = "no" => r.val = q.val
           /\ Tidy(h, D, q) => Tidy(h, D \cup {v.block}, r)
           /\ OwnVector(h, D, q) => OwnVector(h, D \cup {v.block}, r)
  <1>1. CASE q.end # "no"
    <2>1. r = q
      BY <1>1 DEF freeVector, Then
    <2>. QED BY <1>1, <2>1 DEF Gives, OwnVector, Tidy
  <1>2. CASE q.end = "no"
    <2>1. /\ HeapOK(q.heap) /\ DOMAIN h \subseteq DOMAIN q.heap /\ DOMAIN q = {"heap", "val", "end"}
          /\ q.heap[v.block] = h[v.block] /\ v.block \in DOMAIN h
      BY <1>2 DEF Gives, LiveVector
    <2>2. Live(q.heap, v)
      BY <2>1 DEF Live, LiveVector
    <2>3. r = [q EXCEPT !.heap[v.block] = Freed]
      BY <1>2, <2>2 DEF freeVector, Then
    <2>4. /\ DOMAIN r = {"heap", "val", "end"} /\ r.end = "no" /\ r.val = q.val
          /\ r.heap = [q.heap EXCEPT ![v.block] = Freed]
      BY <1>2, <2>1, <2>3
    <2>5. /\ DOMAIN r.heap = DOMAIN q.heap /\ r.heap[v.block] = Freed
          /\ \A b \in DOMAIN q.heap \ {v.block} : r.heap[b] = q.heap[b]
      BY <2>1, <2>4
    <2>6. Freed.live = FALSE /\ DOMAIN Freed = {"live", "elems"} /\ Sequence(Freed.elems)
      <3>1. Freed.elems = <<>>
        BY DEF Freed
      <3>2. <<>> \in Seq({})
        OBVIOUS
      <3>3. Sequence(<<>>)
        BY <3>2, SeqIsSequence
      <3>. QED BY <3>1, <3>3 DEF Freed
    <2>7. HeapOK(r.heap)
      BY <2>1, <2>5, <2>6 DEF HeapOK
    <2>8. Gives(h, D \cup {v.block}, n, E, r)
      BY <1>2, <2>4, <2>5, <2>7 DEF Gives
    <2>9. ASSUME Tidy(h, D, q) PROVE Tidy(h, D \cup {v.block}, r)
      BY <1>2, <2>4, <2>5, <2>6, <2>9 DEF Tidy
    <2>10. ASSUME OwnVector(h, D, q) PROVE OwnVector(h, D \cup {v.block}, r)
      <3>1. q.val.block \in DOMAIN q.heap /\ q.val.block \notin DOMAIN h \ D /\ Live(q.heap, q.val)
        BY <1>2, <2>10 DEF OwnVector
      <3>2. q.val.block # v.block
        BY <2>1, <3>1
      <3>. QED BY <1>2, <2>4, <2>5, <2>10, <3>1, <3>2 DEF OwnVector, Live
    <2>. QED BY <1>2, <2>4, <2>8, <2>9, <2>10
  <1>. QED BY <1>1, <1>2

Makes(h, D, n, E, r) == Gives(h, D, n, E, r) /\ OwnVector(h, D, r) /\ Tidy(h, D, r)
Computes(h, D, n, E, r) == Gives(h, D, n, E, r) /\ OneScalar(r) /\ Tidy(h, D, r)

LEMMA EndedGives ==
    ASSUME NEW h, NEW D, NEW n, NEW E, NEW e \in E, e # "no", NEW r, r = Ended(h, e)
    PROVE  Makes(h, D, n, E, r) /\ Computes(h, D, n, E, r) /\ r.end = e
  BY DEF Ended, Makes, Computes, Gives, OwnVector, OneScalar, Tidy

LEMMA DoneGives ==
    ASSUME NEW h, HeapOK(h), NEW v, NEW r, r = Done(h, v)
    PROVE  /\ Gives(h, {}, 0, {"no"}, r) /\ r.end = "no" /\ r.val = v /\ r.heap = h
           /\ IsScalar(v) => Computes(h, {}, 0, {"no"}, r)
           /\ LiveVector(h, v) => Makes(h, {v.block}, 0, {"no"}, r)
  <1>1. DOMAIN r = {"heap", "val", "end"} /\ r.end = "no" /\ r.val = v /\ r.heap = h
    BY DEF Done
  <1>2. Gives(h, {}, 0, {"no"}, r)
    BY <1>1, HeapFinite DEF Gives
  <1>3. Tidy(h, {}, r)
    BY <1>1 DEF Tidy
  <1>4. ASSUME LiveVector(h, v) PROVE Makes(h, {v.block}, 0, {"no"}, r)
    BY <1>1, <1>4, HeapFinite DEF Makes, Gives, OwnVector, Tidy, LiveVector
  <1>. QED BY <1>1, <1>2, <1>3, <1>4 DEF Computes, OneScalar

LEMMA Widen ==
    ASSUME NEW h, NEW D, NEW n \in Nat, NEW E, NEW r, Gives(h, D, n, E, r), HeapOK(h),
           NEW C, D \subseteq C, NEW m \in Nat, n <= m, NEW F, E \subseteq F
    PROVE  Gives(h, C, m, F, r) /\ (OwnVector(h, D, r) => OwnVector(h, C, r))
  <1>1. r.end = "no" => Cardinality(DOMAIN r.heap) \in Nat
    BY HeapFinite DEF Gives
  <1>2. Gives(h, C, m, F, r)
    BY <1>1, HeapFinite DEF Gives
  <1>. QED BY <1>2 DEF OwnVector

\* One function after another.
LEMMA Chain ==
    ASSUME NEW h, HeapOK(h), NEW D1, NEW n1 \in Nat, NEW E1, NEW p, Gives(h, D1, n1, E1, p),
           p.end = "no", NEW D2, NEW n2 \in Nat, NEW E2, NEW q, Gives(p.heap, D2, n2, E2, q),
           NEW D, \A b \in DOMAIN h : b \in D <=> b \in D1 \/ b \in D2
    PROVE  /\ Gives(h, D, n1 + n2, E2, q)
           /\ OwnVector(p.heap, D2, q) => OwnVector(h, D, q)
           /\ Tidy(h, D1, p) /\ Tidy(p.heap, D2, q) /\ (IsVector(p.val) => p.val.block \in D2)
                => Tidy(h, D, q)
  <1>1. HeapOK(p.heap) /\ DOMAIN h \subseteq DOMAIN p.heap
        /\ Cardinality(DOMAIN p.heap) <= Cardinality(DOMAIN h) + n1
        /\ \A b \in DOMAIN h \ D1 : p.heap[b] = h[b]
    BY DEF Gives
  <1>2. Gives(h, D, n1 + n2, E2, q)
    <2>1. SUFFICES ASSUME q.end = "no" 
                   PROVE  /\ HeapOK(q.heap) /\ DOMAIN h \subseteq DOMAIN q.heap
                          /\ Cardinality(DOMAIN q.heap) <= Cardinality(DOMAIN h) + (n1 + n2)
                          /\ \A b \in DOMAIN h \ D : q.heap[b] = h[b]
      BY DEF Gives
    <2>2. /\ HeapOK(q.heap) /\ DOMAIN p.heap \subseteq DOMAIN q.heap
          /\ Cardinality(DOMAIN q.heap) <= Cardinality(DOMAIN p.heap) + n2
          /\ \A b \in DOMAIN p.heap \ D2 : q.heap[b] = p.heap[b]
      BY <2>1 DEF Gives
    <2>3. Cardinality(DOMAIN q.heap) <= Cardinality(DOMAIN h) + (n1 + n2)
      BY <1>1, <2>2, HeapFinite
    <2>. QED BY <1>1, <2>2, <2>3
  <1>3. ASSUME OwnVector(p.heap, D2, q) PROVE OwnVector(h, D, q)
    BY <1>1, <1>3 DEF OwnVector
  <1>4. ASSUME Tidy(h, D1, p), Tidy(p.heap, D2, q), IsVector(p.val) => p.val.block \in D2
        PROVE  Tidy(h, D, q)
    <2>1. SUFFICES ASSUME q.end = "no", NEW b \in DOMAIN q.heap, q.heap[b].live,
                          ~(IsVector(q.val) /\ q.val.block = b)
                   PROVE  b \in DOMAIN h \ D
      BY DEF Tidy
    <2>2. b \in DOMAIN p.heap \ D2
      BY <1>4, <2>1 DEF Tidy
    <2>3. p.heap[b].live
      BY <2>1, <2>2 DEF Gives
    <2>4. b \in DOMAIN h \ D1
      BY <1>4, <2>2, <2>3 DEF Tidy
    <2>. QED BY <2>2, <2>4
  <1>. QED BY <1>2, <1>3, <1>4

\* A vector that is touched by nothing stays what it was.
LEMMA Untouched ==
    ASSUME NEW h, NEW D, NEW n, NEW E, NEW r, Gives(h, D, n, E, r), r.end = "no",
           NEW v, LiveVector(h, v), v.block \notin D
    PROVE  LiveVector(r.heap, v) /\ Elems(r.heap, v) = Elems(h, v)
  <1>1. v.block \in DOMAIN r.heap /\ r.heap[v.block] = h[v.block]
    BY DEF Gives, LiveVector
  <1>. QED BY <1>1 DEF LiveVector, Live, Elems

\* A vector a function made is one that can be an operand.
LEMMA MadeIsLive ==
    ASSUME NEW h, NEW D, NEW r, OwnVector(h, D, r), r.end = "no"
    PROVE  LiveVector(r.heap, r.val)
  BY DEF OwnVector, LiveVector, IsVector, VectorAt

\* The elements of a block are a sequence.
LEMMA ElemsOfBlock ==
    ASSUME NEW h, HeapOK(h), NEW v, v.block \in DOMAIN h
    PROVE  /\ Sequence(Elems(h, v)) /\ getArrSize(h, v) \in Nat
           /\ DOMAIN Elems(h, v) = 1..getArrSize(h, v)
  <1>1. Sequence(Elems(h, v))
    BY DEF HeapOK, Elems
  <1>. QED BY <1>1, SequenceProps DEF getArrSize

\* A function on the numbers to n is a sequence.
LEMMA IsSequence ==
    ASSUME NEW n \in Int, NEW s, DOMAIN s = 1..n, s = [i \in 1..n |-> s[i]]
    PROVE  Sequence(s)
  <1>1. CASE n \in Nat
    BY <1>1 DEF Sequence
  <1>2. CASE n \notin Nat
    <2>1. 1..n = 1..0
      BY <1>2
    <2>. QED BY <2>1 DEF Sequence
  <1>. QED BY <1>1, <1>2

LEMMA EndOfIsHarmless ==
    ASSUME NEW f
    PROVE  EndOf(f) \in Harmless /\ EndOf(f) # "no"
  BY DEF EndOf, Harmless

\* A vector of scalars.
LEMMA VectorMakes ==
    ASSUME NEW h, HeapOK(h), Room(h, 1), NEW base, NEW n \in Int, NEW scalars,
           DOMAIN scalars = 1..n, NEW r, r = Vector(h, base, scalars)
    PROVE  Makes(h, {}, 1, Harmless, r)
  <1>. DEFINE bad == {i \in DOMAIN scalars : Failed(scalars[i])}
  <1>1. CASE bad # {}
    <2>1. r = Ended(h, EndOf(scalars[Min(bad)].base))
      BY <1>1 DEF Vector
    <2>. QED BY <2>1, EndOfIsHarmless, EndedGives
  <1>2. CASE bad = {}
    <2>1. r = createVector(h, base, [i \in DOMAIN scalars |-> scalars[i].val])
      BY <1>2 DEF Vector
    <2>2. PICK s : s = [i \in DOMAIN scalars |-> scalars[i].val]
      OBVIOUS
    <2>3. Sequence(s)
      BY <2>2, IsSequence
    <2>4. Gives(h, {}, 1, {"no"}, r) /\ OwnVector(h, {}, r) /\ Tidy(h, {}, r)
      BY <2>1, <2>2, <2>3, CreateVector
    <2>5. Gives(h, {}, 1, Harmless, r)
      BY <2>4, Widen DEF Harmless
    <2>. QED BY <2>4, <2>5 DEF Makes
  <1>. QED BY <1>1, <1>2

\* A result after which two operands are freed.
LEMMA FreeTwo ==
    ASSUME NEW h, NEW n, NEW E, NEW q, Gives(h, {}, n, E, q), Tidy(h, {}, q),
           NEW l, NEW r, LiveVector(h, l), LiveVector(h, r), l.block # r.block,
           NEW res, res = freeVector(freeVector(q, l), r)
    PROVE  /\ OwnVector(h, {}, q) => Makes(h, {l.block, r.block}, n, E, res)
           /\ OneScalar(q) => Computes(h, {l.block, r.block}, n, E, res)
  <1>1. PICK p : p = freeVector(q, l)
    OBVIOUS
  <1>2. /\ Gives(h, {l.block}, n, E, p) /\ Tidy(h, {l.block}, p) /\ p.end = q.end
        /\ p.end = "no" => p.val = q.val
        /\ OwnVector(h, {}, q) => OwnVector(h, {l.block}, p)
    <2>1. {} \cup {l.block} = {l.block} /\ l.block \notin {}
      OBVIOUS
    <2>. QED BY <1>1, <2>1, FreeVector
  <1>3. /\ Gives(h, {l.block, r.block}, n, E, res) /\ Tidy(h, {l.block, r.block}, res)
        /\ res.end = p.end /\ (res.end = "no" => res.val = p.val)
        /\ OwnVector(h, {l.block}, p) => OwnVector(h, {l.block, r.block}, res)
    <2>1. {l.block} \cup {r.block} = {l.block, r.block} /\ r.block \notin {l.block}
      OBVIOUS
    <2>2. res = freeVector(p, r)
      BY <1>1
    <2>. QED BY <1>2, <2>1, <2>2, FreeVector
  <1>. QED BY <1>2, <1>3 DEF Makes, Computes, OneScalar

---------------------------------------------------------------------------
(* The functions of the back end, one by one.                              *)

LEMMA ConcatIsSequence ==
    ASSUME NEW s, Sequence(s), NEW t, Sequence(t)
    PROVE  Sequence(s \o t)
  <1>1. PICK S : S = Range(s) \cup Range(t)
    OBVIOUS
  <1>2. s \in Seq(Range(s)) /\ t \in Seq(Range(t))
    BY SequenceProps
  <1>3. s \in Seq(S) /\ t \in Seq(S)
    BY <1>1, <1>2
  <1>4. s \o t \in Seq(S)
    BY <1>3
  <1>. QED BY <1>4, SeqIsSequence

LEMMA ScalarToVector ==
    ASSUME NEW h, HeapOK(h), Room(h, 1), NEW s, NEW size \in Int, NEW base,
           NEW r, r = scalarToVector(h, s, size, base)
    PROVE  Makes(h, {}, 1, Harmless, r)
  <1>1. PICK t : t = [i \in 1..size |-> typeCast(s, base)]
    OBVIOUS
  <1>2. DOMAIN t = 1..size
    BY <1>1
  <1>3. r = Vector(h, base, t)
    BY <1>1 DEF scalarToVector
  <1>. QED BY <1>2, <1>3, VectorMakes

\* A copy leaves the vector alone; only one that is not allocated cannot be
\* copied.
LEMMA CloneVector ==
    ASSUME NEW h, HeapOK(h), Room(h, 1), NEW v, v.block \in DOMAIN h,
           NEW r, r = cloneVector(h, v)
    PROVE  /\ Makes(h, {}, 1, AnyEnd, r) /\ r.end \in {"no", "use_after_free"}
           /\ Live(h, v) => r.end = "no" /\ Makes(h, {}, 1, {"no"}, r)
           /\ r.end = "no" => r.val.block \notin DOMAIN h
  <1>1. CASE Live(h, v)
    <2>1. r = createVector(h, v.base, Elems(h, v))
      BY <1>1 DEF cloneVector
    <2>2. Sequence(Elems(h, v))
      BY ElemsOfBlock
    <2>3. /\ Makes(h, {}, 1, {"no"}, r) /\ r.val.block \notin DOMAIN h /\ r.end = "no"
      BY <2>1, <2>2, CreateVector DEF Makes
    <2>4. Makes(h, {}, 1, AnyEnd, r)
      BY <2>3, Widen DEF Makes, AnyEnd, Outside, Harmless
    <2>. QED BY <2>3, <2>4
  <1>2. CASE ~Live(h, v)
    <2>1. r = Ended(h, "use_after_free")
      BY <1>2 DEF cloneVector
    <2>2. "use_after_free" \in AnyEnd
      BY DEF AnyEnd
    <2>. QED BY <1>2, <2>1, <2>2, EndedGives
  <1>. QED BY <1>1, <1>2

\* A result that a vector gave is left, and the vector freed.
LEMMA FreeOne ==
    ASSUME NEW h, NEW n, NEW E, NEW q, Gives(h, {}, n, E, q), Tidy(h, {}, q),
           NEW v, LiveVector(h, v), NEW r, r = freeVector(q, v)
    PROVE  /\ OwnVector(h, {}, q) => Makes(h, {v.block}, n, E, r)
           /\ OneScalar(q) => Computes(h, {v.block}, n, E, r)
  <1>1. {} \cup {v.block} = {v.block} /\ v.block \notin {}
    OBVIOUS
  <1>2. /\ Gives(h, {v.block}, n, E, r) /\ Tidy(h, {v.block}, r) /\ r.end = q.end
        /\ r.end = "no" => r.val = q.val
        /\ OwnVector(h, {}, q) => OwnVector(h, {v.block}, r)
    BY <1>1, FreeVector
  <1>. QED BY <1>2 DEF Makes, Computes, OneScalar

LEMMA Promote ==
    ASSUME NEW h, HeapOK(h), Room(h, 1), NEW v, LiveVector(h, v), NEW base,
           NEW r, r = promoteVectorTo(h, v, base)
    PROVE  Makes(h, {v.block}, 1, Harmless, r)
  <1>0. Live(h, v) /\ v.block \in DOMAIN h
    BY DEF LiveVector
  <1>1. CASE v.base = base
    <2>1. r = Done(h, v)
      BY <1>1 DEF promoteVectorTo
    <2>2. Makes(h, {v.block}, 0, {"no"}, r)
      BY <2>1, DoneGives
    <2>. QED BY <2>2, Widen DEF Makes, Harmless
  <1>2. CASE v.base # base
    <2>1. PICK s : s = [i \in DOMAIN Elems(h, v) |-> typeCast(Elem(h, v, i), base)]
      OBVIOUS
    <2>2. r = freeVector(Vector(h, base, s), v)
      BY <1>0, <1>2, <2>1 DEF promoteVectorTo
    <2>3. DOMAIN s = 1..getArrSize(h, v) /\ getArrSize(h, v) \in Int
      BY <1>0, <2>1, ElemsOfBlock
    <2>4. PICK q : q = Vector(h, base, s)
      OBVIOUS
    <2>5. Makes(h, {}, 1, Harmless, q)
      BY <2>3, <2>4, VectorMakes
    <2>. QED BY <2>2, <2>4, <2>5, FreeOne DEF Makes
  <1>. QED BY <1>1, <1>2

LEMMA Transfer ==
    ASSUME NEW h, HeapOK(h), Room(h, 1), NEW v, LiveVector(h, v), NEW size \in Int,
           ~(getArrSize(h, v) > size), NEW r, r = transferVecElements(h, v, size)
    PROVE  Makes(h, {v.block}, 1, {"no"}, r)
  <1>0. Live(h, v) /\ v.block \in DOMAIN h
    BY DEF LiveVector
  <1>1. getArrSize(h, v) \in Nat /\ Sequence(Elems(h, v))
    BY <1>0, ElemsOfBlock
  <1>2. PICK t : t = [i \in 1..(size - getArrSize(h, v)) |-> 0]
    OBVIOUS
  <1>3. r = freeVector(createVector(h, v.base, Elems(h, v) \o t), v)
    BY <1>0, <1>2 DEF transferVecElements
  <1>4. Sequence(t)
    <2>1. PICK k \in Int : k = size - getArrSize(h, v)
      BY <1>1
    <2>2. t = [i \in 1..k |-> 0]
      BY <1>2, <2>1
    <2>. QED BY <2>2, IsSequence
  <1>5. PICK q : q = createVector(h, v.base, Elems(h, v) \o t)
    OBVIOUS
  <1>6. Gives(h, {}, 1, {"no"}, q) /\ OwnVector(h, {}, q) /\ Tidy(h, {}, q)
    BY <1>1, <1>4, <1>5, ConcatIsSequence, CreateVector
  <1>. QED BY <1>3, <1>5, <1>6, FreeOne

LEMMA ReverseMakes ==
    ASSUME NEW h, HeapOK(h), Room(h, 1), NEW v, LiveVector(h, v),
           NEW r, r = reverseVector(h, v)
    PROVE  Makes(h, {v.block}, 1, Harmless, r)
  <1>0. Live(h, v) /\ v.block \in DOMAIN h
    BY DEF LiveVector
  <1>1. getArrSize(h, v) \in Nat
    BY <1>0, ElemsOfBlock
  <1>2. CASE getArrSize(h, v) = 0
    <2>1. r = Ended(h, "IndexError")
      BY <1>0, <1>2 DEF reverseVector
    <2>. QED BY <2>1, EndedGives DEF Harmless
  <1>3. CASE getArrSize(h, v) # 0
    <2>1. PICK s : s = Reverse(Elems(h, v))
      OBVIOUS
    <2>2. r = freeVector(createVector(h, v.base, s), v)
      BY <1>0, <1>3, <2>1 DEF reverseVector
    <2>3. s = [i \in 1..getArrSize(h, v) |-> Elems(h, v)[(getArrSize(h, v) - i) + 1]]
      BY <2>1 DEF Reverse, getArrSize
    <2>4. Sequence(s)
      BY <1>1, <2>3, IsSequence
    <2>5. PICK q : q = createVector(h, v.base, s)
      OBVIOUS
    <2>6. Gives(h, {}, 1, {"no"}, q) /\ OwnVector(h, {}, q) /\ Tidy(h, {}, q)
      BY <2>4, <2>5, CreateVector
    <2>7. Makes(h, {v.block}, 1, {"no"}, r)
      BY <2>2, <2>5, <2>6, FreeOne
    <2>. QED BY <2>7, Widen DEF Makes, Harmless
  <1>. QED BY <1>2, <1>3

LEMMA RangeMakes ==
    ASSUME NEW h, HeapOK(h), Room(h, 1), NEW lower \in Int, NEW upper \in Int,
           NEW r, r = emitRangeVector(h, lower, upper)
    PROVE  Makes(h, {}, 1, {"no"}, r)
  <1>1. PICK k \in Int : k = upper - lower + 1
    OBVIOUS
  <1>2. PICK s : s = [i \in 1..k |-> Wrap(lower + i - 1)]
    OBVIOUS
  <1>3. r = createVector(h, "integer", s)
    BY <1>1, <1>2 DEF emitRangeVector
  <1>4. Sequence(s)
    BY <1>2, IsSequence
  <1>. QED BY <1>3, <1>4, CreateVector DEF Makes

LEMMA GeneratorMakes ==
    ASSUME NEW h, HeapOK(h), Room(h, 1), NEW v, LiveVector(h, v), NEW base, NEW body,
           NEW r, r = createVectorGenerator(h, v, base, body)
    PROVE  Makes(h, {v.block}, 1, Harmless, r)
  <1>0. Live(h, v) /\ v.block \in DOMAIN h
    BY DEF LiveVector
  <1>1. PICK s : s = [i \in DOMAIN Elems(h, v) |-> typeCast(body[Elems(h, v)[i]], base)]
    OBVIOUS
  <1>2. r = freeVector(Vector(h, base, s), v)
    BY <1>0, <1>1 DEF createVectorGenerator
  <1>3. DOMAIN s = 1..getArrSize(h, v) /\ getArrSize(h, v) \in Int
    BY <1>0, <1>1, ElemsOfBlock
  <1>4. PICK q : q = Vector(h, base, s)
    OBVIOUS
  <1>5. Makes(h, {}, 1, Harmless, q)
    BY <1>3, <1>4, VectorMakes
  <1>. QED BY <1>2, <1>4, <1>5, FreeOne DEF Makes

\* The first vector a filter or a stride makes is replaced by the second.
LEMMA Resize ==
    ASSUME NEW h, HeapOK(h), Room(h, 2), NEW p, Makes(h, {}, 1, {"no"}, p),
           NEW elems, Sequence(elems), NEW r, r = resizeVectorWithInt(p, elems)
    PROVE  Makes(h, {}, 2, {"no"}, r) /\ (r.end = "no" => r.val.block \notin DOMAIN h)
  <1>1. p.end = "no" /\ HeapOK(p.heap) /\ Cardinality(DOMAIN p.heap) <= Cardinality(DOMAIN h) + 1
    BY DEF Makes, Gives
  <1>2. LiveVector(p.heap, p.val) /\ p.val.block \notin DOMAIN h
    BY <1>1, MadeIsLive DEF Makes, OwnVector
  <1>3. Room(p.heap, 1)
    BY <1>1, HeapFinite, VectorMemoryAssumption DEF Room
  <1>4. PICK q : q = createVector(p.heap, p.val.base, elems)
    OBVIOUS
  <1>5. Gives(p.heap, {}, 1, {"no"}, q) /\ OwnVector(p.heap, {}, q) /\ Tidy(p.heap, {}, q)
    BY <1>1, <1>3, <1>4, CreateVector
  <1>6. r = freeVector(q, p.val)
    BY <1>1, <1>4 DEF resizeVectorWithInt, Then
  <1>7. Makes(p.heap, {p.val.block}, 1, {"no"}, r)
    BY <1>2, <1>5, <1>6, FreeOne
  <1>8. Gives(h, {}, 1 + 1, {"no"}, r) /\ OwnVector(h, {}, r) /\ Tidy(h, {}, r)
    <2>1. \A b \in DOMAIN h : b \in {} <=> b \in {} \/ b \in {p.val.block}
      BY <1>2
    <2>. QED BY <1>1, <1>7, <2>1, Chain DEF Makes
  <1>. QED BY <1>8 DEF Makes, OwnVector

\* A filter leaves its domain alone.
LEMMA FilterMakes ==
    ASSUME NEW h, HeapOK(h), Room(h, 2), NEW v, LiveVector(h, v), NEW keep,
           NEW r, r = createFilter(h, v, keep)
    PROVE  Makes(h, {}, 2, {"no"}, r) /\ r.end = "no" /\ r.val.block \notin DOMAIN h
  <1>0. Live(h, v) /\ v.block \in DOMAIN h
    BY DEF LiveVector
  <1>1. PICK kept : kept = Number({i \in DOMAIN Elems(h, v) : Elems(h, v)[i] \in keep})
    OBVIOUS
  <1>2. PICK z : z = [i \in DOMAIN Elems(h, v) |-> 0]
    OBVIOUS
  <1>3. PICK s : s = [n \in 1..Cardinality(DOMAIN kept) |-> Elems(h, v)[AntiFunction(kept)[n]]]
    OBVIOUS
  <1>4. r = resizeVectorWithInt(createVector(h, v.base, z), s)
    BY <1>0, <1>1, <1>2, <1>3 DEF createFilter
  <1>5. getArrSize(h, v) \in Nat /\ DOMAIN Elems(h, v) = 1..getArrSize(h, v)
    BY <1>0, ElemsOfBlock
  <1>6. Sequence(z)
    BY <1>2, <1>5, IsSequence
  <1>7. Sequence(s)
    <2>1. DOMAIN kept \in SUBSET (1..getArrSize(h, v))
      BY <1>1, <1>5 DEF Number
    <2>2. Cardinality(DOMAIN kept) \in Int
      BY <1>5, <2>1, UpTo
    <2>. QED BY <1>3, <2>2, IsSequence
  <1>8. PICK p : p = createVector(h, v.base, z)
    OBVIOUS
  <1>9. Makes(h, {}, 1, {"no"}, p)
    <2>1. Room(h, 1)
      BY HeapFinite, VectorMemoryAssumption DEF Room
    <2>. QED BY <1>6, <1>8, <2>1, CreateVector DEF Makes
  <1>10. Makes(h, {}, 2, {"no"}, r) /\ (r.end = "no" => r.val.block \notin DOMAIN h)
    BY <1>4, <1>7, <1>8, <1>9, Resize
  <1>11. r.end = "no"
    BY <1>10 DEF Makes, Gives
  <1>. QED BY <1>10, <1>11

\* An operation on two vectors whose result is a vector of scalars, whatever
\* the scalars are.
LEMMA PairwiseMakes ==
    ASSUME NEW h, HeapOK(h), Room(h, 1), NEW l, NEW r, LiveVector(h, l), LiveVector(h, r),
           l.block # r.block, NEW base, NEW s, DOMAIN s = DOMAIN Elems(h, l), NEW res,
           res = IF ~Live(h, l) \/ ~Live(h, r) THEN Ended(h, "use_after_free")
                 ELSE IF ~vectorSizeCheck(h, l, r) THEN Ended(h, "SizeError")
                 ELSE freeVector(freeVector(Vector(h, base, s), l), r)
    PROVE  Makes(h, {l.block, r.block}, 1, Harmless, res)
  <1>0. Live(h, l) /\ l.block \in DOMAIN h /\ Live(h, r)
    BY DEF LiveVector
  <1>1. CASE ~vectorSizeCheck(h, l, r)
    <2>1. res = Ended(h, "SizeError")
      BY <1>0, <1>1
    <2>. QED BY <2>1, EndedGives DEF Harmless
  <1>2. CASE vectorSizeCheck(h, l, r)
    <2>1. PICK q : q = Vector(h, base, s)
      OBVIOUS
    <2>2. res = freeVector(freeVector(q, l), r)
      BY <1>0, <1>2, <2>1
    <2>3. DOMAIN s = 1..getArrSize(h, l) /\ getArrSize(h, l) \in Int
      BY <1>0, ElemsOfBlock
    <2>4. Makes(h, {}, 1, Harmless, q)
      BY <2>1, <2>3, VectorMakes
    <2>. QED BY <2>2, <2>4, FreeTwo DEF Makes
  <1>. QED BY <1>1, <1>2

LEMMA PairwiseComputes ==
    ASSUME NEW h, HeapOK(h), NEW l, NEW r, LiveVector(h, l), LiveVector(h, r),
           l.block # r.block, NEW s, NEW res,
           res = IF ~Live(h, l) \/ ~Live(h, r) THEN Ended(h, "use_after_free")
                 ELSE IF ~vectorSizeCheck(h, l, r) THEN Ended(h, "SizeError")
                 ELSE freeVector(freeVector(Done(h, ScalarOperand(s)), l), r)
    PROVE  Computes(h, {l.block, r.block}, 0, Harmless, res)
  <1>0. Live(h, l) /\ l.block \in DOMAIN h /\ Live(h, r)
    BY DEF LiveVector
  <1>1. CASE ~vectorSizeCheck(h, l, r)
    <2>1. res = Ended(h, "SizeError")
      BY <1>0, <1>1
    <2>. QED BY <2>1, EndedGives DEF Harmless
  <1>2. CASE vectorSizeCheck(h, l, r)
    <2>1. PICK q : q = Done(h, ScalarOperand(s))
      OBVIOUS
    <2>2. res = freeVector(freeVector(q, l), r)
      BY <1>0, <1>2, <2>1
    <2>3. IsScalar(ScalarOperand(s))
      BY DEF IsScalar, ScalarOperand
    <2>4. Computes(h, {}, 0, {"no"}, q)
      BY <2>1, <2>3, DoneGives
    <2>5. Computes(h, {}, 0, Harmless, q)
      BY <2>4, Widen DEF Computes, Harmless
    <2>. QED BY <2>2, <2>5, FreeTwo DEF Computes
  <1>. QED BY <1>1, <1>2

LEMMA ConcatMakes ==
    ASSUME NEW h, HeapOK(h), Room(h, 1), NEW l, NEW r, LiveVector(h, l), LiveVector(h, r),
           l.block # r.block, NEW base, NEW res, res = emitVectorConcat(h, l, r, base)
    PROVE  Makes(h, {l.block, r.block}, 1, Harmless, res)
  <1>0. Live(h, l) /\ l.block \in DOMAIN h /\ Live(h, r) /\ r.block \in DOMAIN h
    BY DEF LiveVector
  <1>1. PICK q : q = createVector(h, base, Elems(h, l) \o Elems(h, r))
    OBVIOUS
  <1>2. res = freeVector(freeVector(q, l), r)
    BY <1>0, <1>1 DEF emitVectorConcat
  <1>3. Sequence(Elems(h, l) \o Elems(h, r))
    BY <1>0, ElemsOfBlock, ConcatIsSequence
  <1>4. Gives(h, {}, 1, {"no"}, q) /\ OwnVector(h, {}, q) /\ Tidy(h, {}, q)
    BY <1>1, <1>3, CreateVector
  <1>5. Makes(h, {l.block, r.block}, 1, {"no"}, res)
    BY <1>2, <1>4, FreeTwo
  <1>. QED BY <1>5, Widen DEF Makes, Harmless

\* A stride keeps its operand; it may read outside of it.
LEMMA StrideGives ==
    ASSUME NEW h, HeapOK(h), Room(h, 2), NEW v, LiveVector(h, v), NEW stride, stride.val \in Int,
           NEW r, r = emitVectorStride(h, v, stride)
    PROVE  Makes(h, {}, 2, Outside, r)
  <1>0. Live(h, v) /\ v.block \in DOMAIN h
    BY DEF LiveVector
  <1>1. getArrSize(h, v) \in Nat /\ DOMAIN Elems(h, v) = 1..getArrSize(h, v)
    BY <1>0, ElemsOfBlock
  <1>2. CASE stride.val <= 0 /\ getArrSize(h, v) > 0
    <2>1. r = Ended(h, "out_of_bounds")
      BY <1>0, <1>2 DEF emitVectorStride
    <2>. QED BY <2>1, EndedGives DEF Outside
  <1>3. CASE ~(stride.val <= 0 /\ getArrSize(h, v) > 0)
    <2>1. PICK k : k = IF getArrSize(h, v) = 0 THEN 0
                       ELSE (getArrSize(h, v) + stride.val - 1) \div stride.val
      OBVIOUS
    <2>2. k \in Int
      <3>1. CASE getArrSize(h, v) = 0
        BY <2>1, <3>1
      <3>2. CASE getArrSize(h, v) # 0
        <4>1. stride.val > 0
          BY <1>1, <1>3, <3>2
        <4>2. (getArrSize(h, v) + stride.val - 1) \div stride.val \in Int
          BY <1>1, <4>1
        <4>. QED BY <2>1, <3>2, <4>2
      <3>. QED BY <3>1, <3>2
    <2>3. PICK s : s = [i \in 1..k |-> Elems(h, v)[(i - 1) * stride.val + 1]]
      OBVIOUS
    <2>4. PICK z : z = [i \in DOMAIN Elems(h, v) |-> 0]
      OBVIOUS
    <2>5. r = resizeVectorWithInt(createVector(h, v.base, z), s)
      BY <1>0, <1>3, <2>1, <2>3, <2>4 DEF emitVectorStride
    <2>6. Sequence(z) /\ Sequence(s)
      BY <1>1, <2>2, <2>3, <2>4, IsSequence
    <2>7. PICK p : p = createVector(h, v.base, z)
      OBVIOUS
    <2>8. Room(h, 1)
      BY HeapFinite, VectorMemoryAssumption DEF Room
    <2>9. Makes(h, {}, 1, {"no"}, p)
      BY <2>6, <2>7, <2>8, CreateVector DEF Makes
    <2>10. Makes(h, {}, 2, {"no"}, r)
      BY <2>5, <2>6, <2>7, <2>9, Resize
    <2>. QED BY <2>10, Widen DEF Makes, Outside, Harmless
  <1>. QED BY <1>2, <1>3

LEMMA NotMakes ==
    ASSUME NEW h, HeapOK(h), Room(h, 1), NEW v, LiveVector(h, v), NEW r, r = emitVectorNot(h, v)
    PROVE  Makes(h, {v.block}, 1, Harmless, r)
  <1>0. Live(h, v) /\ v.block \in DOMAIN h
    BY DEF LiveVector
  <1>1. PICK s : s = [i \in DOMAIN Elems(h, v) |-> emitUnaryNot(Elem(h, v, i))]
    OBVIOUS
  <1>2. PICK q : q = Vector(h, "boolean", s)
    OBVIOUS
  <1>3. r = freeVector(q, v)
    BY <1>0, <1>1, <1>2 DEF emitVectorNot
  <1>4. DOMAIN s = 1..getArrSize(h, v) /\ getArrSize(h, v) \in Int
    BY <1>0, <1>1, ElemsOfBlock
  <1>5. Makes(h, {}, 1, Harmless, q)
    BY <1>2, <1>4, VectorMakes
  <1>. QED BY <1>3, <1>5, FreeOne DEF Makes

Value(h, D, n, E, r) == Makes(h, D, n, E, r) \/ Computes(h, D, n, E, r)

\* Whatever is done to two vectors, both are freed.
LEMMA VectorBinaryOp ==
    ASSUME NEW h, HeapOK(h), Room(h, 1), NEW l, NEW r, LiveVector(h, l), LiveVector(h, r),
           l.block # r.block, NEW base, NEW op \in BinaryOps \ {"by"},
           NEW res, res = vectorBinaryOp(h, l, r, op, base)
    PROVE  Value(h, {l.block, r.block}, 1, Harmless, res)
  <1>1. CASE op = "+"
    <2>1. PICK s : s = [i \in DOMAIN Elems(h, l) |-> emitAdd(Elem(h, l, i), Elem(h, r, i))]
      OBVIOUS
    <2>2. res = emitVectorAdd(h, l, r, base)
      BY <1>1 DEF vectorBinaryOp, Equality
    <2>. QED BY <2>1, <2>2, PairwiseMakes DEF emitVectorAdd, Elementwise, Pairwise, Value
  <1>2. CASE op = "-"
    <2>1. PICK s : s = [i \in DOMAIN Elems(h, l) |-> emitSub(Elem(h, l, i), Elem(h, r, i))]
      OBVIOUS
    <2>2. res = emitVectorSub(h, l, r, base)
      BY <1>2 DEF vectorBinaryOp, Equality
    <2>. QED BY <2>1, <2>2, PairwiseMakes DEF emitVectorSub, Elementwise, Pairwise, Value
  <1>3. CASE op = "*"
    <2>1. PICK s : s = [i \in DOMAIN Elems(h, l) |-> emitMul(Elem(h, l, i), Elem(h, r, i))]
      OBVIOUS
    <2>2. res = emitVectorMul(h, l, r, base)
      BY <1>3 DEF vectorBinaryOp, Equality
    <2>. QED BY <2>1, <2>2, PairwiseMakes DEF emitVectorMul, Elementwise, Pairwise, Value
  <1>4. CASE op = "/"
    <2>1. PICK s : s = [i \in DOMAIN Elems(h, l) |-> emitDiv(Elem(h, l, i), Elem(h, r, i))]
      OBVIOUS
    <2>2. res = emitVectorDiv(h, l, r, base)
      BY <1>4 DEF vectorBinaryOp, Equality
    <2>. QED BY <2>1, <2>2, PairwiseMakes DEF emitVectorDiv, Elementwise, Pairwise, Value
  <1>5. CASE op = "%"
    <2>1. PICK s : s = [i \in DOMAIN Elems(h, l) |-> emitRem(Elem(h, l, i), Elem(h, r, i))]
      OBVIOUS
    <2>2. res = emitVectorRem(h, l, r, base)
      BY <1>5 DEF vectorBinaryOp, Equality
    <2>. QED BY <2>1, <2>2, PairwiseMakes DEF emitVectorRem, Elementwise, Pairwise, Value
  <1>6. CASE op = "^"
    <2>1. PICK s : s = [i \in DOMAIN Elems(h, l) |-> emitExpo(Elem(h, l, i), Elem(h, r, i))]
      OBVIOUS
    <2>2. res = emitVectorExp(h, l, r, base)
      BY <1>6 DEF vectorBinaryOp, Equality
    <2>. QED BY <2>1, <2>2, PairwiseMakes DEF emitVectorExp, Elementwise, Pairwise, Value
  <1>7. CASE op = "<"
    <2>1. PICK s : s = [i \in DOMAIN Elems(h, l) |-> emitLessThan(Elem(h, l, i), Elem(h, r, i))]
      OBVIOUS
    <2>2. res = emitVectorLessThan(h, l, r)
      BY <1>7 DEF vectorBinaryOp, Equality
    <2>. QED BY <2>1, <2>2, PairwiseMakes DEF emitVectorLessThan, Elementwise, Pairwise, Value
  <1>8. CASE op = ">"
    <2>1. PICK s : s = [i \in DOMAIN Elems(h, l) |-> emitGreaterThan(Elem(h, l, i), Elem(h, r, i))]
      OBVIOUS
    <2>2. res = emitVectorGreaterThan(h, l, r)
      BY <1>8 DEF vectorBinaryOp, Equality
    <2>. QED BY <2>1, <2>2, PairwiseMakes DEF emitVectorGreaterThan, Elementwise, Pairwise, Value
  <1>9. CASE op = "<="
    <2>1. PICK s : s = [i \in DOMAIN Elems(h, l) |-> emitLessEq(Elem(h, l, i), Elem(h, r, i))]
      OBVIOUS
    <2>2. res = emitVectorLessEq(h, l, r)
      BY <1>9 DEF vectorBinaryOp, Equality
    <2>. QED BY <2>1, <2>2, PairwiseMakes DEF emitVectorLessEq, Elementwise, Pairwise, Value
  <1>10. CASE op = ">="
    <2>1. PICK s : s = [i \in DOMAIN Elems(h, l) |-> emitGreaterEq(Elem(h, l, i), Elem(h, r, i))]
      OBVIOUS
    <2>2. res = emitVectorGreaterEq(h, l, r)
      BY <1>10 DEF vectorBinaryOp, Equality
    <2>. QED BY <2>1, <2>2, PairwiseMakes DEF emitVectorGreaterEq, Elementwise, Pairwise, Value
  <1>11. CASE op = "and"
    <2>1. PICK s : s = [i \in DOMAIN Elems(h, l) |-> emitAnd(Elem(h, l, i), Elem(h, r, i))]
      OBVIOUS
    <2>2. res = emitVectorAnd(h, l, r)
      BY <1>11 DEF vectorBinaryOp, Equality
    <2>. QED BY <2>1, <2>2, PairwiseMakes DEF emitVectorAnd, Elementwise, Pairwise, Value
  <1>12. CASE op = "or"
    <2>1. PICK s : s = [i \in DOMAIN Elems(h, l) |-> emitOr(Elem(h, l, i), Elem(h, r, i))]
      OBVIOUS
    <2>2. res = emitVectorOr(h, l, r)
      BY <1>12 DEF vectorBinaryOp, Equality
    <2>. QED BY <2>1, <2>2, PairwiseMakes DEF emitVectorOr, Elementwise, Pairwise, Value
  <1>13. CASE op = "xor"
    <2>1. PICK s : s = [i \in DOMAIN Elems(h, l) |-> emitXor(Elem(h, l, i), Elem(h, r, i))]
      OBVIOUS
    <2>2. res = emitVectorXor(h, l, r)
      BY <1>13 DEF vectorBinaryOp, Equality
    <2>. QED BY <2>1, <2>2, PairwiseMakes DEF emitVectorXor, Elementwise, Pairwise, Value
  <1>14. CASE op = "=="
    <2>1. PICK s : s = FoldLeft(emitAnd, ScalarOf("boolean", 1),
                           [i \in DOMAIN Elems(h, l) |-> emitEqualTo(Elem(h, l, i), Elem(h, r, i))])
      OBVIOUS
    <2>2. res = emitVectorEqualTo(h, l, r)
      BY <1>14 DEF vectorBinaryOp, Equality
    <2>3. Computes(h, {l.block, r.block}, 0, Harmless, res)
      BY <2>1, <2>2, PairwiseComputes DEF emitVectorEqualTo, Accumulate, Pairwise
    <2>. QED BY <2>3, Widen DEF Computes, Value
  <1>15. CASE op = "!="
    <2>1. PICK s : s = FoldLeft(emitAnd, ScalarOf("boolean", 1),
                           [i \in DOMAIN Elems(h, l) |-> emitEqualTo(Elem(h, l, i), Elem(h, r, i))])
      OBVIOUS
    <2>2. res = emitVectorEqualTo(h, l, r)
      BY <1>15 DEF vectorBinaryOp, Equality
    <2>3. Computes(h, {l.block, r.block}, 0, Harmless, res)
      BY <2>1, <2>2, PairwiseComputes DEF emitVectorEqualTo, Accumulate, Pairwise
    <2>. QED BY <2>3, Widen DEF Computes, Value
  <1>16. CASE op = "**"
    <2>1. PICK s : s = FoldLeft(emitAdd, ScalarOf(base, 0),
                           [i \in DOMAIN Elems(h, l) |-> emitMul(Elem(h, l, i), Elem(h, r, i))])
      OBVIOUS
    <2>2. res = emitVectorDot(h, l, r, base)
      BY <1>16 DEF vectorBinaryOp, Equality
    <2>3. Computes(h, {l.block, r.block}, 0, Harmless, res)
      BY <2>1, <2>2, PairwiseComputes DEF emitVectorDot, Accumulate, Pairwise
    <2>. QED BY <2>3, Widen DEF Computes, Value
  <1>17. CASE op = "||"
    <2>1. res = emitVectorConcat(h, l, r, base)
      BY <1>17 DEF vectorBinaryOp, Equality
    <2>. QED BY <2>1, ConcatMakes DEF Value
  <1>. QED BY <1>1, <1>2, <1>3, <1>4, <1>5, <1>6, <1>7, <1>8, <1>9, <1>10, <1>11, <1>12, <1>13, <1>14, <1>15, <1>16, <1>17 DEF BinaryOps, Arithmetic, Ordering, Equality, Logical

\* A result that ends the program ends it for every heap before.
LEMMA Stopped ==
    ASSUME NEW g, NEW C, NEW m, NEW E, NEW r, Gives(g, C, m, E, r), r.end # "no",
           NEW h, NEW D, NEW n
    PROVE  Makes(h, D, n, E, r) /\ Computes(h, D, n, E, r)
  BY DEF Makes, Computes, Gives, OwnVector, OneScalar, Tidy

LEMMA MakesChain ==
    ASSUME NEW h, HeapOK(h), NEW D1, NEW n1 \in Nat, NEW E1, NEW p, Makes(h, D1, n1, E1, p),
           p.end = "no", NEW D2, NEW n2 \in Nat, NEW E2, NEW q, p.val.block \in D2,
           NEW D, \A b \in DOMAIN h : b \in D <=> b \in D1 \/ b \in D2
    PROVE  /\ Makes(p.heap, D2, n2, E2, q) => Makes(h, D, n1 + n2, E2, q)
           /\ Computes(p.heap, D2, n2, E2, q) => Computes(h, D, n1 + n2, E2, q)
           /\ Value(p.heap, D2, n2, E2, q) => Value(h, D, n1 + n2, E2, q)
  <1>1. ASSUME Makes(p.heap, D2, n2, E2, q) PROVE Makes(h, D, n1 + n2, E2, q)
    BY <1>1, Chain DEF Makes
  <1>2. ASSUME Computes(p.heap, D2, n2, E2, q) PROVE Computes(h, D, n1 + n2, E2, q)
    BY <1>2, Chain DEF Makes, Computes
  <1>. QED BY <1>1, <1>2 DEF Value

VectorBlocks(p) == IF IsVector(p) THEN {p.block} ELSE {}

\* An operand of an operation on vectors and scalars.
Usable(h, p) == IsScalar(p) \/ LiveVector(h, p)

LEMMA AsVectorMakes ==
    ASSUME NEW h, HeapOK(h), Room(h, 1), NEW p, Usable(h, p), NEW size \in Int, NEW base,
           NEW r, r = AsVector(h, p, size, base)
    PROVE  Makes(h, VectorBlocks(p), 1, Harmless, r)
  <1>1. CASE IsScalar(p)
    <2>1. r = scalarToVector(h, p, size, base)
      BY <1>1 DEF AsVector
    <2>2. VectorBlocks(p) = {}
      BY <1>1 DEF VectorBlocks, IsScalar, IsVector
    <2>. QED BY <2>1, <2>2, ScalarToVector
  <1>2. CASE LiveVector(h, p)
    <2>1. IsVector(p) /\ ~IsScalar(p) /\ Live(h, p)
      BY <1>2 DEF LiveVector, IsScalar, IsVector
    <2>2. r = promoteVectorTo(h, p, base)
      BY <2>1 DEF AsVector
    <2>. QED BY <1>2, <2>1, <2>2, Promote DEF VectorBlocks
  <1>. QED BY <1>1, <1>2 DEF Usable

\* An operation on operands that become vectors first.
LEMMA OnVectorsGives ==
    ASSUME HeapOK(heap), Room(heap, 3), NEW l, NEW r, Usable(heap, l), Usable(heap, r),
           IsVector(l) /\ IsVector(r) => l.block # r.block,
           NEW sizeL \in Int, NEW sizeR \in Int, NEW op \in BinaryOps \ {"by"}, NEW base,
           NEW res, res = OnVectors(l, r, sizeL, sizeR, op, base)
    PROVE  Value(heap, VectorBlocks(l) \cup VectorBlocks(r), 3, Harmless, res)
  <1>. PICK h : h = heap
    OBVIOUS
  <1>. DEFINE D1 == VectorBlocks(l)
              D2 == VectorBlocks(r)
  <1>0. HeapOK(h) /\ Room(h, 3) /\ Usable(h, l) /\ Usable(h, r)
    OBVIOUS
  <1>1. PICK p : p = AsVector(h, l, sizeL, base)
    OBVIOUS
  <1>2. Room(h, 1)
    BY <1>0, HeapFinite, VectorMemoryAssumption DEF Room
  <1>3. Makes(h, D1, 1, Harmless, p)
    BY <1>0, <1>1, <1>2, AsVectorMakes
  <1>4. CASE p.end # "no"
    <2>1. res = p
      BY <1>1, <1>4 DEF OnVectors, Then
    <2>. QED BY <1>3, <1>4, <2>1, Stopped DEF Makes, Value
  <1>5. CASE p.end = "no"
    <2>0. HeapOK(p.heap) /\ Cardinality(DOMAIN p.heap) <= Cardinality(DOMAIN h) + 1
      BY <1>3, <1>5 DEF Makes, Gives
    <2>1. Room(p.heap, 2) /\ Room(p.heap, 1)
      BY <1>0, <2>0, HeapFinite, VectorMemoryAssumption DEF Room
    <2>2. PICK q : q = AsVector(p.heap, r, sizeR, base)
      OBVIOUS
    <2>3. /\ IsVector(r) => r.block \in DOMAIN h /\ r.block \notin D1
          /\ IsVector(p.val) /\ p.val.block \notin DOMAIN h \ D1
      BY <1>0, <1>3, <1>5 DEF Usable, LiveVector, VectorBlocks, Makes, OwnVector, IsScalar,
         IsVector, VectorAt
    <2>4. Usable(p.heap, r)
      <3>1. CASE IsScalar(r)
        BY <3>1 DEF Usable
      <3>2. CASE LiveVector(h, r)
        <4>1. r.block \notin D1
          BY <2>3, <3>2 DEF LiveVector
        <4>2. LiveVector(p.heap, r)
          BY <1>3, <1>5, <3>2, <4>1, Untouched DEF Makes
        <4>. QED BY <4>2 DEF Usable
      <3>. QED BY <1>0, <3>1, <3>2 DEF Usable
    <2>5. Makes(p.heap, D2, 1, Harmless, q)
      BY <2>0, <2>1, <2>2, <2>4, AsVectorMakes
    <2>6. D2 \subseteq DOMAIN h \ D1
      BY <2>3 DEF VectorBlocks
    <2>7. CASE q.end # "no"
      <3>1. res = q
        BY <1>1, <1>5, <2>2, <2>7 DEF OnVectors, Then
      <3>. QED BY <2>5, <2>7, <3>1, Stopped DEF Makes, Value
    <2>8. CASE q.end = "no"
      <3>0. HeapOK(q.heap) /\ Cardinality(DOMAIN q.heap) <= Cardinality(DOMAIN p.heap) + 1
        BY <2>5, <2>8 DEF Makes, Gives
      <3>1. Room(q.heap, 1)
        BY <2>0, <2>1, <3>0, HeapFinite, VectorMemoryAssumption DEF Room
      <3>2. LiveVector(q.heap, q.val)
        BY <2>5, <2>8, MadeIsLive DEF Makes
      <3>3. LiveVector(p.heap, p.val)
        BY <1>3, <1>5, MadeIsLive DEF Makes
      <3>4. p.val.block \notin D2
        BY <2>3, <2>6
      <3>5. LiveVector(q.heap, p.val)
        BY <2>5, <2>8, <3>3, <3>4, Untouched DEF Makes
      <3>6. q.val.block \notin DOMAIN p.heap \ D2 /\ p.val.block \in DOMAIN p.heap
        BY <2>5, <2>8, <3>3 DEF Makes, OwnVector, LiveVector
      <3>7. p.val.block # q.val.block
        BY <3>4, <3>6
      <3>8. res = vectorBinaryOp(q.heap, p.val, q.val, op, base)
        BY <1>1, <1>5, <2>2, <2>8 DEF OnVectors, Then
      <3>9. Value(q.heap, {p.val.block, q.val.block}, 1, Harmless, res)
        BY <3>0, <3>1, <3>2, <3>5, <3>7, <3>8, VectorBinaryOp
      <3>10. Value(p.heap, D2 \cup {p.val.block}, 1 + 1, Harmless, res)
        <4>1. \A b \in DOMAIN p.heap :
                b \in D2 \cup {p.val.block} <=> b \in D2 \/ b \in {p.val.block, q.val.block}
          BY <3>6
        <4>. HIDE DEF D2
        <4>2. PICK C : C = D2 \cup {p.val.block}
          OBVIOUS
        <4>3. PICK B : B = {p.val.block, q.val.block}
          OBVIOUS
        <4>4. q.val.block \in B
          BY <4>3
        <4>5. Value(q.heap, B, 1, Harmless, res) /\ 1 \in Nat
          BY <3>9, <4>3
        <4>6. \A b \in DOMAIN p.heap : b \in C <=> b \in D2 \/ b \in B
          BY <4>1, <4>2, <4>3
        <4>7. Value(p.heap, C, 1 + 1, Harmless, res)
          BY ONLY <2>0, <2>5, <2>8, <4>4, <4>5, <4>6, MakesChain
        <4>. QED BY <4>2, <4>7
      <3>11. Value(h, D1 \cup D2, 1 + (1 + 1), Harmless, res)
        <4>1. \A b \in DOMAIN h :
                b \in D1 \cup D2 <=> b \in D1 \/ b \in D2 \cup {p.val.block}
          BY <2>3
        <4>2. p.val.block \in D2 \cup {p.val.block} /\ 1 + 1 \in Nat
          OBVIOUS
        <4>. HIDE DEF D1, D2
        <4>3. PICK C : C = D2 \cup {p.val.block}
          OBVIOUS
        <4>. QED BY <1>0, <1>3, <1>5, <3>10, <4>1, <4>2, <4>3, MakesChain
      <3>. QED BY <3>11
    <2>. QED BY <2>7, <2>8
  <1>. QED BY <1>4, <1>5

LEMMA CastVector ==
    ASSUME NEW h, HeapOK(h), Room(h, 2), NEW v, LiveVector(h, v), NEW size \in Int, NEW base,
           NEW r, r = castVector(h, v, base, size)
    PROVE  Makes(h, {v.block}, 2, Harmless, r)
  <1>1. PICK p : p = promoteVectorTo(h, v, base)
    OBVIOUS
  <1>2. Room(h, 1)
    BY HeapFinite, VectorMemoryAssumption DEF Room
  <1>3. Makes(h, {v.block}, 1, Harmless, p)
    BY <1>1, <1>2, Promote
  <1>4. CASE size = NoSize
    <2>1. r = p
      BY <1>1, <1>4 DEF castVector
    <2>. QED BY <1>3, <2>1, Widen DEF Makes
  <1>5. CASE size # NoSize /\ p.end # "no"
    <2>1. r = p
      BY <1>1, <1>5 DEF castVector, Then
    <2>. QED BY <1>3, <1>5, <2>1, Stopped DEF Makes
  <1>6. CASE size # NoSize /\ p.end = "no"
    <2>1. LiveVector(p.heap, p.val) /\ HeapOK(p.heap)
          /\ Cardinality(DOMAIN p.heap) <= Cardinality(DOMAIN h) + 1
      BY <1>3, <1>6, MadeIsLive DEF Makes, Gives
    <2>2. Room(p.heap, 1)
      BY <2>1, HeapFinite, VectorMemoryAssumption DEF Room
    <2>3. Live(p.heap, p.val)
      BY <2>1 DEF LiveVector
    <2>4. CASE getArrSize(p.heap, p.val) > size
      <3>1. r = Ended(p.heap, "cast_overruns")
        BY <1>1, <1>6, <2>3, <2>4 DEF castVector, Then
      <3>2. Makes(p.heap, {}, 0, Harmless, r) /\ r.end # "no"
        BY <3>1, EndedGives DEF Harmless
      <3>. QED BY <3>2, Stopped DEF Makes
    <2>5. CASE ~(getArrSize(p.heap, p.val) > size)
      <3>1. r = transferVecElements(p.heap, p.val, size)
        BY <1>1, <1>6, <2>3, <2>5 DEF castVector, Then
      <3>2. Makes(p.heap, {p.val.block}, 1, {"no"}, r)
        BY <2>1, <2>2, <2>5, <3>1, Transfer
      <3>3. p.val.block \notin DOMAIN h \ {v.block}
        BY <1>3, <1>6 DEF Makes, OwnVector
      <3>4. Makes(h, {v.block}, 1 + 1, {"no"}, r)
        <4>1. \A b \in DOMAIN h : b \in {v.block} <=> b \in {v.block} \/ b \in {p.val.block}
          BY <3>3
        <4>2. PICK B : B = {p.val.block}
          OBVIOUS
        <4>3. PICK D : D = {v.block}
          OBVIOUS
        <4>4. p.val.block \in B /\ 1 \in Nat /\ Makes(p.heap, B, 1, {"no"}, r)
          BY <3>2, <4>2
        <4>5. Makes(h, D, 1, Harmless, p) /\ \A b \in DOMAIN h : b \in D <=> b \in D \/ b \in B
          BY <1>3, <4>1, <4>2, <4>3
        <4>6. Makes(h, D, 1 + 1, {"no"}, r)
          BY ONLY HeapOK(h), <1>6, <4>4, <4>5, MakesChain
        <4>. QED BY <4>3, <4>6
      <3>. QED BY <3>4, Widen DEF Makes, Harmless
    <2>. QED BY <2>4, <2>5
  <1>. QED BY <1>4, <1>5, <1>6

LEMMA UnaryMinusGives ==
    ASSUME NEW h, HeapOK(h), Room(h, 2), NEW v, LiveVector(h, v),
           NEW r, r = emitVectorUnaryMinus(h, v)
    PROVE  Value(h, {v.block}, 2, Harmless, r)
  <1>0. Live(h, v) /\ v.block \in DOMAIN h
    BY DEF LiveVector
  <1>1. PICK p : p = scalarToVector(h, ScalarOf("integer", -1), getArrSize(h, v), v.base)
    OBVIOUS
  <1>2. Room(h, 1)
    BY HeapFinite, VectorMemoryAssumption DEF Room
  <1>3. Makes(h, {}, 1, Harmless, p)
    BY <1>0, <1>1, <1>2, ElemsOfBlock, ScalarToVector
  <1>4. CASE p.end # "no"
    <2>1. r = p
      BY <1>0, <1>1, <1>4 DEF emitVectorUnaryMinus, Then
    <2>. QED BY <1>3, <1>4, <2>1, Stopped DEF Makes, Value
  <1>5. CASE p.end = "no"
    <2>1. LiveVector(p.heap, p.val) /\ HeapOK(p.heap) /\ p.val.block \notin DOMAIN h
          /\ Cardinality(DOMAIN p.heap) <= Cardinality(DOMAIN h) + 1
      BY <1>3, <1>5, MadeIsLive DEF Makes, Gives, OwnVector
    <2>2. Room(p.heap, 1)
      BY <2>1, HeapFinite, VectorMemoryAssumption DEF Room
    <2>3. LiveVector(p.heap, v) /\ v.block # p.val.block
      BY <1>0, <1>3, <1>5, <2>1, Untouched DEF Makes
    <2>4. r = vectorBinaryOp(p.heap, v, p.val, "*", v.base)
      BY <1>0, <1>1, <1>5 DEF emitVectorUnaryMinus, Then, vectorBinaryOp, Equality
    <2>5. PICK B : B = {v.block, p.val.block}
      OBVIOUS
    <2>6. Value(p.heap, B, 1, Harmless, r)
      <3>1. "*" \in BinaryOps \ {"by"}
        BY DEF BinaryOps, Arithmetic
      <3>. QED BY <2>1, <2>2, <2>3, <2>4, <2>5, <3>1, VectorBinaryOp
    <2>7. PICK D : D = {v.block}
      OBVIOUS
    <2>8. PICK C : C = {}
      OBVIOUS
    <2>9. p.val.block \in B /\ 1 \in Nat /\ \A b \in DOMAIN h : b \in D <=> b \in C \/ b \in B
      BY <2>1, <2>5, <2>7, <2>8
    <2>10. Makes(h, C, 1, Harmless, p)
      BY <1>3, <2>8
    <2>11. Value(h, D, 1 + 1, Harmless, r)
      BY ONLY HeapOK(h), <2>10, <1>5, <2>6, <2>9, MakesChain
    <2>. QED BY <2>7, <2>11
  <1>. QED BY <1>4, <1>5

LEMMA UnaryOpGives ==
    ASSUME HeapOK(heap), Room(heap, 2), NEW v, Usable(heap, v), NEW op \in {"not", "-", "+"},
           NEW r, r = visitUnaryOp(op, v)
    PROVE  Value(heap, VectorBlocks(v), 2, Harmless, r)
  <1>1. CASE IsScalar(v)
    <2>1. PICK s : s = CASE op = "not" -> emitUnaryNot(v) [] op = "-" -> emitUnaryMinus(v)
                         [] OTHER -> v
      OBVIOUS
    <2>2. r = Done(heap, ScalarOperand(s))
      BY <1>1, <2>1 DEF visitUnaryOp
    <2>3. IsScalar(ScalarOperand(s))
      BY DEF IsScalar, ScalarOperand
    <2>4. Computes(heap, {}, 0, {"no"}, r)
      BY <2>2, <2>3, DoneGives
    <2>5. VectorBlocks(v) = {}
      BY <1>1 DEF VectorBlocks, IsScalar, IsVector
    <2>. QED BY <2>4, <2>5, Widen DEF Computes, Value, Harmless
  <1>2. CASE LiveVector(heap, v)
    <2>1. ~IsScalar(v) /\ VectorBlocks(v) = {v.block}
      BY <1>2 DEF LiveVector, VectorBlocks, IsScalar, IsVector
    <2>2. CASE op = "not"
      <3>1. r = emitVectorNot(heap, v)
        BY <2>1, <2>2 DEF visitUnaryOp
      <3>2. Room(heap, 1)
        BY HeapFinite, VectorMemoryAssumption DEF Room
      <3>3. Makes(heap, {v.block}, 1, Harmless, r)
        BY <1>2, <3>1, <3>2, NotMakes
      <3>. QED BY <2>1, <3>3, Widen DEF Makes, Value
    <2>3. CASE op = "-"
      <3>1. r = emitVectorUnaryMinus(heap, v)
        BY <2>1, <2>3 DEF visitUnaryOp
      <3>. QED BY <1>2, <2>1, <3>1, UnaryMinusGives
    <2>4. CASE op = "+"
      <3>1. r = Done(heap, v)
        BY <2>1, <2>4 DEF visitUnaryOp
      <3>2. Makes(heap, {v.block}, 0, {"no"}, r)
        BY <1>2, <3>1, DoneGives
      <3>. QED BY <2>1, <3>2, Widen DEF Makes, Value, Harmless
    <2>. QED BY <2>2, <2>3, <2>4
  <1>. QED BY <1>1, <1>2 DEF Usable

\* All but a stride free what they are given.
LEMMA BinaryOpGives ==
    ASSUME HeapOK(heap), Room(heap, 3), NEW l, NEW r, Usable(heap, l), Usable(heap, r),
           IsVector(l) /\ IsVector(r) => l.block # r.block,
           NEW op \in BinaryOps, Accepted(l, r, op), op = "by" => r.val \in Int,
           NEW res, res = visitBinaryOp(l, r, op)
    PROVE  IF op = "by" THEN Makes(heap, {}, 2, Outside, res)
           ELSE Value(heap, VectorBlocks(l) \cup VectorBlocks(r), 3, Harmless, res)
  <1>0. Room(heap, 2)
    BY HeapFinite, VectorMemoryAssumption DEF Room
  <1>1. CASE op = "by"
    <2>1. LiveVector(heap, l)
      BY <1>1 DEF Accepted, Usable, IsVector, IsScalar
    <2>2. res = vectorBinaryOp(heap, l, r, "by", l.base)
      BY <1>1 DEF visitBinaryOp
    <2>3. res = emitVectorStride(heap, l, r)
      BY <2>2 DEF vectorBinaryOp, Equality
    <2>. QED BY <1>0, <1>1, <2>1, <2>3, StrideGives
  <1>2. CASE op = "||"
    <2>1. \E base : res = OnVectors(l, r, 1, 1, op, base)
      BY <1>2 DEF visitBinaryOp
    <2>. QED BY <1>2, <2>1, OnVectorsGives
  <1>3. CASE op \notin {"||", "by"} /\ IsScalar(l) /\ IsScalar(r)
    <2>1. PICK s : s = scalarBinaryOp(l, r, op)
      OBVIOUS
    <2>2. res = IF Failed(s) THEN Ended(heap, EndOf(s.base)) ELSE Done(heap, ScalarOperand(s))
      BY <1>3, <2>1 DEF visitBinaryOp
    <2>3. VectorBlocks(l) \cup VectorBlocks(r) = {}
      BY <1>3 DEF VectorBlocks, IsScalar, IsVector
    <2>4. CASE Failed(s)
      BY <1>3, <2>2, <2>4, EndedGives, EndOfIsHarmless DEF Value
    <2>5. CASE ~Failed(s)
      <3>1. IsScalar(ScalarOperand(s))
        BY DEF IsScalar, ScalarOperand
      <3>2. Computes(heap, {}, 0, {"no"}, res)
        BY <2>2, <2>5, <3>1, DoneGives
      <3>. QED BY <1>3, <2>3, <3>2, Widen DEF Computes, Value, Harmless
    <2>. QED BY <2>4, <2>5
  <1>4. CASE op \notin {"||", "by"} /\ ~(IsScalar(l) /\ IsScalar(r))
    <2>1. PICK size : size = IF IsVector(l) THEN getArrSize(heap, l) ELSE getArrSize(heap, r)
      OBVIOUS
    <2>2. size \in Int
      <3>1. IsVector(l) => l.block \in DOMAIN heap
        BY DEF Usable, LiveVector, IsScalar, IsVector
      <3>2. ~IsVector(l) => r.block \in DOMAIN heap
        BY <1>4 DEF Usable, LiveVector, IsScalar, IsVector
      <3>. QED BY <2>1, <3>1, <3>2, ElemsOfBlock
    <2>3. \E base : res = OnVectors(l, r, size, size, op, base)
      BY <1>4, <2>1 DEF visitBinaryOp
    <2>. QED BY <1>4, <2>2, <2>3, OnVectorsGives
  <1>. QED BY <1>1, <1>2, <1>3, <1>4

---------------------------------------------------------------------------
(* Functions that are given the vectors of a tuple, which may be freed     *)
(* already or be the same vector twice, and what a statement does.         *)

\* The ends when a vector may have been freed.
Wild == Harmless \cup {"use_after_free", "double_free"}

\* To free a block, whatever it is.
LEMMA FreeAny ==
    ASSUME NEW h, NEW D, NEW n, NEW q, NEW v, NEW r, r = freeVector(q, v),
           Gives(h, D, n, Wild, q), v.block \in DOMAIN h, ~IsVector(q.val)
    PROVE  /\ Gives(h, D \cup {v.block}, n, Wild, r)
           /\ r.end = "no" => q.end = "no" /\ r.val = q.val /\ DOMAIN r.heap = DOMAIN q.heap
                              /\ \A b \in DOMAIN q.heap \ {v.block} : r.heap[b] = q.heap[b]
                              /\ ~r.heap[v.block].live
           /\ Tidy(h, D, q) => Tidy(h, D \cup {v.block}, r)
           /\ q.end = "no" /\ Live(q.heap, v) => r.end = "no"
  <1>1. CASE q.end # "no"
    <2>1. r = q
      BY <1>1 DEF freeVector, Then
    <2>. QED BY <1>1, <2>1 DEF Gives, Tidy
  <1>2. CASE q.end = "no" /\ ~Live(q.heap, v)
    <2>1. r = Ended(q.heap, "double_free")
      BY <1>2 DEF freeVector, Then
    <2>. QED BY <1>2, <2>1 DEF Ended, Gives, Tidy, Wild
  <1>3. CASE q.end = "no" /\ Live(q.heap, v)
    <2>1. /\ HeapOK(q.heap) /\ DOMAIN h \subseteq DOMAIN q.heap /\ DOMAIN q = {"heap", "val", "end"}
          /\ v.block \in DOMAIN q.heap
      BY <1>3 DEF Gives
    <2>2. r = [q EXCEPT !.heap[v.block] = Freed]
      BY <1>3 DEF freeVector, Then
    <2>3. /\ DOMAIN r = {"heap", "val", "end"} /\ r.end = "no" /\ r.val = q.val
          /\ r.heap = [q.heap EXCEPT ![v.block] = Freed]
      BY <1>3, <2>1, <2>2
    <2>4. /\ DOMAIN r.heap = DOMAIN q.heap /\ r.heap[v.block] = Freed
          /\ \A b \in DOMAIN q.heap \ {v.block} : r.heap[b] = q.heap[b]
      BY <2>1, <2>3
    <2>5. Freed.live = FALSE /\ DOMAIN Freed = {"live", "elems"} /\ Sequence(Freed.elems)
      <3>1. Freed.elems = <<>> /\ <<>> \in Seq({})
        BY DEF Freed
      <3>2. Sequence(<<>>)
        BY <3>1, SeqIsSequence
      <3>. QED BY <3>1, <3>2 DEF Freed
    <2>6. HeapOK(r.heap)
      BY <2>1, <2>4, <2>5 DEF HeapOK
    <2>7. Gives(h, D \cup {v.block}, n, Wild, r)
      BY <1>3, <2>3, <2>4, <2>6 DEF Gives, Wild, Harmless
    <2>8. ASSUME Tidy(h, D, q) PROVE Tidy(h, D \cup {v.block}, r)
      BY <1>3, <2>3, <2>4, <2>5, <2>8 DEF Tidy
    <2>. QED BY <1>3, <2>3, <2>4, <2>5, <2>7, <2>8
  <1>. QED BY <1>1, <1>2, <1>3

LEMMA FieldsAreCompared ==
    ASSUME NEW h, HeapOK(h), NEW l, NEW r, l.block \in DOMAIN h, r.block \in DOMAIN h,
           NEW res, res = emitVectorEqualTo(h, l, r)
    PROVE  Computes(h, {l.block, r.block}, 0, Wild, res)
  <1>1. PICK s : s = FoldLeft(emitAnd, ScalarOf("boolean", 1),
                        [i \in DOMAIN Elems(h, l) |-> emitEqualTo(Elem(h, l, i), Elem(h, r, i))])
    OBVIOUS
  <1>2. res = IF ~Live(h, l) \/ ~Live(h, r) THEN Ended(h, "use_after_free")
              ELSE IF ~vectorSizeCheck(h, l, r) THEN Ended(h, "SizeError")
              ELSE freeVector(freeVector(Done(h, ScalarOperand(s)), l), r)
    BY <1>1 DEF emitVectorEqualTo, Accumulate, Pairwise
  <1>3. CASE ~Live(h, l) \/ ~Live(h, r)
    <2>1. res = Ended(h, "use_after_free") /\ "use_after_free" \in Wild
      BY <1>2, <1>3 DEF Wild
    <2>. QED BY <2>1, EndedGives
  <1>4. CASE ~(~Live(h, l) \/ ~Live(h, r)) /\ ~vectorSizeCheck(h, l, r)
    <2>1. res = Ended(h, "SizeError") /\ "SizeError" \in Wild
      BY <1>2, <1>4 DEF Wild, Harmless
    <2>. QED BY <2>1, EndedGives
  <1>5. CASE ~(~Live(h, l) \/ ~Live(h, r)) /\ vectorSizeCheck(h, l, r)
    <2>1. PICK q : q = Done(h, ScalarOperand(s))
      OBVIOUS
    <2>2. PICK p : p = freeVector(q, l)
      OBVIOUS
    <2>3. res = freeVector(p, r)
      BY <1>2, <1>5, <2>1, <2>2
    <2>4. IsScalar(ScalarOperand(s)) /\ ~IsVector(ScalarOperand(s))
      BY DEF IsScalar, IsVector, ScalarOperand
    <2>5. Computes(h, {}, 0, {"no"}, q)
      BY <2>1, <2>4, DoneGives
    <2>6. q.val = ScalarOperand(s) /\ ~IsVector(q.val)
      BY <2>1, <2>4 DEF Done
    <2>7. PICK Z : Z = {}
      OBVIOUS
    <2>8. Gives(h, Z, 0, Wild, q) /\ Tidy(h, Z, q)
      BY <2>5, <2>7, Widen DEF Computes, Wild, Harmless
    <2>11. PICK D1 : D1 = Z \cup {l.block}
      OBVIOUS
    <2>12. Gives(h, D1, 0, Wild, p) /\ Tidy(h, D1, p) /\ (p.end = "no" => p.val = q.val)
      <3>1. ~IsVector(q.val)
        BY <2>6
      <3>. QED BY <2>2, <2>8, <2>11, <3>1, FreeAny
    <2>9. CASE p.end # "no"
      <3>1. res = p
        BY <2>3, <2>9 DEF freeVector, Then
      <3>. QED BY <2>12, <2>9, <3>1, Stopped
    <2>10. CASE p.end = "no"
      <3>1. PICK D : D = D1 \cup {r.block}
        OBVIOUS
      <3>2. Gives(h, D, 0, Wild, res) /\ Tidy(h, D, res) /\ (res.end = "no" => res.val = p.val)
        <4>1. ~IsVector(p.val)
          BY <2>6, <2>10, <2>12
        <4>. QED BY <2>3, <2>12, <3>1, <4>1, FreeAny
      <3>3. D = {l.block, r.block}
        BY <2>7, <2>11, <3>1
      <3>. QED BY <2>4, <2>6, <2>10, <2>12, <3>2, <3>3 DEF Computes, OneScalar
    <2>. QED BY <2>9, <2>10
  <1>. QED BY <1>3, <1>4, <1>5

\* Elements are stored in a block.
WithElems(h, b, elems) == [h EXCEPT ![b].elems = elems]

LEMMA StoreElems ==
    ASSUME NEW h, HeapOK(h), NEW b \in DOMAIN h, NEW elems, Sequence(elems),
           NEW g, g = WithElems(h, b, elems)
    PROVE  /\ HeapOK(g) /\ DOMAIN g = DOMAIN h /\ g[b].live = h[b].live
           /\ \A c \in DOMAIN h \ {b} : g[c] = h[c]
           /\ \A c \in DOMAIN h : g[c].live = h[c].live
  <1>1. PICK x : x = [h[b] EXCEPT !.elems = elems]
    OBVIOUS
  <1>2. g = [h EXCEPT ![b] = x]
    BY <1>1 DEF WithElems
  <1>3. DOMAIN h[b] = {"live", "elems"}
    BY DEF HeapOK
  <1>4. DOMAIN x = {"live", "elems"} /\ x.live = h[b].live /\ x.elems = elems
    BY <1>1, <1>3
  <1>5. DOMAIN g = DOMAIN h /\ g[b] = x /\ \A c \in DOMAIN h \ {b} : g[c] = h[c]
    BY <1>2
  <1>. QED BY <1>4, <1>5 DEF HeapOK

\* What is done to the blocks of a set D, of which nothing is allocated
\* afterwards but may be those of a set C.
Changes(h, D, E, r) ==
    /\ Gives(h, D, 0, E, r)
    /\ r.end = "no" => DOMAIN r.heap = DOMAIN h /\ r.val = Nothing
                       /\ \A b \in DOMAIN h : r.heap[b].live => h[b].live

LEMMA DoneChanges ==
    ASSUME NEW h, HeapOK(h), NEW r, r = Done(h, Nothing)
    PROVE  Changes(h, {}, {"no"}, r) /\ r.heap = h
  <1>1. Gives(h, {}, 0, {"no"}, r)
    BY DoneGives
  <1>2. r.heap = h /\ r.val = Nothing
    BY DEF Done
  <1>. QED BY <1>1, <1>2 DEF Changes

LEMMA StoreChanges ==
    ASSUME NEW h, HeapOK(h), NEW b \in DOMAIN h, NEW elems, Sequence(elems),
           NEW g, g = WithElems(h, b, elems), NEW r, r = Done(g, Nothing)
    PROVE  Changes(h, {b}, {"no"}, r) /\ r.heap = g /\ r.heap[b].live = h[b].live
  <1>1. DOMAIN r = {"heap", "val", "end"} /\ r.end = "no" /\ r.val = Nothing /\ r.heap = g
    BY DEF Done
  <1>2. HeapOK(g) /\ DOMAIN g = DOMAIN h /\ g[b].live = h[b].live
        /\ (\A c \in DOMAIN h \ {b} : g[c] = h[c]) /\ \A c \in DOMAIN h : g[c].live = h[c].live
    BY StoreElems
  <1>. QED BY <1>1, <1>2, HeapFinite DEF Changes, Gives

LEMMA EndedChanges ==
    ASSUME NEW h, NEW D, NEW E, NEW e \in E, e # "no", NEW r, r = Ended(h, e)
    PROVE  Changes(h, D, E, r) /\ r.end = e
  BY DEF Ended, Changes, Gives

LEMMA LoadGives ==
    ASSUME NEW h, HeapOK(h), NEW v, LiveVector(h, v), NEW i \in Int,
           NEW r, r = loadArrVal(h, v, i)
    PROVE  Computes(h, {}, 0, Outside, r)
  <1>0. Live(h, v) /\ getArrSize(h, v) \in Nat
    BY ElemsOfBlock DEF LiveVector
  <1>1. CASE ~vectorIndexCheck(i, getArrSize(h, v))
    <2>1. r = Ended(h, "IndexError")
      BY <1>0, <1>1 DEF loadArrVal, vectorIndexCheck
    <2>. QED BY <2>1, EndedGives DEF Outside, Harmless
  <1>2. CASE vectorIndexCheck(i, getArrSize(h, v)) /\ i = getArrSize(h, v)
    <2>1. r = Ended(h, "out_of_bounds")
      BY <1>0, <1>2 DEF loadArrVal
    <2>. QED BY <2>1, EndedGives DEF Outside, Harmless
  <1>3. CASE vectorIndexCheck(i, getArrSize(h, v)) /\ i # getArrSize(h, v)
    <2>1. r = Done(h, ScalarOperand(Elem(h, v, i + 1)))
      BY <1>0, <1>3 DEF loadArrVal
    <2>2. IsScalar(ScalarOperand(Elem(h, v, i + 1)))
      BY DEF IsScalar, ScalarOperand
    <2>3. Computes(h, {}, 0, {"no"}, r)
      BY <2>1, <2>2, DoneGives
    <2>. QED BY <2>3, Widen DEF Computes, Outside, Harmless
  <1>. QED BY <1>1, <1>2, <1>3

LEMMA IndexGives ==
    ASSUME NEW h, HeapOK(h), NEW v, LiveVector(h, v), NEW i \in Int,
           NEW r, r = Then(loadArrVal(h, v, i), LAMBDA q : freeVector(q, v))
    PROVE  Computes(h, {v.block}, 0, Outside, r)
  <1>1. PICK p : p = loadArrVal(h, v, i)
    OBVIOUS
  <1>2. Computes(h, {}, 0, Outside, p)
    BY <1>1, LoadGives
  <1>3. CASE p.end # "no"
    <2>1. r = p
      BY <1>1, <1>3 DEF Then
    <2>. QED BY <1>2, <1>3, <2>1, Stopped DEF Computes
  <1>4. CASE p.end = "no"
    <2>1. r = freeVector(p, v)
      BY <1>1, <1>4 DEF Then
    <2>. QED BY <1>2, <2>1, FreeOne DEF Computes
  <1>. QED BY <1>3, <1>4

LEMMA StoreGives ==
    ASSUME NEW h, HeapOK(h), NEW v, v.block \in DOMAIN h, Live(h, v), NEW i \in Int, NEW s,
           NEW r, r = storeArrVal(h, v, i, s)
    PROVE  Changes(h, {v.block}, Outside, r) /\ (r.end = "no" => r.heap[v.block].live)
  <1>0. getArrSize(h, v) \in Nat
    BY ElemsOfBlock
  <1>1. CASE ~vectorIndexCheck(i, getArrSize(h, v))
    <2>1. r = Ended(h, "IndexError")
      BY <1>0, <1>1 DEF storeArrVal, vectorIndexCheck
    <2>. QED BY <2>1, EndedChanges DEF Outside, Harmless
  <1>2. CASE vectorIndexCheck(i, getArrSize(h, v)) /\ i = getArrSize(h, v)
    <2>1. r = Ended(h, "out_of_bounds")
      BY <1>2 DEF storeArrVal
    <2>. QED BY <2>1, EndedChanges DEF Outside, Harmless
  <1>3. CASE vectorIndexCheck(i, getArrSize(h, v)) /\ i # getArrSize(h, v)
    <2>1. r = Done([h EXCEPT ![v.block].elems[i + 1] = s.val], Nothing)
      BY <1>3 DEF storeArrVal
    <2>2. PICK elems : elems = [h[v.block].elems EXCEPT ![i + 1] = s.val]
      OBVIOUS
    <2>3. [h EXCEPT ![v.block].elems[i + 1] = s.val] = WithElems(h, v.block, elems)
      BY <2>2 DEF WithElems
    <2>4. Sequence(elems)
      BY <2>2 DEF HeapOK, Sequence
    <2>5. PICK g : g = WithElems(h, v.block, elems)
      OBVIOUS
    <2>6. r = Done(g, Nothing)
      BY <2>1, <2>3, <2>5
    <2>7. Changes(h, {v.block}, {"no"}, r) /\ r.heap[v.block].live = h[v.block].live
      BY <2>4, <2>5, <2>6, StoreChanges
    <2>8. h[v.block].live
      BY DEF Live
    <2>. QED BY <2>7, <2>8, Widen DEF Changes, Outside, Harmless
  <1>. QED BY <1>1, <1>2, <1>3

LEMMA SubSeqIsSequence ==
    ASSUME NEW s, Sequence(s), NEW n \in Nat, n <= Len(s)
    PROVE  Sequence(SubSeq(s, 1, n))
  <1>1. s \in Seq(Range(s)) /\ Len(s) \in Nat
    BY SequenceProps
  <1>2. SubSeq(s, 1, n) \in Seq(Range(s))
    BY <1>1
  <1>. QED BY <1>2, SeqIsSequence

\* An assignment fills the variable's vector and frees the other.
LEMMA AssignGives ==
    ASSUME NEW h, HeapOK(h), NEW v, NEW from, store[v].block \in DOMAIN h, from.block \in DOMAIN h,
           store[v].block # from.block, NEW r, r = emitAssignVector(h, v, from)
    PROVE  /\ Changes(h, {store[v].block, from.block}, AnyEnd, r)
           /\ r.end = "no" => /\ h[store[v].block].live /\ r.heap[store[v].block].live
                              /\ Live(h, from) /\ ~r.heap[from.block].live
           /\ h[store[v].block].live /\ Live(h, from) => r.end \in {"no", "out_of_bounds"}
  <1>1. PICK to : to = VectorAt(store[v].base, store[v].block)
    OBVIOUS
  <1>2. to.block = store[v].block /\ (Live(h, to) <=> h[store[v].block].live)
    BY <1>1 DEF VectorAt, Live
  <1>3. getArrSize(h, to) \in Nat /\ getArrSize(h, from) \in Nat /\ Sequence(Elems(h, from))
    BY <1>2, ElemsOfBlock
  <1>4. CASE ~Live(h, to) \/ ~Live(h, from)
    <2>1. r = Ended(h, "use_after_free")
      BY <1>1, <1>4 DEF emitAssignVector
    <2>. QED BY <1>2, <1>4, <2>1, EndedChanges DEF AnyEnd
  <1>5. CASE Live(h, to) /\ Live(h, from) /\ getArrSize(h, from) < getArrSize(h, to)
    <2>1. r = Ended(h, "out_of_bounds")
      BY <1>1, <1>5 DEF emitAssignVector
    <2>. QED BY <1>2, <1>5, <2>1, EndedChanges DEF AnyEnd, Outside
  <1>6. CASE Live(h, to) /\ Live(h, from) /\ ~(getArrSize(h, from) < getArrSize(h, to))
    <2>1. PICK elems : elems = SubSeq(Elems(h, from), 1, getArrSize(h, to))
      OBVIOUS
    <2>2. PICK g : g = WithElems(h, to.block, elems)
      OBVIOUS
    <2>3. PICK q : q = Done(g, Nothing)
      OBVIOUS
    <2>4. r = freeVector(q, from)
      BY <1>1, <1>6, <2>1, <2>2, <2>3 DEF emitAssignVector, WithElems
    <2>5. Sequence(elems)
      <3>1. getArrSize(h, to) <= Len(Elems(h, from))
        BY <1>3, <1>6 DEF getArrSize
      <3>. QED BY <1>3, <2>1, <3>1, SubSeqIsSequence
    <2>6. /\ Changes(h, {to.block}, {"no"}, q) /\ q.heap = g /\ q.heap[to.block].live = h[to.block].live
      BY <1>2, <2>2, <2>3, <2>5, StoreChanges
    <2>7. q.end = "no" /\ ~IsVector(q.val) /\ DOMAIN q.heap = DOMAIN h
          /\ \A b \in DOMAIN h : q.heap[b].live => h[b].live
      BY <2>3, <2>6 DEF Done, Changes, IsVector, Nothing
    <2>8. PICK D1 : D1 = {to.block}
      OBVIOUS
    <2>9. Gives(h, D1, 0, Wild, q)
      BY <2>6, <2>8, Widen DEF Changes, Wild, Harmless
    <2>10. q.heap[from.block] = h[from.block]
      BY <1>2, <2>6, <2>7 DEF Changes, Gives
    <2>11. Live(q.heap, from) /\ Live(h, from)
      BY <1>6, <2>10 DEF Live
    <2>12. /\ Gives(h, D1 \cup {from.block}, 0, Wild, r)
           /\ r.end = "no" => /\ r.val = q.val /\ DOMAIN r.heap = DOMAIN q.heap
                              /\ \A b \in DOMAIN q.heap \ {from.block} : r.heap[b] = q.heap[b]
                              /\ ~r.heap[from.block].live
           /\ r.end = "no"
      BY <2>4, <2>7, <2>9, <2>11, FreeAny
    <2>13. D1 \cup {from.block} = {store[v].block, from.block}
      BY <1>2, <2>8
    <2>14. r.heap[to.block].live /\ h[to.block].live
      BY <1>2, <1>6, <2>6, <2>7, <2>12 DEF Live
    <2>15. \A b \in DOMAIN h : r.heap[b].live => h[b].live
      BY <2>7, <2>12
    <2>16. r.val = Nothing
      BY <2>3, <2>12 DEF Done
    <2>17. Gives(h, {store[v].block, from.block}, 0, AnyEnd, r)
      BY <2>12, <2>13 DEF Gives, AnyEnd, Outside, Wild
    <2>. QED BY <1>2, <2>7, <2>11, <2>12, <2>14, <2>15, <2>16, <2>17 DEF Changes
  <1>. QED BY <1>4, <1>5, <1>6

BlocksOf(vectors) == {vectors[q].block : q \in DOMAIN vectors}

\* Everything is freed, unless it was already or is freed twice.
LEMMA FreeAllGives ==
    ASSUME NEW h, HeapOK(h), NEW vectors, BlocksOf(vectors) \subseteq DOMAIN h,
           NEW r, r = FreeAll(h, vectors)
    PROVE  /\ Changes(h, BlocksOf(vectors), {"no", "double_free"}, r)
           /\ r.end = "no" => \A b \in BlocksOf(vectors) : ~r.heap[b].live
           /\ r.end # "no" => \E q \in DOMAIN vectors :
                                 \/ ~Live(h, vectors[q])
                                 \/ \E s \in DOMAIN vectors \ {q} : vectors[s].block = vectors[q].block
  <1>1. CASE \E q \in DOMAIN vectors :
                \/ ~Live(h, vectors[q])
                \/ \E s \in DOMAIN vectors \ {q} : vectors[s].block = vectors[q].block
    <2>1. r = Ended(h, "double_free")
      BY <1>1 DEF FreeAll
    <2>. QED BY <1>1, <2>1, EndedChanges
  <1>2. CASE ~(\E q \in DOMAIN vectors :
                \/ ~Live(h, vectors[q])
                \/ \E s \in DOMAIN vectors \ {q} : vectors[s].block = vectors[q].block)
    <2>1. PICK g : g = [b \in DOMAIN h |->
                          IF \E q \in DOMAIN vectors : vectors[q].block = b THEN Freed ELSE h[b]]
      OBVIOUS
    <2>2. r = Done(g, Nothing)
      BY <1>2, <2>1 DEF FreeAll
    <2>3. /\ DOMAIN g = DOMAIN h /\ \A b \in BlocksOf(vectors) : g[b] = Freed
          /\ \A b \in DOMAIN h \ BlocksOf(vectors) : g[b] = h[b]
      BY <2>1 DEF BlocksOf
    <2>4. Freed.live = FALSE /\ DOMAIN Freed = {"live", "elems"} /\ Sequence(Freed.elems)
      <3>1. Freed.elems = <<>> /\ <<>> \in Seq({})
        BY DEF Freed
      <3>2. Sequence(<<>>)
        BY <3>1, SeqIsSequence
      <3>. QED BY <3>1, <3>2 DEF Freed
    <2>5. HeapOK(g)
      BY <2>3, <2>4 DEF HeapOK
    <2>6. DOMAIN r = {"heap", "val", "end"} /\ r.end = "no" /\ r.val = Nothing /\ r.heap = g
      BY <2>2 DEF Done
    <2>. QED BY <2>3, <2>4, <2>5, <2>6, HeapFinite DEF Changes, Gives
  <1>. QED BY <1>1, <1>2

---------------------------------------------------------------------------
(* What the memory of a running subroutine is like.                        *)

\* What waits on the stack, what a variable is, what a tuple has in it.
Operand(p, h, frm) ==
    \/ IsScalar(p)
    \/ LiveVector(h, p)
    \/ p = TupleAt(p.struct) /\ p.struct \in DOMAIN frm

Variable(p, h, frm) ==
    \/ p = NotDeclared
    \/ /\ IsVector(p) /\ DOMAIN p = {"kind", "base", "block", "size"} /\ p.size \in Int
       /\ p.block \in DOMAIN h /\ Live(h, p)
    \/ p = TupleAt(p.struct) /\ p.struct \in DOMAIN frm

Field(p, h) ==
    IsScalar(p) \/ (IsVector(p) /\ p = VectorAt(p.base, p.block) /\ p.block \in DOMAIN h)

FieldsOK(fields, h) == DOMAIN fields = {1, 2} /\ Field(fields[1], h) /\ Field(fields[2], h)

\* No two places have the same vector.
Alone(f) == \A x, y \in DOMAIN f : IsVector(f[x]) /\ IsVector(f[y]) /\ x # y => f[x].block # f[y].block
Apart(f, g) == \A x \in DOMAIN f, y \in DOMAIN g :
                    IsVector(f[x]) /\ IsVector(g[y]) => f[x].block # g[y].block

\* The vectors of variables and of operands are allocated, and each has one
\* place.  Those of a tuple may be shared by tuples, or freed.
Memory(h, frm, sto, stk) ==
    /\ HeapOK(h)
    /\ DOMAIN frm \subseteq 1..MaxStructs /\ \A s \in DOMAIN frm : FieldsOK(frm[s], h)
    /\ DOMAIN sto = Vars /\ \A v \in Vars : Variable(sto[v], h, frm)
    /\ Sequence(stk) /\ \A i \in DOMAIN stk : Operand(stk[i], h, frm)
    /\ Alone(sto) /\ Alone(stk) /\ Apart(sto, stk)
    /\ \A s \in DOMAIN frm : Apart(frm[s], sto) /\ Apart(frm[s], stk)

LEMMA Kinds ==
    ASSUME NEW p
    PROVE  /\ IsVector(p) => ~IsScalar(p) /\ ~IsTuple(p) /\ p # NotDeclared
           /\ IsScalar(p) => ~IsTuple(p) /\ p # NotDeclared
           /\ p = TupleAt(p.struct) => IsTuple(p) /\ ~IsVector(p) /\ ~IsScalar(p) /\ p # NotDeclared
           /\ p = NotDeclared => ~IsVector(p) /\ ~IsScalar(p) /\ ~IsTuple(p)
  BY DEF IsVector, IsScalar, IsTuple, NotDeclared, TupleAt

\* The vectors a value points to.
LEMMA VectorsOfVector ==
    ASSUME NEW p, IsVector(p), NEW frm
    PROVE  DOMAIN VectorsOf(p, frm) = {1} /\ VectorsOf(p, frm)[1] = p
  <1>1. VectorsOf(p, frm) = <<p>>
    BY Kinds DEF VectorsOf
  <1>. QED BY <1>1

\* A value that is a tuple, if any, has two fields.
TwoFields(p, frm) ==
    IsTuple(p) => /\ p = TupleAt(p.struct) /\ DOMAIN frm[p.struct] = {1, 2}
                  /\ \A i \in {1, 2} : isStructType(frm[p.struct][i]) <=> IsVector(frm[p.struct][i])

LEMMA FieldsAreTwo ==
    ASSUME NEW p, NEW frm, NEW h,
           IsTuple(p) => p = TupleAt(p.struct) /\ FieldsOK(frm[p.struct], h)
    PROVE  TwoFields(p, frm)
  BY DEF TwoFields, FieldsOK, Field, isStructType, IsVector, IsScalar

LEMMA VectorsOfTuple ==
    ASSUME NEW p, IsTuple(p), NEW frm, TwoFields(p, frm)
    PROVE  /\ DOMAIN VectorsOf(p, frm) = {i \in {1, 2} : IsVector(frm[p.struct][i])}
           /\ \A i \in DOMAIN VectorsOf(p, frm) : VectorsOf(p, frm)[i] = frm[p.struct][i]
  <1>1. IsTuple(p) /\ ~IsVector(p)
    BY DEF IsTuple, IsVector
  <1>2. PICK T : T = {i \in DOMAIN frm[p.struct] : isStructType(frm[p.struct][i])}
    OBVIOUS
  <1>3. VectorsOf(p, frm) = Restrict(frm[p.struct], T)
    BY <1>1, <1>2 DEF VectorsOf
  <1>4. T = {i \in {1, 2} : IsVector(frm[p.struct][i])}
    BY <1>2 DEF TwoFields
  <1>. QED BY <1>3, <1>4 DEF Restrict

LEMMA VectorsOfOther ==
    ASSUME NEW p, ~IsVector(p), ~IsTuple(p), NEW frm
    PROVE  DOMAIN VectorsOf(p, frm) = {}
  <1>1. VectorsOf(p, frm) = <<>>
    BY Zenon DEF VectorsOf
  <1>. QED BY <1>1

\* The value p points to the block b.
Points(p, frm, b) ==
    \/ IsVector(p) /\ p.block = b
    \/ IsTuple(p) /\ \E i \in {1, 2} : IsVector(frm[p.struct][i]) /\ frm[p.struct][i].block = b

LEMMA PointsIff ==
    ASSUME NEW p, NEW frm, TwoFields(p, frm), NEW b
    PROVE  Points(p, frm, b) <=> \E i \in DOMAIN VectorsOf(p, frm) : VectorsOf(p, frm)[i].block = b
  <1>1. CASE IsVector(p)
    BY <1>1, VectorsOfVector, Kinds DEF Points
  <1>2. CASE IsTuple(p)
    <2>1. ~IsVector(p)
      BY <1>2 DEF IsTuple, IsVector
    <2>2. /\ DOMAIN VectorsOf(p, frm) = {i \in {1, 2} : IsVector(frm[p.struct][i])}
          /\ \A i \in DOMAIN VectorsOf(p, frm) : VectorsOf(p, frm)[i] = frm[p.struct][i]
      BY <1>2, VectorsOfTuple
    <2>. QED BY <1>2, <2>1, <2>2 DEF Points
  <1>3. CASE ~IsVector(p) /\ ~IsTuple(p)
    BY <1>3, VectorsOfOther DEF Points
  <1>. QED BY <1>1, <1>2, <1>3

LEMMA HeldIff ==
    ASSUME NEW ptrs, NEW frm, \A p \in ptrs : TwoFields(p, frm), NEW b
    PROVE  b \in HeldBlocks(ptrs, frm) <=> \E p \in ptrs : Points(p, frm, b)
  <1>1. b \in HeldBlocks(ptrs, frm) <=>
            \E p \in ptrs : \E i \in DOMAIN VectorsOf(p, frm) : VectorsOf(p, frm)[i].block = b
    BY DEF HeldBlocks, Range
  <1>2. \A p \in ptrs :
            Points(p, frm, b) <=> \E i \in DOMAIN VectorsOf(p, frm) : VectorsOf(p, frm)[i].block = b
    BY PointsIff
  <1>. QED BY <1>1, <1>2

\* The values of a memory.
LEMMA PointersOf ==
    ASSUME NEW h, NEW frm, NEW sto, NEW stk, Memory(h, frm, sto, stk),
           NEW p \in Pointers(sto, stk)
    PROVE  /\ IsTuple(p) => p = TupleAt(p.struct) /\ p.struct \in DOMAIN frm
                            /\ FieldsOK(frm[p.struct], h)
           /\ IsVector(p) => p.block \in DOMAIN h
           /\ p.kind \in {"none", "scalar", "vector", "tuple"}
  <1>1. CASE \E v \in Vars : p = sto[v]
    <2>1. Variable(p, h, frm)
      BY <1>1 DEF Memory
    <2>. QED BY <2>1, Kinds DEF Variable, Memory, IsVector, IsTuple, NotDeclared, TupleAt
  <1>2. CASE \E i \in DOMAIN stk : p = stk[i]
    <2>1. Operand(p, h, frm)
      BY <1>2 DEF Memory
    <2>. QED BY <2>1, Kinds DEF Operand, LiveVector, Memory, IsVector, IsTuple, IsScalar, TupleAt
  <1>. QED BY <1>1, <1>2 DEF Pointers, Range, Memory

LEMMA HeldOf ==
    ASSUME NEW h, NEW frm, NEW sto, NEW stk, Memory(h, frm, sto, stk)
    PROVE  /\ \A b : b \in HeldBlocks(Pointers(sto, stk), frm) <=>
                        \E p \in Pointers(sto, stk) : Points(p, frm, b)
           /\ HeldBlocks(Pointers(sto, stk), frm) \subseteq DOMAIN h
           /\ HeldStructs(Pointers(sto, stk)) \subseteq DOMAIN frm
  <1>1. \A b : b \in HeldBlocks(Pointers(sto, stk), frm) <=>
                  \E p \in Pointers(sto, stk) : Points(p, frm, b)
    <2>1. \A p \in Pointers(sto, stk) : TwoFields(p, frm)
      <3>1. TAKE p \in Pointers(sto, stk)
      <3>2. IsTuple(p) => p = TupleAt(p.struct) /\ FieldsOK(frm[p.struct], h)
        BY PointersOf
      <3>. QED BY <3>2, FieldsAreTwo
    <2>. QED BY <2>1, HeldIff
  <1>2. ASSUME NEW b, NEW p \in Pointers(sto, stk), Points(p, frm, b) PROVE b \in DOMAIN h
    <2>1. CASE IsVector(p)
      <3>1. ~IsTuple(p)
        BY <2>1, Kinds
      <3>. QED BY <1>2, <2>1, <3>1, PointersOf DEF Points
    <2>2. CASE IsTuple(p)
      <3>1. ~IsVector(p)
        BY <2>2 DEF IsTuple, IsVector
      <3>2. FieldsOK(frm[p.struct], h)
        BY <2>2, PointersOf
      <3>3. PICK i \in {1, 2} : IsVector(frm[p.struct][i]) /\ frm[p.struct][i].block = b
        BY <1>2, <3>1 DEF Points
      <3>. QED BY <3>2, <3>3, Kinds DEF FieldsOK, Field
    <2>. QED BY <1>2, <2>1, <2>2 DEF Points
  <1>3. HeldStructs(Pointers(sto, stk)) \subseteq DOMAIN frm
    BY PointersOf DEF HeldStructs
  <1>. QED BY <1>1, <1>2, <1>3

---------------------------------------------------------------------------
(* Settling: what is left moves to the first addresses, and is the same.   *)

LEMMA MoveProps ==
    ASSUME NEW p, NEW blocks, NEW structs, NEW q, q = Move(p, blocks, structs)
    PROVE  /\ IsVector(p) /\ p = VectorAt(p.base, p.block) => q = VectorAt(p.base, blocks[p.block])
           /\ IsVector(p) /\ DOMAIN p = {"kind", "base", "block", "size"} =>
                /\ IsVector(q) /\ DOMAIN q = DOMAIN p /\ q.base = p.base /\ q.size = p.size
                /\ q.block = blocks[p.block]
           /\ p = TupleAt(p.struct) => q = TupleAt(structs[p.struct])
           /\ IsScalar(p) \/ p = NotDeclared => q = p
  <1>1. ASSUME IsVector(p) PROVE q = [p EXCEPT !.block = blocks[p.block]]
    BY <1>1, Kinds DEF Move
  <1>2. ASSUME IsVector(p), p = VectorAt(p.base, p.block) PROVE q = VectorAt(p.base, blocks[p.block])
    <2>1. PICK x, y : x = p.base /\ y = p.block
      OBVIOUS
    <2>2. p = [kind |-> "vector", base |-> x, block |-> y]
      BY <1>2, <2>1 DEF VectorAt
    <2>3. q = [[kind |-> "vector", base |-> x, block |-> y] EXCEPT !.block = blocks[y]]
      BY <1>1, <1>2, <2>1, <2>2
    <2>4. q = [kind |-> "vector", base |-> x, block |-> blocks[y]]
      BY <2>3
    <2>. QED BY <2>1, <2>4 DEF VectorAt
  <1>3. ASSUME IsVector(p), DOMAIN p = {"kind", "base", "block", "size"}
        PROVE  /\ IsVector(q) /\ DOMAIN q = DOMAIN p /\ q.base = p.base /\ q.size = p.size
               /\ q.block = blocks[p.block]
    <2>1. q = [p EXCEPT !.block = blocks[p.block]]
      BY <1>1, <1>3
    <2>. QED BY <1>3, <2>1 DEF IsVector
  <1>4. ASSUME p = TupleAt(p.struct) PROVE q = TupleAt(structs[p.struct])
    <2>1. IsTuple(p) /\ ~IsVector(p)
      BY <1>4, Kinds
    <2>2. q = [p EXCEPT !.struct = structs[p.struct]]
      BY <2>1 DEF Move
    <2>3. PICK x : x = p.struct
      OBVIOUS
    <2>4. p = [kind |-> "tuple", struct |-> x]
      BY <1>4, <2>3 DEF TupleAt
    <2>5. q = [[kind |-> "tuple", struct |-> x] EXCEPT !.struct = structs[x]]
      BY <2>2, <2>3, <2>4
    <2>. QED BY <2>3, <2>5 DEF TupleAt
  <1>5. ASSUME IsScalar(p) \/ p = NotDeclared PROVE q = p
    BY <1>5, Kinds DEF Move
  <1>. QED BY <1>2, <1>3, <1>4, <1>5

\* What a value keeps.
Kept(p, h, q, g) ==
    /\ q.kind = p.kind
    /\ IsVector(p) => g[q.block] = h[p.block] /\ q.base = p.base
    /\ IsScalar(p) \/ p = NotDeclared => q = p

\* Addresses of some blocks and structs, each another.
Renumbers(B, blocks) ==
    DOMAIN blocks = B /\ \A a, b \in B : blocks[a] = blocks[b] => a = b

\* The heap g, and the frame f, of the blocks and structs that have moved.
Moved(h, B, S, blocks, structs, g, f) ==
    /\ Renumbers(B, blocks) /\ Renumbers(S, structs)
    /\ \A b \in B : blocks[b] \in DOMAIN g /\ g[blocks[b]] = h[b]
    /\ \A s \in S : structs[s] \in DOMAIN f

SamePlace(p, q, blocks) ==
    (IsVector(q) <=> IsVector(p)) /\ (IsVector(p) => q.block = blocks[p.block])

LEMMA ValuesAreKept ==
    ASSUME NEW h, NEW frm, NEW B, NEW S, NEW blocks, NEW structs, NEW g, NEW f,
           Moved(h, B, S, blocks, structs, g, f),
           NEW p, IsVector(p) => p.block \in B, IsTuple(p) => p.struct \in S,
           NEW q, q = Move(p, blocks, structs)
    PROVE  /\ Operand(p, h, frm) => Operand(q, g, f) /\ Kept(p, h, q, g) /\ SamePlace(p, q, blocks)
           /\ Variable(p, h, frm) => Variable(q, g, f) /\ Kept(p, h, q, g) /\ SamePlace(p, q, blocks)
           /\ Field(p, h) => Field(q, g) /\ Kept(p, h, q, g) /\ SamePlace(p, q, blocks)
  <1>0. /\ \A b \in B : blocks[b] \in DOMAIN g /\ g[blocks[b]] = h[b]
        /\ \A s \in S : structs[s] \in DOMAIN f
    BY DEF Moved
  <1>1. ASSUME LiveVector(h, p) PROVE LiveVector(g, q) /\ Kept(p, h, q, g) /\ q.block = blocks[p.block]
    <2>1. q = VectorAt(p.base, blocks[p.block]) /\ p.block \in B
      BY <1>1, MoveProps DEF LiveVector
    <2>2. q.kind = "vector" /\ q.base = p.base /\ q.block = blocks[p.block]
      BY <2>1 DEF VectorAt
    <2>. QED BY <1>0, <1>1, <2>1, <2>2, Kinds DEF LiveVector, Live, IsVector, Kept
  <1>2. ASSUME p = TupleAt(p.struct)
        PROVE  q = TupleAt(q.struct) /\ q.struct \in DOMAIN f /\ Kept(p, h, q, g)
    <2>1. q = TupleAt(structs[p.struct])
      BY <1>2, MoveProps
    <2>2. q.struct = structs[p.struct] /\ q.kind = "tuple"
      BY <2>1 DEF TupleAt
    <2>3. IsTuple(p) /\ ~IsVector(p) /\ ~IsScalar(p) /\ p # NotDeclared
      BY <1>2, Kinds
    <2>. QED BY <1>0, <2>1, <2>2, <2>3 DEF Kept, IsTuple
  <1>3. ASSUME IsScalar(p) \/ p = NotDeclared PROVE q = p /\ Kept(p, h, q, g) /\ ~IsVector(p)
    BY <1>3, MoveProps, Kinds DEF Kept
  <1>4. ASSUME IsVector(p), DOMAIN p = {"kind", "base", "block", "size"}
        PROVE  /\ IsVector(q) /\ DOMAIN q = {"kind", "base", "block", "size"} /\ q.size = p.size
               /\ q.block = blocks[p.block] /\ q.block \in DOMAIN g /\ Kept(p, h, q, g)
               /\ Live(h, p) => Live(g, q)
    <2>1. /\ IsVector(q) /\ DOMAIN q = DOMAIN p /\ q.base = p.base /\ q.size = p.size
          /\ q.block = blocks[p.block]
      BY <1>4, MoveProps
    <2>. QED BY <1>0, <1>4, <2>1, Kinds DEF Kept, Live, IsVector
  <1>5. ASSUME IsVector(p), p = VectorAt(p.base, p.block), p.block \in DOMAIN h
        PROVE  IsVector(q) /\ q = VectorAt(q.base, q.block) /\ q.block \in DOMAIN g
               /\ Kept(p, h, q, g) /\ q.block = blocks[p.block]
    <2>1. q = VectorAt(p.base, blocks[p.block]) /\ p.block \in B
      BY <1>5, MoveProps
    <2>2. q.kind = "vector" /\ q.base = p.base /\ q.block = blocks[p.block]
      BY <2>1 DEF VectorAt
    <2>. QED BY <1>0, <1>5, <2>1, <2>2, Kinds DEF IsVector, Kept
  <1>6. ASSUME Operand(p, h, frm) PROVE Operand(q, g, f) /\ Kept(p, h, q, g)
    BY <1>1, <1>2, <1>3, <1>6 DEF Operand
  <1>7. ASSUME Variable(p, h, frm) PROVE Variable(q, g, f) /\ Kept(p, h, q, g)
    BY <1>2, <1>3, <1>4, <1>7 DEF Variable
  <1>8. ASSUME Field(p, h) PROVE Field(q, g) /\ Kept(p, h, q, g)
    BY <1>3, <1>5, <1>8 DEF Field
  <1>9. ASSUME Operand(p, h, frm) \/ Variable(p, h, frm) \/ Field(p, h)
        PROVE  SamePlace(p, q, blocks)
    <2>1. CASE IsVector(p)
      BY <1>1, <1>2, <1>4, <1>5, <1>9, <2>1, Kinds DEF Operand, Variable, Field, Kept, IsVector,
         SamePlace
    <2>2. CASE ~IsVector(p)
      <3>1. Kept(p, h, q, g)
        BY <1>6, <1>7, <1>8, <1>9
      <3>. QED BY <2>2, <3>1 DEF Kept, IsVector, SamePlace
    <2>. QED BY <2>1, <2>2
  <1>. QED BY <1>6, <1>7, <1>8, <1>9

\* What had a place of its own has one.
Moves(f, g, B, blocks) ==
    /\ DOMAIN g = DOMAIN f
    /\ \A x \in DOMAIN f : IsVector(g[x]) =>
            IsVector(f[x]) /\ f[x].block \in B /\ g[x].block = blocks[f[x].block]

LEMMA PlacesAreKept ==
    ASSUME NEW B, NEW blocks, Renumbers(B, blocks),
           NEW f1, NEW g1, Moves(f1, g1, B, blocks), NEW f2, NEW g2, Moves(f2, g2, B, blocks)
    PROVE  (Alone(f1) => Alone(g1)) /\ (Apart(f1, f2) => Apart(g1, g2))
  BY DEF Moves, Renumbers, Alone, Apart

\* Whatever is pointed to is in one of the places.
LEMMA HeldHas ==
    ASSUME NEW h, NEW frm, NEW sto, NEW stk, Memory(h, frm, sto, stk),
           NEW B, B = HeldBlocks(Pointers(sto, stk), frm),
           NEW S, S = HeldStructs(Pointers(sto, stk))
    PROVE  /\ \A p \in Pointers(sto, stk) : (IsVector(p) => p.block \in B) /\ (IsTuple(p) => p.struct \in S)
           /\ \A s \in S : s \in DOMAIN frm /\ \A i \in {1, 2} : IsVector(frm[s][i]) => frm[s][i].block \in B
           /\ \A v \in Vars : sto[v] \in Pointers(sto, stk)
           /\ \A i \in DOMAIN stk : stk[i] \in Pointers(sto, stk)
           /\ \A p \in Pointers(sto, stk) : (\E v \in Vars : p = sto[v]) \/ (\E i \in DOMAIN stk : p = stk[i])
           /\ B \subseteq DOMAIN h /\ S \subseteq DOMAIN frm
  <1>1. \A b : b \in B <=> \E p \in Pointers(sto, stk) : Points(p, frm, b)
    BY HeldOf
  <1>2. \A p \in Pointers(sto, stk) : (IsVector(p) => p.block \in B) /\ (IsTuple(p) => p.struct \in S)
    BY <1>1 DEF Points, HeldStructs
  <1>3. \A s \in S : s \in DOMAIN frm /\ \A i \in {1, 2} : IsVector(frm[s][i]) => frm[s][i].block \in B
    <2>1. TAKE s \in S
    <2>2. PICK p \in Pointers(sto, stk) : IsTuple(p) /\ p.struct = s
      BY DEF HeldStructs
    <2>3. s \in DOMAIN frm
      BY HeldOf
    <2>. QED BY <1>1, <2>2, <2>3 DEF Points
  <1>4. DOMAIN sto = Vars
    BY DEF Memory
  <1>5. /\ \A v \in Vars : sto[v] \in Pointers(sto, stk)
        /\ \A i \in DOMAIN stk : stk[i] \in Pointers(sto, stk)
        /\ \A p \in Pointers(sto, stk) : (\E v \in Vars : p = sto[v]) \/ (\E i \in DOMAIN stk : p = stk[i])
    BY <1>4 DEF Pointers, Range
  <1>. QED BY <1>2, <1>3, <1>5, HeldOf

LEMMA Renumbering ==
    ASSUME NEW h, NEW frm, NEW sto, NEW stk, Memory(h, frm, sto, stk),
           NEW B, B = HeldBlocks(Pointers(sto, stk), frm),
           NEW S, S = HeldStructs(Pointers(sto, stk)),
           NEW blocks, blocks = Number(B), NEW structs, structs = Number(S),
           NEW g, g = [n \in Range(blocks) |-> h[AntiFunction(blocks)[n]]],
           NEW f, f = [n \in Range(structs) |-> MoveAll(frm[AntiFunction(structs)[n]], blocks, structs)],
           NEW sto2, sto2 = MoveAll(sto, blocks, structs),
           NEW stk2, stk2 = MoveAll(stk, blocks, structs)
    PROVE  /\ Memory(g, f, sto2, stk2)
           /\ HeldBlocks(Pointers(sto2, stk2), f) = DOMAIN g
           /\ HeldStructs(Pointers(sto2, stk2)) = DOMAIN f
           /\ \A n \in DOMAIN g : \E b \in B : g[n] = h[b]
           /\ \A v \in Vars : Kept(sto[v], h, sto2[v], g)
           /\ DOMAIN stk2 = DOMAIN stk /\ \A i \in DOMAIN stk : Kept(stk[i], h, stk2[i], g)
           /\ Cardinality(DOMAIN g) <= Cardinality(B) /\ DOMAIN blocks = B
  <1>1. /\ \A p \in Pointers(sto, stk) : (IsVector(p) => p.block \in B) /\ (IsTuple(p) => p.struct \in S)
        /\ \A s \in S : s \in DOMAIN frm /\ \A i \in {1, 2} : IsVector(frm[s][i]) => frm[s][i].block \in B
        /\ \A v \in Vars : sto[v] \in Pointers(sto, stk)
        /\ \A i \in DOMAIN stk : stk[i] \in Pointers(sto, stk)
        /\ \A p \in Pointers(sto, stk) : (\E v \in Vars : p = sto[v]) \/ (\E i \in DOMAIN stk : p = stk[i])
        /\ B \subseteq DOMAIN h /\ S \subseteq DOMAIN frm
    BY HeldHas
  <1>2. B \in SUBSET (1..MaxBlocks) /\ S \in SUBSET (1..MaxStructs)
    BY <1>1 DEF Memory, HeapOK, HeapBlock
  <1>3. /\ IsFiniteSet(B) /\ Cardinality(B) \in Nat /\ B \in SUBSET Nat /\ Cardinality(B) <= MaxBlocks
        /\ IsFiniteSet(S) /\ Cardinality(S) \in Nat /\ S \in SUBSET Nat /\ Cardinality(S) <= MaxStructs
    BY <1>2, UpTo, VectorMemoryAssumption, VectorCodeAssumption
  <1>4. /\ DOMAIN blocks = B /\ Range(blocks) \subseteq 1..Cardinality(B)
        /\ \A a \in B : blocks[a] \in Range(blocks) /\ AntiFunction(blocks)[blocks[a]] = a
        /\ \A n \in Range(blocks) : AntiFunction(blocks)[n] \in B /\ blocks[AntiFunction(blocks)[n]] = n
        /\ Renumbers(B, blocks)
    BY <1>3, NumberProps DEF Renumbers
  <1>5. /\ DOMAIN structs = S /\ Range(structs) \subseteq 1..Cardinality(S)
        /\ \A a \in S : structs[a] \in Range(structs) /\ AntiFunction(structs)[structs[a]] = a
        /\ \A n \in Range(structs) : AntiFunction(structs)[n] \in S /\ structs[AntiFunction(structs)[n]] = n
        /\ Renumbers(S, structs)
    BY <1>3, NumberProps DEF Renumbers
  <1>6. /\ DOMAIN g = Range(blocks) /\ \A b \in B : blocks[b] \in DOMAIN g /\ g[blocks[b]] = h[b]
        /\ \A n \in DOMAIN g : \E b \in B : n = blocks[b] /\ g[n] = h[b]
    BY <1>4
  <1>7. /\ DOMAIN f = Range(structs)
        /\ \A s \in S : structs[s] \in DOMAIN f /\ f[structs[s]] = MoveAll(frm[s], blocks, structs)
        /\ \A n \in DOMAIN f : \E s \in S : n = structs[s]
    BY <1>5
  <1>8. /\ DOMAIN sto = Vars /\ DOMAIN sto2 = Vars /\ DOMAIN stk2 = DOMAIN stk
        /\ \A v \in Vars : sto2[v] = Move(sto[v], blocks, structs)
        /\ \A i \in DOMAIN stk : stk2[i] = Move(stk[i], blocks, structs)
    BY DEF MoveAll, Memory
  <1>9. ASSUME NEW s \in S
        PROVE  /\ DOMAIN frm[s] = {1, 2} /\ DOMAIN f[structs[s]] = {1, 2}
               /\ \A i \in {1, 2} : f[structs[s]][i] = Move(frm[s][i], blocks, structs)
    <2>1. DOMAIN frm[s] = {1, 2}
      BY <1>1 DEF Memory, FieldsOK
    <2>2. PICK fields : fields = frm[s]
      OBVIOUS
    <2>3. f[structs[s]] = MoveAll(fields, blocks, structs)
      BY <1>7, <2>2
    <2>4. DOMAIN f[structs[s]] = DOMAIN fields
          /\ \A i \in DOMAIN fields : f[structs[s]][i] = Move(fields[i], blocks, structs)
      <3>1. PICK moved : moved = MoveAll(fields, blocks, structs)
        OBVIOUS
      <3>2. DOMAIN moved = DOMAIN fields
            /\ \A i \in DOMAIN fields : moved[i] = Move(fields[i], blocks, structs)
        BY <3>1 DEF MoveAll
      <3>. QED BY <2>3, <3>1, <3>2
    <2>. QED BY <2>1, <2>2, <2>4
  <1>27. Moved(h, B, S, blocks, structs, g, f)
    BY <1>4, <1>5, <1>6, <1>7 DEF Moved
  <1>10. ASSUME NEW v \in Vars
         PROVE  /\ Variable(sto2[v], g, f) /\ Kept(sto[v], h, sto2[v], g)
                /\ IsVector(sto2[v]) <=> IsVector(sto[v])
                /\ IsVector(sto[v]) => sto2[v].block = blocks[sto[v].block]
    <2>1. Variable(sto[v], h, frm)
      BY DEF Memory
    <2>2. (IsVector(sto[v]) => sto[v].block \in B) /\ (IsTuple(sto[v]) => sto[v].struct \in S)
      BY <1>1
    <2>3. PICK p, q : p = sto[v] /\ q = sto2[v]
      OBVIOUS
    <2>4. /\ Variable(p, h, frm) /\ (IsVector(p) => p.block \in B) /\ (IsTuple(p) => p.struct \in S)
          /\ q = Move(p, blocks, structs)
      BY <1>8, <2>1, <2>2, <2>3
    <2>5. /\ Variable(q, g, f) /\ Kept(p, h, q, g)
          /\ SamePlace(p, q, blocks)
      BY ONLY <1>27, <2>4, ValuesAreKept
    <2>. QED BY <2>3, <2>5 DEF SamePlace
  <1>11. ASSUME NEW i \in DOMAIN stk
         PROVE  /\ Operand(stk2[i], g, f) /\ Kept(stk[i], h, stk2[i], g)
                /\ IsVector(stk2[i]) <=> IsVector(stk[i])
                /\ IsVector(stk[i]) => stk2[i].block = blocks[stk[i].block]
    <2>1. Operand(stk[i], h, frm)
      BY DEF Memory
    <2>2. (IsVector(stk[i]) => stk[i].block \in B) /\ (IsTuple(stk[i]) => stk[i].struct \in S)
      BY <1>1
    <2>3. PICK p, q : p = stk[i] /\ q = stk2[i]
      OBVIOUS
    <2>4. /\ Operand(p, h, frm) /\ (IsVector(p) => p.block \in B) /\ (IsTuple(p) => p.struct \in S)
          /\ q = Move(p, blocks, structs)
      BY <1>8, <2>1, <2>2, <2>3
    <2>5. /\ Operand(q, g, f) /\ Kept(p, h, q, g)
          /\ SamePlace(p, q, blocks)
      BY ONLY <1>27, <2>4, ValuesAreKept
    <2>. QED BY <2>3, <2>5 DEF SamePlace
  <1>12. ASSUME NEW s \in S, NEW i \in {1, 2}
         PROVE  /\ Field(f[structs[s]][i], g)
                /\ IsVector(f[structs[s]][i]) <=> IsVector(frm[s][i])
                /\ IsVector(frm[s][i]) => f[structs[s]][i].block = blocks[frm[s][i].block]
    <2>1. Field(frm[s][i], h)
      BY <1>1 DEF Memory, FieldsOK
    <2>2. (IsVector(frm[s][i]) => frm[s][i].block \in B) /\ ~IsTuple(frm[s][i])
      BY <1>1, <2>1, Kinds DEF Field
    <2>3. f[structs[s]][i] = Move(frm[s][i], blocks, structs)
      BY <1>9
    <2>4. PICK p, q : p = frm[s][i] /\ q = f[structs[s]][i]
      OBVIOUS
    <2>5. /\ Field(p, h) /\ (IsVector(p) => p.block \in B) /\ (IsTuple(p) => p.struct \in S)
          /\ q = Move(p, blocks, structs)
      BY <2>1, <2>2, <2>3, <2>4
    <2>6. /\ Field(q, g)
          /\ SamePlace(p, q, blocks)
      BY ONLY <1>27, <2>5, ValuesAreKept
    <2>. QED BY <2>4, <2>6 DEF SamePlace
  <1>13. HeapOK(g)
    <2>1. DOMAIN g \subseteq HeapBlock
      BY <1>3, <1>4, <1>6, VectorMemoryAssumption DEF HeapBlock
    <2>2. \A n \in DOMAIN g : \E b \in DOMAIN h : g[n] = h[b]
      BY <1>1, <1>6
    <2>3. HeapOK(h)
      BY DEF Memory
    <2>. QED BY <2>1, <2>2, <2>3 DEF HeapOK
  <1>14. DOMAIN f \subseteq 1..MaxStructs
    BY <1>3, <1>5, <1>7, VectorCodeAssumption
  <1>15. \A n \in DOMAIN f : FieldsOK(f[n], g)
    <2>1. TAKE n \in DOMAIN f
    <2>2. PICK s \in S : n = structs[s]
      BY <1>7
    <2>3. DOMAIN f[n] = {1, 2} /\ Field(f[n][1], g) /\ Field(f[n][2], g)
      BY <1>9, <1>12, <2>2
    <2>. QED BY <2>3 DEF FieldsOK
  <1>16. Sequence(stk2)
    <2>1. PICK n \in Nat : DOMAIN stk = 1..n
      BY DEF Memory, Sequence
    <2>2. stk2 = [i \in 1..n |-> stk2[i]]
      BY <2>1 DEF MoveAll
    <2>. QED BY <1>8, <2>1, <2>2 DEF Sequence
  <1>17. Moves(sto, sto2, B, blocks) /\ Moves(stk, stk2, B, blocks)
    BY <1>1, <1>8, <1>10, <1>11 DEF Moves
  <1>18. \A s \in S : Moves(frm[s], f[structs[s]], B, blocks)
    <2>1. TAKE s \in S
    <2>2. PICK F, G : F = frm[s] /\ G = f[structs[s]]
      OBVIOUS
    <2>3. DOMAIN F = {1, 2} /\ DOMAIN G = {1, 2}
      BY <1>9, <2>2
    <2>4. \A i \in {1, 2} : IsVector(G[i]) => IsVector(F[i]) /\ F[i].block \in B
                                              /\ G[i].block = blocks[F[i].block]
      <3>1. TAKE i \in {1, 2}
      <3>2. /\ IsVector(f[structs[s]][i]) <=> IsVector(frm[s][i])
            /\ IsVector(frm[s][i]) => f[structs[s]][i].block = blocks[frm[s][i].block]
            /\ IsVector(frm[s][i]) => frm[s][i].block \in B
        BY <1>1, <1>12
      <3>. QED BY <2>2, <3>2
    <2>5. Moves(F, G, B, blocks)
      BY <2>3, <2>4 DEF Moves
    <2>. QED BY <2>2, <2>5
  <1>19. Alone(sto2) /\ Alone(stk2) /\ Apart(sto2, stk2)
    BY <1>4, <1>17, PlacesAreKept DEF Memory
  <1>20. \A n \in DOMAIN f : Apart(f[n], sto2) /\ Apart(f[n], stk2)
    <2>1. TAKE n \in DOMAIN f
    <2>2. PICK s \in S : n = structs[s]
      BY <1>7
    <2>3. Apart(frm[s], sto) /\ Apart(frm[s], stk)
      BY <1>1 DEF Memory
    <2>4. Moves(frm[s], f[n], B, blocks)
      BY <1>18, <2>2
    <2>. QED BY <1>4, <1>17, <2>3, <2>4, PlacesAreKept
  <1>21. Memory(g, f, sto2, stk2)
    <2>1. \A v \in Vars : Variable(sto2[v], g, f)
      BY <1>10
    <2>2. \A i \in DOMAIN stk2 : Operand(stk2[i], g, f)
      BY <1>8, <1>11
    <2>. QED BY <1>8, <1>13, <1>14, <1>15, <1>16, <1>19, <1>20, <2>1, <2>2 DEF Memory
  <1>22. /\ \A p \in Pointers(sto2, stk2) : \E q \in Pointers(sto, stk) : p = Move(q, blocks, structs)
         /\ \A q \in Pointers(sto, stk) : Move(q, blocks, structs) \in Pointers(sto2, stk2)
    <2>1. /\ \A p : p \in Pointers(sto, stk) <=>
                     (\E v \in Vars : p = sto[v]) \/ (\E i \in DOMAIN stk : p = stk[i])
          /\ \A p : p \in Pointers(sto2, stk2) <=>
                     (\E v \in Vars : p = sto2[v]) \/ (\E i \in DOMAIN stk : p = stk2[i])
      BY <1>8 DEF Pointers, Range
    <2>2. \A p \in Pointers(sto2, stk2) : \E q \in Pointers(sto, stk) : p = Move(q, blocks, structs)
      BY <1>8, <2>1
    <2>3. \A q \in Pointers(sto, stk) : Move(q, blocks, structs) \in Pointers(sto2, stk2)
      BY <1>8, <2>1
    <2>. QED BY <2>2, <2>3
  <1>23. ASSUME NEW q \in Pointers(sto, stk), NEW p, p = Move(q, blocks, structs)
         PROVE  /\ IsTuple(p) <=> IsTuple(q)
                /\ IsTuple(q) => p.struct = structs[q.struct] /\ q.struct \in S
                /\ \A b \in B : Points(q, frm, b) => Points(p, f, blocks[b])
                /\ \A n : Points(p, f, n) => \E b \in B : n = blocks[b]
    <2>1. CASE IsTuple(q)
      <3>1. q = TupleAt(q.struct) /\ q.struct \in S
        BY <1>1, <2>1, PointersOf
      <3>2. p = TupleAt(structs[q.struct])
        BY <1>23, <3>1, MoveProps
      <3>3. p.struct = structs[q.struct] /\ IsTuple(p) /\ ~IsVector(p) /\ ~IsVector(q)
        BY <3>1, <3>2, Kinds DEF TupleAt, IsTuple, IsVector
      <3>4. \A i \in {1, 2} :
              /\ IsVector(f[p.struct][i]) <=> IsVector(frm[q.struct][i])
              /\ IsVector(frm[q.struct][i]) => f[p.struct][i].block = blocks[frm[q.struct][i].block]
                                               /\ frm[q.struct][i].block \in B
        BY <1>1, <1>12, <3>1, <3>3
      <3>5. PICK F, G : F = frm[q.struct] /\ G = f[p.struct]
        OBVIOUS
      <3>6. \A i \in {1, 2} :
              /\ IsVector(G[i]) <=> IsVector(F[i])
              /\ IsVector(F[i]) => G[i].block = blocks[F[i].block] /\ F[i].block \in B
        BY <3>4, <3>5
      <3>7. /\ \A b : Points(q, frm, b) <=> \E i \in {1, 2} : IsVector(F[i]) /\ F[i].block = b
            /\ \A n : Points(p, f, n) <=> \E i \in {1, 2} : IsVector(G[i]) /\ G[i].block = n
        BY <2>1, <3>3, <3>5 DEF Points
      <3>8. \A b \in B : Points(q, frm, b) => Points(p, f, blocks[b])
        BY <3>6, <3>7
      <3>9. \A n : Points(p, f, n) => \E b \in B : n = blocks[b]
        BY <3>6, <3>7
      <3>. QED BY <2>1, <3>1, <3>3, <3>8, <3>9
    <2>2. CASE ~IsTuple(q)
      <3>1. Kept(q, h, p, g) /\ (IsVector(p) <=> IsVector(q))
            /\ (IsVector(q) => p.block = blocks[q.block] /\ q.block \in B)
        BY <1>1, <1>8, <1>10, <1>11, <1>23
      <3>2. ~IsTuple(p)
        BY <2>2, <3>1 DEF Kept, IsTuple
      <3>. QED BY <2>2, <3>1, <3>2 DEF Points
    <2>. QED BY <2>1, <2>2
  <1>24. HeldBlocks(Pointers(sto2, stk2), f) = DOMAIN g
    <2>1. \A n : n \in HeldBlocks(Pointers(sto2, stk2), f) <=>
                    \E p \in Pointers(sto2, stk2) : Points(p, f, n)
      BY <1>21, HeldOf
    <2>2. \A b : b \in B <=> \E p \in Pointers(sto, stk) : Points(p, frm, b)
      BY HeldOf
    <2>3. ASSUME NEW n, n \in HeldBlocks(Pointers(sto2, stk2), f) PROVE n \in DOMAIN g
      <3>1. PICK p \in Pointers(sto2, stk2) : Points(p, f, n)
        BY <2>1, <2>3
      <3>2. PICK q \in Pointers(sto, stk) : p = Move(q, blocks, structs)
        BY <1>22
      <3>3. \E b \in B : n = blocks[b]
        BY <1>23, <3>1, <3>2
      <3>. QED BY <1>6, <3>3
    <2>4. ASSUME NEW n \in DOMAIN g PROVE n \in HeldBlocks(Pointers(sto2, stk2), f)
      <3>1. PICK b \in B : n = blocks[b]
        BY <1>6
      <3>2. PICK q \in Pointers(sto, stk) : Points(q, frm, b)
        BY <2>2
      <3>3. Points(Move(q, blocks, structs), f, n)
        BY <1>23, <3>1, <3>2
      <3>. QED BY <1>22, <2>1, <3>3
    <2>. QED BY <2>3, <2>4
  <1>25. HeldStructs(Pointers(sto2, stk2)) = DOMAIN f
    <2>1. ASSUME NEW p \in Pointers(sto2, stk2), IsTuple(p) PROVE p.struct \in DOMAIN f
      BY <1>7, <1>22, <1>23, <2>1
    <2>2. ASSUME NEW n \in DOMAIN f
          PROVE  \E p \in Pointers(sto2, stk2) : IsTuple(p) /\ p.struct = n
      <3>1. PICK s \in S : n = structs[s]
        BY <1>7
      <3>2. PICK q \in Pointers(sto, stk) : IsTuple(q) /\ q.struct = s
        BY DEF HeldStructs
      <3>. QED BY <1>22, <1>23, <3>1, <3>2
    <2>3. \A n : n \in HeldStructs(Pointers(sto2, stk2)) <=>
                    \E p \in Pointers(sto2, stk2) : IsTuple(p) /\ p.struct = n
      BY DEF HeldStructs
    <2>4. \A n : n \in HeldStructs(Pointers(sto2, stk2)) <=> n \in DOMAIN f
      BY <2>1, <2>2, <2>3
    <2>. QED BY <2>4
  <1>26. Cardinality(DOMAIN g) <= Cardinality(B)
    BY <1>3, <1>4, <1>6, UpTo
  <1>. QED BY <1>4, <1>6, <1>8, <1>10, <1>11, <1>21, <1>24, <1>25, <1>26

---------------------------------------------------------------------------
(* The inductive invariant, and what a step that settles does.             *)

VInv ==
    /\ TypeOK
    /\ Memory(heap, frame, store, stack)
    /\ Cardinality(DOMAIN heap) <= MaxLive
    /\ \A i \in DOMAIN stack : IsScalar(stack[i]) => stack[i].val \in Values

AllLive == \A b \in DOMAIN heap : heap[b].live

\* What is pointed to when the places are these.
Held(frm, sto, stk) == HeldBlocks(Pointers(sto, stk), frm)

\* An empty memory.
LEMMA EmptyMemory ==
    ASSUME NEW sto, sto = [v \in Vars |-> NotDeclared], NEW stk, stk = <<>>, NEW h, h = <<>>,
           NEW f, f = <<>>
    PROVE  /\ Memory(h, f, sto, stk) /\ DOMAIN h = {} /\ Len(stk) = 0
           /\ HeldStructs(Pointers(sto, stk)) = DOMAIN f /\ Held(f, sto, stk) = DOMAIN h
           /\ \A p \in Pointers(sto, stk) : p.kind \in {"none", "scalar", "vector", "tuple"}
  <1>1. DOMAIN h = {} /\ DOMAIN f = {} /\ DOMAIN stk = {} /\ Len(stk) = 0 /\ DOMAIN sto = Vars
        /\ \A v \in Vars : sto[v] = NotDeclared
    OBVIOUS
  <1>2. Sequence(stk)
    <2>1. <<>> \in Seq({})
      OBVIOUS
    <2>. QED BY <2>1, SeqIsSequence
  <1>3. ~IsVector(NotDeclared) /\ ~IsTuple(NotDeclared)
    BY DEF IsVector, IsTuple, NotDeclared
  <1>4. Alone(sto) /\ Alone(stk) /\ Apart(sto, stk)
    BY <1>1, <1>3 DEF Alone, Apart
  <1>5. \A v \in Vars : Variable(sto[v], h, f)
    BY <1>1 DEF Variable
  <1>6. HeapOK(h)
    BY <1>1 DEF HeapOK
  <1>7. Memory(h, f, sto, stk)
    BY <1>1, <1>2, <1>4, <1>5, <1>6 DEF Memory
  <1>8. HeldStructs(Pointers(sto, stk)) \subseteq {} /\ Held(f, sto, stk) \subseteq {}
    BY <1>1, <1>7, HeldOf DEF Held
  <1>. QED BY <1>1, <1>7, <1>8, PointersOf

LEMMA StopKeeps ==
    ASSUME NEW e \in Status, Stop(e)
    PROVE  VInv' /\ status' = e /\ ~lost' /\ stack' = <<>> /\ AllLive'
  <1>1. heap' = <<>> /\ frame' = <<>> /\ store' = [v \in Vars |-> NotDeclared] /\ stack' = <<>>
        /\ status' = e /\ lost' = FALSE
    BY DEF Stop
  <1>2. /\ Memory(heap', frame', store', stack') /\ DOMAIN heap' = {} /\ Len(stack') = 0
        /\ HeldStructs(Pointers(store', stack')) = DOMAIN frame'
        /\ Held(frame', store', stack') = DOMAIN heap'
        /\ \A p \in Pointers(store', stack') : p.kind \in {"none", "scalar", "vector", "tuple"}
    <2>1. PICK h, f, sto, stk : h = heap' /\ f = frame' /\ sto = store' /\ stk = stack'
      OBVIOUS
    <2>2. h = <<>> /\ f = <<>> /\ sto = [v \in Vars |-> NotDeclared] /\ stk = <<>>
      BY <1>1, <2>1
    <2>3. /\ Memory(h, f, sto, stk) /\ DOMAIN h = {} /\ Len(stk) = 0
          /\ HeldStructs(Pointers(sto, stk)) = DOMAIN f /\ Held(f, sto, stk) = DOMAIN h
          /\ \A p \in Pointers(sto, stk) : p.kind \in {"none", "scalar", "vector", "tuple"}
      BY <2>2, EmptyMemory
    <2>. QED BY <2>1, <2>3
  <1>3. Cardinality(DOMAIN heap') = 0
    BY <1>2, FS_EmptySet
  <1>4. TypeOK'
    <2>1. PICK h, f, sto, stk : h = heap' /\ f = frame' /\ sto = store' /\ stk = stack'
      OBVIOUS
    <2>2. DOMAIN h = {} /\ DOMAIN sto = Vars /\ Len(stk) <= Depth
      BY <1>2, <2>1, VectorCodeAssumption DEF Memory
    <2>. QED BY <1>1, <1>2, <2>1, <2>2 DEF TypeOK, Held
  <1>5. DOMAIN stack' = {}
    BY <1>1
  <1>. QED BY <1>1, <1>2, <1>3, <1>4, <1>5, VectorCodeAssumption DEF VInv, AllLive

\* The state after a step that settles.
LEMMA SettleKeeps ==
    ASSUME NEW h, NEW frm, NEW sto, NEW stk, NEW sta \in Status,
           Memory(h, frm, sto, stk), Len(stk) <= Depth, Settle(h, frm, sto, stk, sta)
    PROVE  /\ VInv' /\ status' = sta
           /\ lost' => \E b \in DOMAIN h \ Held(frm, sto, stk) : h[b].live
           /\ \A n \in DOMAIN heap' : \E b \in Held(frm, sto, stk) : heap'[n] = h[b]
           /\ \A v \in Vars : Kept(sto[v], h, store'[v], heap')
           /\ DOMAIN stack' = DOMAIN stk /\ \A i \in DOMAIN stk : Kept(stk[i], h, stack'[i], heap')
           /\ stk = <<>> => stack' = <<>>
  <1>. PICK B, S : B = HeldBlocks(Pointers(sto, stk), frm) /\ S = HeldStructs(Pointers(sto, stk))
    OBVIOUS
  <1>. PICK blocks, structs : blocks = Number(B) /\ structs = Number(S)
    OBVIOUS
  <1>1. /\ Cardinality(DOMAIN blocks) <= MaxLive
        /\ heap' = [n \in Range(blocks) |-> h[AntiFunction(blocks)[n]]]
        /\ WithinBounds(heap', stk)
        /\ frame' = [n \in Range(structs) |-> MoveAll(frm[AntiFunction(structs)[n]], blocks, structs)]
        /\ store' = MoveAll(sto, blocks, structs)
        /\ stack' = MoveAll(stk, blocks, structs)
        /\ status' = sta
        /\ lost' = \E b \in DOMAIN h \ DOMAIN blocks : h[b].live
    BY DEF Settle
  <1>2. PICK g, f, sto2, stk2 : g = heap' /\ f = frame' /\ sto2 = store' /\ stk2 = stack'
    OBVIOUS
  <1>3. /\ Memory(g, f, sto2, stk2)
        /\ HeldBlocks(Pointers(sto2, stk2), f) = DOMAIN g
        /\ HeldStructs(Pointers(sto2, stk2)) = DOMAIN f
        /\ \A n \in DOMAIN g : \E b \in B : g[n] = h[b]
        /\ \A v \in Vars : Kept(sto[v], h, sto2[v], g)
        /\ DOMAIN stk2 = DOMAIN stk /\ \A i \in DOMAIN stk : Kept(stk[i], h, stk2[i], g)
        /\ Cardinality(DOMAIN g) <= Cardinality(B) /\ DOMAIN blocks = B
    <2>1. /\ g = [n \in Range(blocks) |-> h[AntiFunction(blocks)[n]]]
          /\ f = [n \in Range(structs) |-> MoveAll(frm[AntiFunction(structs)[n]], blocks, structs)]
          /\ sto2 = MoveAll(sto, blocks, structs)
          /\ stk2 = MoveAll(stk, blocks, structs)
      BY <1>1, <1>2
    <2>. QED BY <2>1, Renumbering
  <1>4. Cardinality(DOMAIN g) <= MaxLive
    <2>1. IsFiniteSet(DOMAIN g) /\ Cardinality(DOMAIN g) \in Nat
      BY <1>3, HeapFinite DEF Memory
    <2>2. HeldBlocks(Pointers(sto, stk), frm) \subseteq DOMAIN h
      BY HeldOf
    <2>3. Cardinality(B) \in Nat
      <3>1. HeapOK(h)
        BY DEF Memory
      <3>2. IsFiniteSet(DOMAIN h)
        BY <3>1, HeapFinite
      <3>. QED BY <2>2, <3>2, FS_Subset, FS_CardinalityType
    <2>. QED BY <1>1, <1>3, <2>1, <2>3, VectorCodeAssumption
  <1>5. Len(stk2) = Len(stk)
    <2>1. Sequence(stk) /\ Sequence(stk2)
      BY <1>3 DEF Memory
    <2>2. Len(stk) \in Nat /\ Len(stk2) \in Nat /\ DOMAIN stk = 1..Len(stk) /\ DOMAIN stk2 = 1..Len(stk2)
      BY <2>1, SequenceProps
    <2>. QED BY <1>3, <2>2
  <1>6. \A i \in DOMAIN stk2 : IsScalar(stk2[i]) => stk2[i].val \in Values
    <2>1. TAKE i \in DOMAIN stk2
    <2>2. Kept(stk[i], h, stk2[i], g) /\ i \in DOMAIN stk
      BY <1>3
    <2>3. stk[i].kind = "scalar" => stk[i].val \in Values
      BY <1>1, <2>2 DEF WithinBounds
    <2>. QED BY <2>2, <2>3 DEF Kept, IsScalar
  <1>7. \A p \in Pointers(sto2, stk2) : p.kind \in {"none", "scalar", "vector", "tuple"}
    BY <1>3, PointersOf
  <1>8. \A b \in DOMAIN g : /\ g[b].live \in BOOLEAN
                            /\ Range(g[b].elems) \subseteq Values /\ Len(g[b].elems) <= MaxSize
    <2>1. WithinBounds(g, stk) /\ HeapOK(g)
      BY <1>1, <1>2, <1>3 DEF Memory
    <2>. QED BY <2>1 DEF WithinBounds, HeapOK
  <1>9. TypeOK'
    <2>1. DOMAIN sto2 = Vars
      BY <1>3 DEF Memory
    <2>2. lost' \in BOOLEAN
      BY <1>1
    <2>. QED BY <1>1, <1>2, <1>3, <1>5, <1>7, <1>8, <2>1, <2>2 DEF TypeOK
  <1>10. VInv'
    BY <1>2, <1>3, <1>4, <1>6, <1>9 DEF VInv
  <1>11. ASSUME stk = <<>> PROVE stack' = <<>>
    BY <1>1, <1>11 DEF MoveAll
  <1>. QED BY <1>1, <1>2, <1>3, <1>10, <1>11 DEF Held

---------------------------------------------------------------------------
(* How the memory may change.                                              *)

\* The stack of which m values are left, and with a new one.
FirstOf(stk, m) == SubSeq(stk, 1, m)
With(stk, val) == Append(stk, val)

LEMMA StackAfter ==
    ASSUME NEW stk, Sequence(stk), NEW m \in Nat, m <= Len(stk),
           NEW s, s = FirstOf(stk, m), NEW val, NEW t, t = With(s, val)
    PROVE  /\ Sequence(s) /\ DOMAIN s = 1..m /\ DOMAIN stk = 1..Len(stk)
           /\ Len(s) = m /\ \A i \in 1..m : s[i] = stk[i]
           /\ Sequence(t) /\ DOMAIN t = 1..(m + 1) /\ Len(t) = m + 1 /\ t # <<>>
           /\ t[m + 1] = val /\ \A i \in 1..m : t[i] = stk[i]
  <1>1. Len(stk) \in Nat /\ DOMAIN stk = 1..Len(stk) /\ stk \in Seq(Range(stk))
    BY SequenceProps
  <1>2. PICK S : S = Range(stk) \cup {val}
    OBVIOUS
  <1>3. stk \in Seq(S) /\ val \in S
    <2>1. Seq(Range(stk)) \subseteq Seq(S)
      BY <1>2
    <2>. QED BY <1>1, <1>2, <2>1
  <1>4. m \in Nat /\ m <= Len(stk)
    BY <1>1
  <1>5. s = [i \in 1..m |-> stk[i]] /\ s \in Seq(S) /\ Len(s) = m
    <2>1. s \in Seq(S) /\ Len(s) = m /\ \A i \in 1..m : s[i] = stk[i]
      BY <1>1, <1>3, <1>4, SubSeqProperties DEF FirstOf
    <2>2. DOMAIN s = 1..m
      BY <2>1
    <2>. QED BY <1>3, <1>4, <2>1, <2>2
  <1>6. /\ t \in Seq(S) /\ Len(t) = m + 1 /\ t[m + 1] = val /\ t # <<>>
        /\ \A i \in 1..m : t[i] = s[i]
    <2>1. s \in Seq(S) /\ Len(s) = m
      BY <1>5
    <2>2. /\ Append(s, val) \in Seq(S) /\ Append(s, val) # <<>>
          /\ Len(Append(s, val)) = Len(s) + 1
          /\ \A i \in 1..Len(s) : Append(s, val)[i] = s[i]
          /\ Append(s, val)[Len(s) + 1] = val
      BY ONLY <1>3, <2>1, AppendProperties
    <2>3. t = Append(s, val)
      BY DEF With
    <2>. QED BY ONLY <2>1, <2>2, <2>3
  <1>. QED BY <1>1, <1>4, <1>5, <1>6, SeqIsSequence, LenProperties

\* Blocks that are in use stay allocated.
LEMMA HeapAfter ==
    ASSUME NEW h, NEW frm, NEW sto, NEW stk, Memory(h, frm, sto, stk),
           NEW g, HeapOK(g), DOMAIN h \subseteq DOMAIN g,
           \A v \in Vars : IsVector(sto[v]) /\ h[sto[v].block].live => g[sto[v].block].live,
           \A i \in DOMAIN stk : IsVector(stk[i]) /\ h[stk[i].block].live => g[stk[i].block].live
    PROVE  Memory(g, frm, sto, stk)
  <1>1. \A s \in DOMAIN frm : FieldsOK(frm[s], g)
    BY DEF Memory, FieldsOK, Field
  <1>2. \A v \in Vars : Variable(sto[v], g, frm)
    <2>1. TAKE v \in Vars
    <2>2. PICK p : p = sto[v]
      OBVIOUS
    <2>3. Variable(p, h, frm) /\ (IsVector(p) /\ h[p.block].live => g[p.block].live)
      BY <2>2 DEF Memory
    <2>4. Variable(p, g, frm)
      BY <2>3 DEF Variable, Live
    <2>. QED BY <2>2, <2>4
  <1>3. \A i \in DOMAIN stk : Operand(stk[i], g, frm)
    <2>1. TAKE i \in DOMAIN stk
    <2>2. PICK p : p = stk[i]
      OBVIOUS
    <2>3. Operand(p, h, frm) /\ (IsVector(p) /\ h[p.block].live => g[p.block].live)
      BY <2>2 DEF Memory
    <2>4. Operand(p, g, frm)
      BY <2>3 DEF Operand, LiveVector, Live
    <2>. QED BY <2>2, <2>4
  <1>. QED BY <1>1, <1>2, <1>3 DEF Memory

\* Operands are dropped.
LEMMA Dropped ==
    ASSUME NEW h, NEW frm, NEW sto, NEW stk, Memory(h, frm, sto, stk), NEW s, Sequence(s),
           DOMAIN s \subseteq DOMAIN stk, \A i \in DOMAIN s : s[i] = stk[i]
    PROVE  Memory(h, frm, sto, s)
  <1>1. \A i \in DOMAIN s : Operand(s[i], h, frm)
    BY DEF Memory
  <1>2. Alone(s) /\ Apart(sto, s)
    BY DEF Memory, Alone, Apart
  <1>3. \A x \in DOMAIN frm : Apart(frm[x], s)
    <2>1. TAKE x \in DOMAIN frm
    <2>2. PICK F : F = frm[x]
      OBVIOUS
    <2>3. Apart(F, stk)
      BY <2>2 DEF Memory
    <2>4. Apart(F, s)
      BY <2>3 DEF Apart
    <2>. QED BY <2>2, <2>4
  <1>. QED BY <1>1, <1>2, <1>3 DEF Memory

\* The block b is no place's.
Elsewhere(b, places) == \A x \in DOMAIN places : IsVector(places[x]) => places[x].block # b

\* A value is pushed.
LEMMA Pushed ==
    ASSUME NEW h, NEW frm, NEW sto, NEW s, Memory(h, frm, sto, s), NEW m \in Nat, DOMAIN s = 1..m,
           NEW val, Operand(val, h, frm),
           IsVector(val) => /\ Elsewhere(val.block, sto) /\ Elsewhere(val.block, s)
                            /\ \A x \in DOMAIN frm : Elsewhere(val.block, frm[x]),
           NEW t, Sequence(t), DOMAIN t = 1..(m + 1), t[m + 1] = val, \A i \in 1..m : t[i] = s[i]
    PROVE  Memory(h, frm, sto, t)
  <1>1. \A i \in DOMAIN t : (i \in DOMAIN s /\ t[i] = s[i]) \/ (i = m + 1 /\ t[i] = val)
    <2>1. TAKE i \in DOMAIN t
    <2>2. i \in 1..(m + 1)
      OBVIOUS
    <2>3. i \in 1..m \/ i = m + 1
      BY <2>2
    <2>. QED BY <2>3
  <1>2. \A i \in DOMAIN t : Operand(t[i], h, frm)
    BY <1>1 DEF Memory
  <1>3. Alone(t)
    <2>1. Alone(s) /\ (IsVector(val) => Elsewhere(val.block, s))
      BY DEF Memory
    <2>2. ASSUME NEW i \in DOMAIN t, NEW j \in DOMAIN t, i # j, IsVector(t[i]), IsVector(t[j])
          PROVE  t[i].block # t[j].block
      <3>1. CASE i = m + 1
        BY <1>1, <2>1, <2>2, <3>1 DEF Elsewhere
      <3>2. CASE j = m + 1
        BY <1>1, <2>1, <2>2, <3>2 DEF Elsewhere
      <3>3. CASE i # m + 1 /\ j # m + 1
        BY <1>1, <2>1, <2>2, <3>3 DEF Alone
      <3>. QED BY <3>1, <3>2, <3>3
    <2>. QED BY <2>2 DEF Alone
  <1>4. Apart(sto, t)
    <2>1. Apart(sto, s) /\ (IsVector(val) => Elsewhere(val.block, sto))
      BY DEF Memory
    <2>. QED BY <1>1, <2>1 DEF Apart, Elsewhere
  <1>5. \A x \in DOMAIN frm : Apart(frm[x], t)
    <2>1. TAKE x \in DOMAIN frm
    <2>2. PICK F : F = frm[x]
      OBVIOUS
    <2>3. Apart(F, s) /\ (IsVector(val) => Elsewhere(val.block, F))
      BY <2>2 DEF Memory
    <2>4. Apart(F, t)
      BY <1>1, <2>3 DEF Apart, Elsewhere
    <2>. QED BY <2>2, <2>4
  <1>. QED BY <1>2, <1>3, <1>4, <1>5 DEF Memory

\* The frame f has the structs of the frame frm, and perhaps others, with
\* vectors of their own.
LEMMA FrameAfter ==
    ASSUME NEW h, NEW frm, NEW sto, NEW stk, Memory(h, frm, sto, stk),
           NEW f, DOMAIN frm \subseteq DOMAIN f, DOMAIN f \subseteq 1..MaxStructs,
           \A s \in DOMAIN f : /\ FieldsOK(f[s], h)
                               /\ \A i \in {1, 2} : IsVector(f[s][i]) =>
                                    Elsewhere(f[s][i].block, sto) /\ Elsewhere(f[s][i].block, stk)
    PROVE  Memory(h, f, sto, stk)
  <1>1. \A v \in Vars : Variable(sto[v], h, f)
    BY DEF Memory, Variable
  <1>2. \A i \in DOMAIN stk : Operand(stk[i], h, f)
    BY DEF Memory, Operand
  <1>3. \A s \in DOMAIN f : Apart(f[s], sto) /\ Apart(f[s], stk)
    <2>1. TAKE s \in DOMAIN f
    <2>2. PICK F : F = f[s]
      OBVIOUS
    <2>3. DOMAIN F = {1, 2} /\ \A i \in {1, 2} : IsVector(F[i]) =>
                                    Elsewhere(F[i].block, sto) /\ Elsewhere(F[i].block, stk)
      BY <2>2 DEF FieldsOK
    <2>4. Apart(F, sto) /\ Apart(F, stk)
      BY <2>3 DEF Apart, Elsewhere
    <2>. QED BY <2>2, <2>4
  <1>. QED BY <1>1, <1>2, <1>3 DEF Memory

\* A variable has a new value.
LEMMA Bound ==
    ASSUME NEW h, NEW frm, NEW sto, NEW stk, Memory(h, frm, sto, stk), DOMAIN stk = {},
           NEW v \in Vars, NEW val, Variable(val, h, frm), NEW sto2, sto2 = [sto EXCEPT ![v] = val],
           IsVector(val) => /\ \A u \in Vars \ {v} : IsVector(sto[u]) => sto[u].block # val.block
                            /\ \A x \in DOMAIN frm : Elsewhere(val.block, frm[x])
    PROVE  Memory(h, frm, sto2, stk)
  <1>1. /\ DOMAIN sto = Vars /\ DOMAIN sto2 = Vars /\ sto2[v] = val
        /\ \A u \in Vars \ {v} : sto2[u] = sto[u]
    BY DEF Memory
  <1>2. \A u \in Vars : Variable(sto2[u], h, frm)
    BY <1>1 DEF Memory
  <1>3. Alone(sto2)
    <2>1. Alone(sto)
      BY DEF Memory
    <2>. QED BY <1>1, <2>1 DEF Alone
  <1>4. Apart(sto2, stk)
    BY DEF Apart
  <1>5. \A x \in DOMAIN frm : Apart(frm[x], sto2)
    <2>1. TAKE x \in DOMAIN frm
    <2>2. PICK F : F = frm[x]
      OBVIOUS
    <2>3. Apart(F, sto) /\ (IsVector(val) => Elsewhere(val.block, F))
      BY <2>2 DEF Memory
    <2>4. Apart(F, sto2)
      BY <1>1, <2>3 DEF Apart, Elsewhere
    <2>. QED BY <2>2, <2>4
  <1>. QED BY <1>1, <1>2, <1>3, <1>4, <1>5 DEF Memory

---------------------------------------------------------------------------
(* What a step finds.                                                      *)

LEMMA Found ==
    ASSUME VInv
    PROVE  /\ HeapOK(heap) /\ Room(heap, 1) /\ Room(heap, 2) /\ Room(heap, 3) /\ Room(heap, 4)
           /\ Memory(heap, frame, store, stack)
           /\ Sequence(stack) /\ Len(stack) \in Nat /\ DOMAIN stack = 1..Len(stack)
           /\ Len(stack) <= Depth /\ DOMAIN store = Vars
           /\ HeldStructs(Pointers(store, stack)) = DOMAIN frame
           /\ \A b : b \in DOMAIN heap <=> \E p \in Pointers(store, stack) : Points(p, frame, b)
  <1>1. HeapOK(heap) /\ Memory(heap, frame, store, stack) /\ Sequence(stack) /\ DOMAIN store = Vars
    BY DEF VInv, Memory
  <1>2. Room(heap, 1) /\ Room(heap, 2) /\ Room(heap, 3) /\ Room(heap, 4)
    <2>1. Cardinality(DOMAIN heap) \in Nat /\ Cardinality(DOMAIN heap) <= MaxLive
      BY <1>1, HeapFinite DEF VInv
    <2>. QED BY <2>1, VectorCodeAssumption, VectorMemoryAssumption DEF Room
  <1>3. Len(stack) \in Nat /\ DOMAIN stack = 1..Len(stack)
    BY <1>1, SequenceProps
  <1>4. \A b : b \in HeldBlocks(Pointers(store, stack), frame) <=>
                    \E p \in Pointers(store, stack) : Points(p, frame, b)
    BY <1>1, HeldOf
  <1>5. /\ HeldBlocks(Pointers(store, stack), frame) = DOMAIN heap
        /\ HeldStructs(Pointers(store, stack)) = DOMAIN frame /\ Len(stack) <= Depth
    BY DEF VInv, TypeOK
  <1>. QED BY <1>1, <1>2, <1>3, <1>4, <1>5

LEMMA OperandAt ==
    ASSUME VInv, NEW i \in DOMAIN stack, NEW p, p = stack[i]
    PROVE  /\ Operand(p, heap, frame) /\ (IsVector(p) => LiveVector(heap, p))
           /\ IsTuple(p) => p = TupleAt(p.struct) /\ p.struct \in DOMAIN frame
                            /\ FieldsOK(frame[p.struct], heap)
           /\ IsScalar(p) => p.val \in Int
           /\ ~IsTuple(p) => Usable(heap, p)
           /\ IsVector(p) => /\ Elsewhere(p.block, store)
                             /\ \A s \in DOMAIN frame : Elsewhere(p.block, frame[s])
                             /\ \A j \in DOMAIN stack \ {i} : IsVector(stack[j]) => stack[j].block # p.block
  <1>1. Memory(heap, frame, store, stack)
    BY Found
  <1>2. Operand(p, heap, frame)
    BY <1>1 DEF Memory
  <1>3. IsScalar(p) => p.val \in Int
    BY VectorCodeAssumption DEF VInv, Values
  <1>4. ASSUME IsVector(p)
        PROVE  /\ Elsewhere(p.block, store)
               /\ \A j \in DOMAIN stack \ {i} : IsVector(stack[j]) => stack[j].block # p.block
    BY <1>1, <1>4 DEF Memory, Alone, Apart, Elsewhere
  <1>5. ASSUME IsVector(p), NEW s \in DOMAIN frame PROVE Elsewhere(p.block, frame[s])
    <2>1. PICK F : F = frame[s]
      OBVIOUS
    <2>2. Apart(F, stack)
      BY <1>1, <2>1 DEF Memory
    <2>3. Elsewhere(p.block, F)
      BY <1>5, <2>2 DEF Apart, Elsewhere
    <2>. QED BY <2>1, <2>3
  <1>6. IsVector(p) => LiveVector(heap, p)
    BY <1>2, Kinds DEF Operand
  <1>7. IsTuple(p) => p = TupleAt(p.struct) /\ p.struct \in DOMAIN frame
    BY <1>2, Kinds DEF Operand, LiveVector
  <1>8. IsTuple(p) => FieldsOK(frame[p.struct], heap)
    BY <1>1, <1>7 DEF Memory
  <1>9. ~IsTuple(p) => Usable(heap, p)
    BY <1>2, Kinds DEF Operand, Usable
  <1>. QED BY <1>2, <1>3, <1>4, <1>5, <1>6, <1>7, <1>8, <1>9

LEMMA VariableAt ==
    ASSUME VInv, NEW v \in Vars, NEW p, p = store[v]
    PROVE  /\ Variable(p, heap, frame)
           /\ IsTuple(p) => p = TupleAt(p.struct) /\ p.struct \in DOMAIN frame
                            /\ FieldsOK(frame[p.struct], heap)
           /\ IsVector(p) => /\ p.block \in DOMAIN heap /\ heap[p.block].live /\ p.size \in Int
                             /\ DOMAIN p = {"kind", "base", "block", "size"}
                             /\ Elsewhere(p.block, stack)
                             /\ \A s \in DOMAIN frame : Elsewhere(p.block, frame[s])
                             /\ \A u \in Vars \ {v} : IsVector(store[u]) => store[u].block # p.block
  <1>1. Memory(heap, frame, store, stack) /\ DOMAIN store = Vars
    BY Found
  <1>2. Variable(p, heap, frame)
    BY <1>1 DEF Memory
  <1>3. ASSUME IsVector(p)
        PROVE  /\ Elsewhere(p.block, stack)
               /\ \A u \in Vars \ {v} : IsVector(store[u]) => store[u].block # p.block
    BY <1>1, <1>3 DEF Memory, Alone, Apart, Elsewhere
  <1>4. ASSUME IsVector(p), NEW s \in DOMAIN frame PROVE Elsewhere(p.block, frame[s])
    <2>1. PICK F : F = frame[s]
      OBVIOUS
    <2>2. Apart(F, store)
      BY <1>1, <2>1 DEF Memory
    <2>3. Elsewhere(p.block, F)
      BY <1>1, <1>4, <2>2 DEF Apart, Elsewhere
    <2>. QED BY <2>1, <2>3
  <1>5. IsVector(p) => /\ p.block \in DOMAIN heap /\ heap[p.block].live /\ p.size \in Int
                       /\ DOMAIN p = {"kind", "base", "block", "size"}
    BY <1>2, Kinds DEF Variable, Live
  <1>6. IsTuple(p) => p = TupleAt(p.struct) /\ p.struct \in DOMAIN frame
    BY <1>2, Kinds DEF Variable
  <1>7. IsTuple(p) => FieldsOK(frame[p.struct], heap)
    BY <1>1, <1>6 DEF Memory
  <1>. QED BY <1>2, <1>3, <1>4, <1>5, <1>6, <1>7

---------------------------------------------------------------------------
(* Expressions.                                                            *)

\* The block b is no variable's, and none of an operand below the last n.
Unowned(b, n) ==
    /\ Elsewhere(b, store)
    /\ \A i \in 1..(Len(stack) - n) : IsVector(stack[i]) => stack[i].block # b

\* It is no tuple's.
InNoTuple(b) == \A s \in DOMAIN frame : Elsewhere(b, frame[s])

\* What ExpressionsHaveNoEffect says of a step.
NoEffect ==
    stack' # <<>> /\ status' = "running" =>
        \A v \in Vars : IsVector(store[v]) =>
            IsVector(store'[v]) /\ heap'[store'[v].block] = heap[store[v].block]

\* A frame with one struct more, or none.
GrownFrame(f, h, n) ==
    /\ DOMAIN frame \subseteq DOMAIN f /\ DOMAIN f \subseteq 1..MaxStructs
    /\ \A s \in DOMAIN frame : f[s] = frame[s]
    /\ \A s \in DOMAIN f \ DOMAIN frame :
        /\ FieldsOK(f[s], h)
        /\ \A i \in {1, 2} : IsVector(f[s][i]) => h[f[s][i].block].live /\ Unowned(f[s][i].block, n)

\* n operands give way to a value; blocks of D were touched.
LEMMA ValueStep ==
    ASSUME VInv, NEW n \in Nat, n <= Len(stack), Len(stack) - n < Depth,
           NEW D, NEW h, HeapOK(h), DOMAIN heap \subseteq DOMAIN h,
           \A b \in DOMAIN heap \ D : h[b] = heap[b], \A b \in D : Unowned(b, n),
           NEW f, GrownFrame(f, h, n),
           NEW val, Operand(val, h, f),
           IsVector(val) => Unowned(val.block, n) /\ \A s \in DOMAIN f : Elsewhere(val.block, f[s]),
           Settle(h, f, store, Append(Popped(n), val), "running")
    PROVE  /\ VInv' /\ status' = "running" /\ NoEffect
           /\ Dangling = {} /\ (\A b \in D : InNoTuple(b)) => Dangling' = {}
           /\ /\ \A b \in DOMAIN h : h[b].live => b \in DOMAIN heap \ D \/ Points(val, f, b)
              /\ \A i \in DOMAIN stack : i > Len(stack) - n =>
                    \A b : Points(stack[i], frame, b) => b \in D
              => ~lost'
  <1>16. PICK m, s, t : m = Len(stack) - n /\ s = SubSeq(stack, 1, m) /\ t = Append(s, val)
    OBVIOUS
  <1>1. /\ HeapOK(heap) /\ Memory(heap, frame, store, stack) /\ Sequence(stack) /\ Len(stack) \in Nat
        /\ DOMAIN stack = 1..Len(stack) /\ DOMAIN store = Vars
        /\ \A b : b \in DOMAIN heap <=> \E p \in Pointers(store, stack) : Points(p, frame, b)
    BY Found
  <1>2. /\ m \in Nat /\ Sequence(s) /\ DOMAIN s = 1..m /\ Len(s) = m /\ \A i \in 1..m : s[i] = stack[i]
        /\ Sequence(t) /\ DOMAIN t = 1..(m + 1) /\ Len(t) = m + 1 /\ t # <<>>
        /\ t[m + 1] = val /\ \A i \in 1..m : t[i] = stack[i]
    <2>1. Sequence(stack) /\ Len(stack) \in Nat /\ n \in Nat /\ n <= Len(stack)
      BY <1>1
    <2>2. m = Len(stack) - n /\ s = SubSeq(stack, 1, m) /\ t = Append(s, val)
      BY ONLY <1>16
    <2>3. m \in Nat /\ m <= Len(stack)
      BY ONLY <2>1, <2>2
    <2>4. Sequence(stack) /\ s = FirstOf(stack, m) /\ t = With(s, val)
      BY ONLY <2>1, <2>2 DEF FirstOf, With
    <2>5. Sequence(s) /\ DOMAIN s = 1..m /\ Len(s) = m /\ \A i \in 1..m : s[i] = stack[i]
      BY ONLY <2>3, <2>4, StackAfter
    <2>6. /\ Sequence(t) /\ DOMAIN t = 1..(m + 1) /\ Len(t) = m + 1 /\ t # <<>>
          /\ t[m + 1] = val /\ \A i \in 1..m : t[i] = stack[i]
      BY ONLY <2>3, <2>4, StackAfter
    <2>. QED BY ONLY <2>3, <2>5, <2>6
  <1>3. \A i \in 1..m : i \in DOMAIN stack
    <2>1. m \in Nat /\ Len(stack) \in Nat /\ n \in Nat /\ m = Len(stack) - n
      BY <1>1, <1>2, <1>16
    <2>2. m <= Len(stack)
      BY ONLY <2>1
    <2>. QED BY ONLY <1>1, <2>1, <2>2
  <1>4. Memory(heap, frame, store, s)
    BY <1>1, <1>2, <1>3, Dropped
  <1>5. \A b \in DOMAIN heap : (Elsewhere(b, store) /\ Elsewhere(b, s)) \/ b \notin D
    BY <1>2, <1>16 DEF Unowned, Elsewhere
  <1>6. \A v \in Vars : IsVector(store[v]) =>
            store[v].block \in DOMAIN heap /\ h[store[v].block] = heap[store[v].block]
                /\ heap[store[v].block].live
    <2>1. TAKE v \in Vars
    <2>2. IsVector(store[v]) => store[v].block \in DOMAIN heap /\ heap[store[v].block].live
      BY VariableAt
    <2>. QED BY <1>1, <1>5, <2>2 DEF Elsewhere
  <1>7. \A i \in DOMAIN s : IsVector(s[i]) =>
            s[i].block \in DOMAIN heap /\ h[s[i].block] = heap[s[i].block] /\ heap[s[i].block].live
    <2>1. TAKE i \in DOMAIN s
    <2>2. IsVector(stack[i]) => LiveVector(heap, stack[i])
      BY <1>2, <1>3, OperandAt
    <2>. QED BY <1>2, <1>5, <2>2 DEF Elsewhere, LiveVector, Live
  <1>8. Memory(h, frame, store, s)
    BY <1>4, <1>6, <1>7, HeapAfter
  <1>9. Memory(h, f, store, s)
    <2>1. \A x \in DOMAIN f : /\ FieldsOK(f[x], h)
                              /\ \A i \in {1, 2} : IsVector(f[x][i]) =>
                                    Elsewhere(f[x][i].block, store) /\ Elsewhere(f[x][i].block, s)
      <3>1. TAKE x \in DOMAIN f
      <3>2. CASE x \in DOMAIN frame
        <4>1. PICK F : F = f[x]
          OBVIOUS
        <4>2. FieldsOK(F, h) /\ Apart(F, store) /\ Apart(F, s)
          BY <1>8, <3>2, <4>1 DEF Memory, GrownFrame
        <4>3. \A i \in {1, 2} : IsVector(F[i]) => Elsewhere(F[i].block, store) /\ Elsewhere(F[i].block, s)
          BY <4>2 DEF FieldsOK, Apart, Elsewhere
        <4>. QED BY <4>1, <4>2, <4>3
      <3>3. CASE x \notin DOMAIN frame
        <4>1. PICK F : F = f[x]
          OBVIOUS
        <4>2. FieldsOK(F, h) /\ \A i \in {1, 2} : IsVector(F[i]) => Unowned(F[i].block, n)
          BY <3>3, <4>1 DEF GrownFrame
        <4>3. \A b : Unowned(b, n) => Elsewhere(b, store) /\ Elsewhere(b, s)
          BY <1>2, <1>16 DEF Unowned, Elsewhere
        <4>. QED BY <4>1, <4>2, <4>3
      <3>. QED BY <3>2, <3>3
    <2>. QED BY <1>8, <2>1, FrameAfter DEF GrownFrame
  <1>10. Memory(h, f, store, t)
    <2>1. IsVector(val) => /\ Elsewhere(val.block, store) /\ Elsewhere(val.block, s)
                           /\ \A x \in DOMAIN f : Elsewhere(val.block, f[x])
      BY <1>2, <1>16 DEF Unowned, Elsewhere
    <2>2. \A i \in 1..m : t[i] = s[i]
      BY <1>2
    <2>. QED BY <1>2, <1>9, <2>1, <2>2, Pushed
  <1>11. Settle(h, f, store, t, "running") /\ Len(t) <= Depth
    <2>1. Append(Popped(n), val) = t
      BY <1>16 DEF Popped
    <2>2. m < Depth /\ m \in Nat /\ Depth \in Nat /\ Len(t) = m + 1
      BY <1>2, <1>16, VectorCodeAssumption
    <2>3. Len(t) <= Depth
      BY ONLY <2>2
    <2>. QED BY <2>1, <2>3
  <1>18. ASSUME NEW x \in DOMAIN f, NEW i \in {1, 2}, IsVector(f[x][i]), Dangling = {},
                \A b \in D : InNoTuple(b)
         PROVE  h[f[x][i].block].live
    <2>1. CASE x \in DOMAIN frame
      <3>1. PICK F, b : F = frame[x] /\ b = F[i].block
        OBVIOUS
      <3>2. FieldsOK(F, heap) /\ F = f[x]
        BY <1>1, <2>1, <3>1 DEF Memory, GrownFrame
      <3>3. b \in DOMAIN heap
        BY <1>18, <3>1, <3>2, Kinds DEF FieldsOK, Field
      <3>4. heap[b].live
        BY <1>18, <3>3 DEF Dangling
      <3>5. b \notin D
        BY <1>18, <2>1, <3>1, <3>2 DEF InNoTuple, Elsewhere, FieldsOK
      <3>. QED BY <3>1, <3>2, <3>3, <3>4, <3>5
    <2>2. CASE x \notin DOMAIN frame
      BY <1>18, <2>2 DEF GrownFrame
    <2>. QED BY <2>1, <2>2
  <1>12. /\ VInv' /\ status' = "running"
         /\ lost' => \E b \in DOMAIN h \ Held(f, store, t) : h[b].live
         /\ \A x \in DOMAIN heap' : \E b \in Held(f, store, t) : heap'[x] = h[b]
         /\ \A v \in Vars : Kept(store[v], h, store'[v], heap')
    <2>1. "running" \in Status
      BY DEF Status
    <2>. QED BY ONLY <1>10, <1>11, <2>1, SettleKeeps
  <1>13. NoEffect
    BY <1>6, <1>12 DEF NoEffect, Kept, IsVector
  <1>14. /\ \A b : b \in Held(f, store, t) <=> \E p \in Pointers(store, t) : Points(p, f, b)
         /\ Held(f, store, t) \subseteq DOMAIN h
    BY <1>10, HeldOf DEF Held
  <1>15. /\ \A p \in Pointers(store, t) :
                (\E v \in Vars : p = store[v]) \/ (\E i \in 1..m : p = stack[i]) \/ p = val
         /\ \A v \in Vars : store[v] \in Pointers(store, t)
         /\ \A i \in 1..m : stack[i] \in Pointers(store, t)
         /\ val \in Pointers(store, t)
    <2>1. \A p : p \in Pointers(store, t) <=> (\E v \in Vars : p = store[v]) \/ \E i \in DOMAIN t : p = t[i]
      BY <1>1 DEF Pointers, Range
    <2>2. \A i \in DOMAIN t : i \in 1..m \/ i = m + 1
      BY <1>2
    <2>3. \A i \in 1..m : i \in DOMAIN t
      BY <1>2
    <2>4. m + 1 \in DOMAIN t
      BY <1>2
    <2>5. \A p \in Pointers(store, t) :
              (\E v \in Vars : p = store[v]) \/ (\E i \in 1..m : p = stack[i]) \/ p = val
      <3>1. TAKE p \in Pointers(store, t)
      <3>2. (\E v \in Vars : p = store[v]) \/ \E i \in DOMAIN t : p = t[i]
        BY <2>1
      <3>3. ASSUME NEW i \in DOMAIN t, p = t[i] PROVE (\E j \in 1..m : p = stack[j]) \/ p = val
        BY <1>2, <2>2, <3>3
      <3>. QED BY <3>2, <3>3
    <2>6. \A i \in 1..m : stack[i] \in Pointers(store, t)
      BY <1>2, <2>1, <2>3
    <2>. QED BY <1>2, <2>1, <2>4, <2>5, <2>6
  <1>19. ASSUME NEW p, p.struct \in DOMAIN frame, ~IsVector(p), NEW b, Points(p, f, b),
                Dangling = {}, \A c \in D : InNoTuple(c)
         PROVE  h[b].live
    <2>1. PICK x : x = p.struct
      OBVIOUS
    <2>2. PICK i \in {1, 2} : IsVector(f[x][i]) /\ f[x][i].block = b
      BY <1>19, <2>1 DEF Points
    <2>3. x \in DOMAIN f
      BY <1>19, <2>1 DEF GrownFrame
    <2>. QED BY <1>18, <1>19, <2>2, <2>3
  <1>17. ASSUME Dangling = {}, \A b \in D : InNoTuple(b) PROVE Dangling' = {}
    <2>1. ASSUME NEW b \in Held(f, store, t) PROVE h[b].live
      <3>1. PICK p \in Pointers(store, t) : Points(p, f, b)
        BY <1>14
      <3>2. CASE \E v \in Vars : p = store[v]
        <4>1. PICK v \in Vars : p = store[v]
          BY <3>2
        <4>2. CASE IsVector(p)
          BY <1>6, <3>1, <4>1, <4>2, Kinds DEF Points
        <4>3. CASE ~IsVector(p)
          <5>1. IsTuple(p) /\ p.struct \in DOMAIN frame
            BY <3>1, <4>1, <4>3, VariableAt DEF Points
          <5>. QED BY <1>17, <1>19, <3>1, <4>3, <5>1
        <4>. QED BY <4>2, <4>3
      <3>3. CASE \E i \in 1..m : p = stack[i]
        <4>1. PICK i \in 1..m : p = stack[i]
          BY <3>3
        <4>2. CASE IsVector(p)
          BY <1>2, <1>7, <3>1, <4>1, <4>2, Kinds DEF Points
        <4>3. CASE ~IsVector(p)
          <5>1. IsTuple(p) /\ p.struct \in DOMAIN frame
            BY <1>3, <3>1, <4>1, <4>3, OperandAt DEF Points
          <5>. QED BY <1>17, <1>19, <3>1, <4>3, <5>1
        <4>. QED BY <4>2, <4>3
      <3>4. CASE p = val
        <4>1. CASE IsVector(val)
          <5>1. LiveVector(h, val) /\ ~IsTuple(val)
            BY <4>1, Kinds DEF Operand
          <5>. QED BY <3>1, <3>4, <5>1 DEF Points, LiveVector, Live
        <4>2. CASE ~IsVector(val)
          <5>1. IsTuple(val) /\ val.struct \in DOMAIN f
            BY <3>1, <3>4, <4>2, Kinds DEF Points, Operand, LiveVector
          <5>2. PICK x : x = val.struct
            OBVIOUS
          <5>3. PICK i \in {1, 2} : IsVector(f[x][i]) /\ f[x][i].block = b
            BY <3>1, <3>4, <4>2, <5>2 DEF Points
          <5>. QED BY <1>17, <1>18, <5>1, <5>2, <5>3
        <4>. QED BY <4>1, <4>2
      <3>. QED BY <1>15, <3>2, <3>3, <3>4
    <2>. QED BY <1>12, <2>1 DEF Dangling
  <1>20. ASSUME \A b \in DOMAIN h : h[b].live => b \in DOMAIN heap \ D \/ Points(val, f, b),
                \A i \in DOMAIN stack : i > m => \A b : Points(stack[i], frame, b) => b \in D
         PROVE  ~lost'
    <2>1. ASSUME NEW b \in DOMAIN h \ Held(f, store, t), h[b].live PROVE FALSE
      <3>1. ~Points(val, f, b)
        BY <1>14, <1>15, <2>1
      <3>2. b \in DOMAIN heap /\ b \notin D
        BY <1>20, <2>1, <3>1
      <3>3. PICK p \in Pointers(store, stack) : Points(p, frame, b)
        BY <1>1, <3>2
      <3>4. ASSUME p \in Pointers(store, t) PROVE FALSE
        <4>1. Points(p, f, b)
          <5>1. IsTuple(p) => p.struct \in DOMAIN frame
            BY <1>1, <3>3, PointersOf
          <5>. QED BY <3>3, <5>1 DEF Points, GrownFrame
        <4>. QED BY <1>14, <2>1, <3>4, <4>1
      <3>5. CASE \E v \in Vars : p = store[v]
        BY <1>15, <3>4, <3>5
      <3>6. CASE \E i \in DOMAIN stack : p = stack[i]
        <4>1. PICK i \in DOMAIN stack : p = stack[i]
          BY <3>6
        <4>2. i \in 1..m \/ i > m
          <5>1. i \in 1..Len(stack) /\ m \in Nat
            BY <1>1, <1>2
          <5>. QED BY ONLY <5>1
        <4>. QED BY <1>15, <1>20, <3>2, <3>3, <3>4, <4>1, <4>2
      <3>. QED BY <1>1, <3>5, <3>6 DEF Pointers, Range
    <2>. QED BY <1>12, <2>1
  <1>. QED BY <1>12, <1>13, <1>16, <1>17, <1>20

\* A step that ends in one of E, changes no vector variable, and frees
\* nothing that is in use.
Tame(E) ==
    /\ VInv' /\ NoEffect /\ status' \in E \cup {"running"}
    /\ Dangling = {} => Dangling' = {}

LEMMA StopIsTame ==
    ASSUME NEW E, NEW e \in E, E \subseteq AnyEnd, e # "no", Stop(e)
    PROVE  Tame(E) /\ ~lost' /\ status' = e
  <1>1. e \in Status
    BY DEF AnyEnd, Outside, Harmless, Status, RuntimeError, Undefinedness
  <1>2. VInv' /\ status' = e /\ ~lost' /\ stack' = <<>> /\ AllLive'
    BY <1>1, StopKeeps
  <1>. QED BY <1>2 DEF Tame, NoEffect, Dangling, AllLive

\* A block that is not in the heap is nobody's.
LEMMA NewBlock ==
    ASSUME VInv, NEW n \in Nat, NEW b, b \notin DOMAIN heap
    PROVE  Unowned(b, n) /\ InNoTuple(b)
  <1>1. Elsewhere(b, store)
    BY VariableAt, Found DEF Elsewhere
  <1>2. \A i \in 1..(Len(stack) - n) : IsVector(stack[i]) => stack[i].block # b
    <2>1. TAKE i \in 1..(Len(stack) - n)
    <2>2. Len(stack) \in Nat /\ DOMAIN stack = 1..Len(stack)
      BY Found
    <2>3. i \in DOMAIN stack
      BY <2>2
    <2>4. IsVector(stack[i]) => LiveVector(heap, stack[i])
      BY <2>3, OperandAt
    <2>. QED BY <2>4 DEF LiveVector
  <1>3. InNoTuple(b)
    <2>1. SUFFICES ASSUME NEW s \in DOMAIN frame PROVE Elsewhere(b, frame[s])
      BY DEF InNoTuple
    <2>2. PICK F : F = frame[s]
      OBVIOUS
    <2>3. FieldsOK(F, heap)
      BY <2>2, Found DEF Memory
    <2>4. Elsewhere(b, F)
      BY <2>3, Kinds DEF FieldsOK, Field, Elsewhere
    <2>. QED BY <2>2, <2>4
  <1>. QED BY <1>1, <1>2, <1>3 DEF Unowned

\* The frame as it is.
LEMMA SameFrame ==
    ASSUME VInv, NEW h, NEW n
    PROVE  GrownFrame(frame, h, n)
  BY Found DEF GrownFrame, Memory

\* n operands give way to the result r.
LEMMA ResultStep ==
    ASSUME VInv, NEW n \in Nat, n <= Len(stack), Len(stack) - n < Depth,
           NEW D, NEW k, NEW E, E \subseteq AnyEnd, NEW r, Gives(heap, D, k, E, r),
           \A b \in D : Unowned(b, n),
           r.end = "no" => /\ Operand(r.val, r.heap, frame)
                           /\ IsVector(r.val) => Unowned(r.val.block, n) /\ InNoTuple(r.val.block),
           Evaluate(n, r)
    PROVE  /\ VInv' /\ NoEffect /\ status' \in E \cup {"running"}
           /\ Dangling = {} /\ (\A b \in D : InNoTuple(b)) => Dangling' = {}
           /\ Tidy(heap, D, r) /\ (\A i \in DOMAIN stack : i > Len(stack) - n =>
                                        \A b : Points(stack[i], frame, b) => b \in D) => ~lost'
  <1>1. CASE r.end # "no"
    <2>1. r.end \in E /\ Stop(r.end)
      BY <1>1 DEF Gives, Evaluate
    <2>. QED BY <1>1, <2>1, StopIsTame DEF Tame
  <1>2. CASE r.end = "no"
    <2>1. PICK h, val : h = r.heap /\ val = r.val
      OBVIOUS
    <2>2. /\ HeapOK(h) /\ DOMAIN heap \subseteq DOMAIN h /\ \A b \in DOMAIN heap \ D : h[b] = heap[b]
          /\ Operand(val, h, frame)
          /\ IsVector(val) => Unowned(val.block, n) /\ \A s \in DOMAIN frame : Elsewhere(val.block, frame[s])
          /\ Settle(h, frame, store, Append(Popped(n), val), "running")
      BY <1>2, <2>1 DEF Gives, Evaluate, InNoTuple
    <2>3. /\ VInv' /\ status' = "running" /\ NoEffect
          /\ Dangling = {} /\ (\A b \in D : InNoTuple(b)) => Dangling' = {}
          /\ /\ \A b \in DOMAIN h : h[b].live => b \in DOMAIN heap \ D \/ Points(val, frame, b)
             /\ \A i \in DOMAIN stack : i > Len(stack) - n =>
                   \A b : Points(stack[i], frame, b) => b \in D
             => ~lost'
      BY <2>2, SameFrame, ValueStep
    <2>4. Tidy(heap, D, r) => \A b \in DOMAIN h : h[b].live => b \in DOMAIN heap \ D \/ Points(val, frame, b)
      BY <1>2, <2>1 DEF Tidy, Points
    <2>. QED BY <2>3, <2>4
  <1>. QED BY <1>1, <1>2

\* The operands that give way are scalars and vectors; D are blocks of theirs.
LEMMA OperandsStep ==
    ASSUME VInv, NEW n \in Nat, n <= Len(stack), Len(stack) - n < Depth,
           NEW D, NEW k, NEW E, E \subseteq AnyEnd, NEW r, Gives(heap, D, k, E, r),
           OwnVector(heap, D, r) \/ OneScalar(r),
           \A b \in D : \E i \in DOMAIN stack :
                i > Len(stack) - n /\ IsVector(stack[i]) /\ stack[i].block = b,
           Evaluate(n, r)
    PROVE  /\ Tame(E)
           /\ Tidy(heap, D, r) /\ (\A i \in DOMAIN stack : i > Len(stack) - n =>
                    ~IsTuple(stack[i]) /\ (IsVector(stack[i]) => stack[i].block \in D)) => ~lost'
  <1>1. \A b \in D : Unowned(b, n) /\ InNoTuple(b)
    <2>1. TAKE b \in D
    <2>2. PICK i \in DOMAIN stack : i > Len(stack) - n /\ IsVector(stack[i]) /\ stack[i].block = b
      OBVIOUS
    <2>3. /\ Elsewhere(b, store) /\ \A s \in DOMAIN frame : Elsewhere(b, frame[s])
          /\ \A j \in DOMAIN stack \ {i} : IsVector(stack[j]) => stack[j].block # b
      BY <2>2, OperandAt
    <2>4. \A j \in 1..(Len(stack) - n) : j \in DOMAIN stack \ {i}
      <3>1. Len(stack) \in Nat /\ DOMAIN stack = 1..Len(stack)
        BY Found
      <3>. QED BY <2>2, <3>1
    <2>. QED BY <2>3, <2>4 DEF Unowned, InNoTuple
  <1>2. ASSUME r.end = "no"
        PROVE  /\ Operand(r.val, r.heap, frame)
               /\ IsVector(r.val) => Unowned(r.val.block, n) /\ InNoTuple(r.val.block)
    <2>1. CASE OneScalar(r)
      BY <1>2, <2>1, Kinds DEF OneScalar, Operand
    <2>2. CASE OwnVector(heap, D, r)
      <3>1. LiveVector(r.heap, r.val) /\ (r.val.block \in D \/ r.val.block \notin DOMAIN heap)
        BY <1>2, <2>2, MadeIsLive DEF OwnVector
      <3>2. Unowned(r.val.block, n) /\ InNoTuple(r.val.block)
        BY <1>1, <3>1, NewBlock
      <3>. QED BY <3>1, <3>2 DEF Operand
    <2>. QED BY <2>1, <2>2
  <1>3. /\ VInv' /\ NoEffect /\ status' \in E \cup {"running"}
        /\ Dangling = {} /\ (\A b \in D : InNoTuple(b)) => Dangling' = {}
        /\ Tidy(heap, D, r) /\ (\A i \in DOMAIN stack : i > Len(stack) - n =>
                                     \A b : Points(stack[i], frame, b) => b \in D) => ~lost'
    BY <1>1, <1>2, ResultStep
  <1>. QED BY <1>1, <1>3 DEF Tame, Points

LEMMA NoOperands ==
    ASSUME VInv, Push, NEW k, NEW E, E \subseteq AnyEnd, NEW r, Value(heap, {}, k, E, r), Evaluate(0, r)
    PROVE  Tame(E) /\ ~lost'
  <1>1. PICK D : D = {}
    OBVIOUS
  <1>2. Len(stack) \in Nat /\ DOMAIN stack = 1..Len(stack) /\ Len(stack) < Depth
    BY Found DEF Push
  <1>3. /\ 0 \in Nat /\ 0 <= Len(stack) /\ Len(stack) - 0 < Depth
        /\ \A i \in DOMAIN stack : ~(i > Len(stack) - 0)
    BY ONLY <1>2
  <1>4. Gives(heap, D, k, E, r) /\ (OwnVector(heap, D, r) \/ OneScalar(r)) /\ Tidy(heap, D, r)
    BY <1>1 DEF Value, Makes, Computes
  <1>. QED BY <1>1, <1>3, <1>4, OperandsStep

LEMMA OneOperand ==
    ASSUME VInv, Operands(1), NEW D, NEW k, NEW E, E \subseteq AnyEnd, NEW r,
           Gives(heap, D, k, E, r), OwnVector(heap, D, r) \/ OneScalar(r),
           D \subseteq VectorBlocks(Top), Evaluate(1, r)
    PROVE  /\ Tame(E)
           /\ Tidy(heap, D, r) /\ ~IsTuple(Top) /\ VectorBlocks(Top) \subseteq D => ~lost'
  <1>1. Len(stack) \in Nat /\ DOMAIN stack = 1..Len(stack) /\ Len(stack) <= Depth /\ Len(stack) >= 1
    BY Found DEF Operands
  <1>2. /\ 1 \in Nat /\ 1 <= Len(stack) /\ Len(stack) - 1 < Depth /\ Len(stack) \in DOMAIN stack
        /\ Len(stack) > Len(stack) - 1
        /\ \A i \in DOMAIN stack : i > Len(stack) - 1 => i = Len(stack)
    BY <1>1, VectorCodeAssumption
  <1>3. \A b \in D : \E i \in DOMAIN stack :
            i > Len(stack) - 1 /\ IsVector(stack[i]) /\ stack[i].block = b
    BY <1>2 DEF VectorBlocks, Top
  <1>. QED BY <1>2, <1>3, OperandsStep DEF VectorBlocks, Top

LEMMA TwoOperands ==
    ASSUME VInv, Operands(2), NEW D, NEW k, NEW E, E \subseteq AnyEnd, NEW r,
           Gives(heap, D, k, E, r), OwnVector(heap, D, r) \/ OneScalar(r),
           D \subseteq VectorBlocks(Below) \cup VectorBlocks(Top), Evaluate(2, r)
    PROVE  /\ Tame(E)
           /\ Tidy(heap, D, r) /\ ~IsTuple(Top) /\ ~IsTuple(Below)
                /\ VectorBlocks(Below) \cup VectorBlocks(Top) \subseteq D => ~lost'
  <1>1. Len(stack) \in Nat /\ DOMAIN stack = 1..Len(stack) /\ Len(stack) <= Depth /\ Len(stack) >= 2
    BY Found DEF Operands
  <1>2. /\ 2 \in Nat /\ 2 <= Len(stack) /\ Len(stack) - 2 < Depth
        /\ Len(stack) \in DOMAIN stack /\ Len(stack) - 1 \in DOMAIN stack
        /\ Len(stack) > Len(stack) - 2 /\ Len(stack) - 1 > Len(stack) - 2
        /\ \A i \in DOMAIN stack : i > Len(stack) - 2 => i = Len(stack) \/ i = Len(stack) - 1
    BY <1>1, VectorCodeAssumption
  <1>3. \A b \in D : \E i \in DOMAIN stack :
            i > Len(stack) - 2 /\ IsVector(stack[i]) /\ stack[i].block = b
    BY <1>2 DEF VectorBlocks, Top, Below
  <1>4. /\ Tame(E)
        /\ Tidy(heap, D, r) /\ (\A i \in DOMAIN stack : i > Len(stack) - 2 =>
                    ~IsTuple(stack[i]) /\ (IsVector(stack[i]) => stack[i].block \in D)) => ~lost'
    BY <1>2, <1>3, OperandsStep
  <1>5. ASSUME ~IsTuple(Top), ~IsTuple(Below), VectorBlocks(Below) \cup VectorBlocks(Top) \subseteq D
        PROVE  \A i \in DOMAIN stack : i > Len(stack) - 2 =>
                    ~IsTuple(stack[i]) /\ (IsVector(stack[i]) => stack[i].block \in D)
    <2>1. \A p \in {Below, Top} : ~IsTuple(p) /\ (IsVector(p) => p.block \in D)
      BY <1>5 DEF VectorBlocks
    <2>. QED BY <1>2, <2>1 DEF Top, Below
  <1>. QED BY <1>4, <1>5

LEMMA TameWidens ==
    ASSUME NEW E, Tame(E), NEW F, E \subseteq F
    PROVE  Tame(F)
  BY DEF Tame

LEMMA Ends == {"no"} \subseteq Harmless /\ Harmless \subseteq Outside /\ Outside \subseteq AnyEnd
  BY DEF Harmless, Outside, AnyEnd

\* The last operand, and the last two.
LEMMA TopIs ==
    ASSUME VInv, Operands(1)
    PROVE  /\ Len(stack) \in DOMAIN stack /\ Operand(Top, heap, frame)
           /\ IsVector(Top) => LiveVector(heap, Top) /\ VectorBlocks(Top) = {Top.block}
           /\ IsScalar(Top) => Top.val \in Int /\ VectorBlocks(Top) = {} /\ ~IsTuple(Top)
           /\ IsTuple(Top) => Top = TupleAt(Top.struct) /\ Top.struct \in DOMAIN frame
                              /\ FieldsOK(frame[Top.struct], heap)
           /\ ~IsTuple(Top) => Usable(heap, Top)
  <1>1. Len(stack) \in DOMAIN stack
    BY Found DEF Operands
  <1>2. PICK p : p = Top
    OBVIOUS
  <1>3. p = stack[Len(stack)]
    BY <1>2 DEF Top
  <1>4. /\ Operand(p, heap, frame) /\ (IsVector(p) => LiveVector(heap, p))
        /\ IsTuple(p) => p = TupleAt(p.struct) /\ p.struct \in DOMAIN frame
                         /\ FieldsOK(frame[p.struct], heap)
        /\ IsScalar(p) => p.val \in Int
        /\ ~IsTuple(p) => Usable(heap, p)
    BY <1>1, <1>3, OperandAt
  <1>5. /\ IsVector(p) => VectorBlocks(p) = {p.block}
        /\ IsScalar(p) => VectorBlocks(p) = {} /\ ~IsTuple(p)
    BY Kinds DEF VectorBlocks
  <1>. QED BY <1>1, <1>2, <1>4, <1>5

LEMMA BelowIs ==
    ASSUME VInv, Operands(2)
    PROVE  /\ Operands(1) /\ Operand(Below, heap, frame)
           /\ IsVector(Below) => LiveVector(heap, Below) /\ VectorBlocks(Below) = {Below.block}
           /\ IsScalar(Below) => Below.val \in Int /\ VectorBlocks(Below) = {} /\ ~IsTuple(Below)
           /\ IsTuple(Below) => Below = TupleAt(Below.struct) /\ Below.struct \in DOMAIN frame
                                /\ FieldsOK(frame[Below.struct], heap)
           /\ ~IsTuple(Below) => Usable(heap, Below)
           /\ IsVector(Below) /\ IsVector(Top) => Below.block # Top.block
  <1>1. Len(stack) \in Nat /\ DOMAIN stack = 1..Len(stack) /\ Len(stack) >= 2
    BY Found DEF Operands
  <1>2. Operands(1)
    BY <1>1 DEF Operands
  <1>3. PICK i, j : i = Len(stack) - 1 /\ j = Len(stack)
    OBVIOUS
  <1>4. i \in DOMAIN stack /\ j \in DOMAIN stack /\ i # j
    <2>1. PICK L : L = Len(stack)
      OBVIOUS
    <2>2. L \in Nat /\ L >= 2 /\ i = L - 1 /\ j = L
      BY ONLY <1>1, <1>3, <2>1
    <2>3. i \in 1..L /\ j \in 1..L /\ i # j
      BY ONLY <2>2
    <2>. QED BY ONLY <1>1, <2>1, <2>3
  <1>5. PICK p, q : p = Below /\ q = Top
    OBVIOUS
  <1>6. p = stack[i] /\ q = stack[j]
    BY <1>3, <1>5 DEF Below, Top
  <1>7. /\ Operand(p, heap, frame) /\ (IsVector(p) => LiveVector(heap, p))
        /\ IsTuple(p) => p = TupleAt(p.struct) /\ p.struct \in DOMAIN frame
                         /\ FieldsOK(frame[p.struct], heap)
        /\ IsScalar(p) => p.val \in Int
        /\ ~IsTuple(p) => Usable(heap, p)
        /\ IsVector(p) => \A x \in DOMAIN stack \ {i} : IsVector(stack[x]) => stack[x].block # p.block
    BY <1>4, <1>6, OperandAt
  <1>8. /\ IsVector(p) => VectorBlocks(p) = {p.block}
        /\ IsScalar(p) => VectorBlocks(p) = {} /\ ~IsTuple(p)
    BY Kinds DEF VectorBlocks
  <1>9. IsVector(p) /\ IsVector(q) => p.block # q.block
    BY <1>4, <1>6, <1>7
  <1>. QED BY <1>2, <1>5, <1>7, <1>8, <1>9

\* A vector or scalar made of one operand, which is freed.
LEMMA UnaryStep ==
    ASSUME VInv, Operands(1), ~IsTuple(Top), NEW k, NEW r, Value(heap, VectorBlocks(Top), k, Harmless, r),
           Evaluate(1, r)
    PROVE  Tame(Harmless) /\ ~lost'
  <1>1. PICK D : D = VectorBlocks(Top)
    OBVIOUS
  <1>2. Gives(heap, D, k, Harmless, r) /\ (OwnVector(heap, D, r) \/ OneScalar(r)) /\ Tidy(heap, D, r)
    BY <1>1 DEF Value, Makes, Computes
  <1>. QED BY <1>1, <1>2, OneOperand, Ends

LEMMA ScalarIs ==
    ASSUME NEW b, NEW x
    PROVE  /\ IsScalar(ScalarOperand(ScalarOf(b, x)))
           /\ Computes(heap, {}, 0, {"no"}, Done(heap, ScalarOperand(ScalarOf(b, x))))
              \/ ~HeapOK(heap)
  <1>1. PICK s : s = ScalarOperand(ScalarOf(b, x))
    OBVIOUS
  <1>2. IsScalar(s)
    BY <1>1 DEF IsScalar, ScalarOperand
  <1>3. PICK r : r = Done(heap, s)
    OBVIOUS
  <1>. QED BY <1>1, <1>2, <1>3, DoneGives

LEMMA LiteralStep == ASSUME VInv, Literal PROVE Tame(Harmless) /\ ~lost'
  <1>1. PICK b \in Bases : \E x \in Values : Evaluate(0, Done(heap, ScalarOperand(ScalarOf(b, x))))
    BY DEF Literal
  <1>2. PICK x \in Values : Evaluate(0, Done(heap, ScalarOperand(ScalarOf(b, x))))
    BY <1>1
  <1>3. PICK r, E : r = Done(heap, ScalarOperand(ScalarOf(b, x))) /\ E = {"no"}
    OBVIOUS
  <1>4. Value(heap, {}, 0, E, r) /\ Push
    BY <1>3, ScalarIs, Found DEF Value, Literal
  <1>5. Tame(E) /\ ~lost'
    BY <1>2, <1>3, <1>4, Ends, NoOperands
  <1>. QED BY <1>3, <1>5, Ends, TameWidens

LEMMA LiteralIsSequence ==
    ASSUME NEW n, NEW elems \in SequencesUpTo(n), n \in Nat
    PROVE  Sequence(elems)
  <1>1. PICK k \in 0..n : elems \in [1..k -> Values]
    BY DEF SequencesUpTo
  <1>2. k \in Nat /\ DOMAIN elems = 1..k /\ elems = [i \in 1..k |-> elems[i]]
    BY <1>1
  <1>. QED BY <1>2 DEF Sequence

LEMMA VectorLiteralStep == ASSUME VInv, emitVectorLiteral PROVE Tame(Harmless) /\ ~lost'
  <1>1. PICK b \in Bases : \E elems \in SequencesUpTo(MaxSize) : Evaluate(0, createVector(heap, b, elems))
    BY DEF emitVectorLiteral
  <1>2. PICK elems \in SequencesUpTo(MaxSize) : Evaluate(0, createVector(heap, b, elems))
    BY <1>1
  <1>3. PICK r, E : r = createVector(heap, b, elems) /\ E = {"no"}
    OBVIOUS
  <1>4. Makes(heap, {}, 1, E, r) /\ Push
    BY <1>3, CreateVector, LiteralIsSequence, Found, VectorCodeAssumption DEF Makes, emitVectorLiteral
  <1>5. Tame(E) /\ ~lost'
    BY <1>2, <1>3, <1>4, Ends, NoOperands DEF Value
  <1>. QED BY <1>3, <1>5, Ends, TameWidens

LEMMA UnaryOpStep == ASSUME VInv, UnaryOp PROVE Tame(Harmless) /\ ~lost'
  <1>1. Operands(1) /\ ~IsTuple(Top)
    BY DEF UnaryOp
  <1>2. PICK op \in {"not", "-", "+"} : Evaluate(1, visitUnaryOp(op, Top))
    BY DEF UnaryOp
  <1>3. PICK r : r = visitUnaryOp(op, Top)
    OBVIOUS
  <1>4. Value(heap, VectorBlocks(Top), 2, Harmless, r)
    BY <1>1, <1>3, UnaryOpGives, TopIs, Found
  <1>. QED BY <1>1, <1>2, <1>3, <1>4, UnaryStep

LEMMA IndexStep == ASSUME VInv, Index PROVE Tame(Outside) /\ ~lost'
  <1>1. Operands(2) /\ IsVector(Below) /\ IsScalar(Top)
        /\ Evaluate(2, Then(loadArrVal(heap, Below, Top.val - 1), LAMBDA q : freeVector(q, Below)))
    BY DEF Index
  <1>2. PICK r, i, D : /\ r = Then(loadArrVal(heap, Below, i), LAMBDA q : freeVector(q, Below))
                       /\ i = Top.val - 1 /\ D = {Below.block}
    OBVIOUS
  <1>3. HeapOK(heap) /\ LiveVector(heap, Below) /\ i \in Int /\ ~IsTuple(Below) /\ ~IsTuple(Top)
        /\ VectorBlocks(Below) = D /\ VectorBlocks(Top) = {}
    BY <1>1, <1>2, TopIs, BelowIs, Found, Kinds
  <1>4. Computes(heap, D, 0, Outside, r)
    BY <1>2, <1>3, IndexGives
  <1>5. Gives(heap, D, 0, Outside, r) /\ OneScalar(r) /\ Tidy(heap, D, r)
    BY <1>4 DEF Computes
  <1>6. Evaluate(2, r)
    BY <1>1, <1>2
  <1>. QED BY <1>1, <1>3, <1>5, <1>6, Ends, TwoOperands

LEMMA RangeStep == ASSUME VInv, RangeNode PROVE Tame(Harmless) /\ ~lost'
  <1>1. Operands(2) /\ IsScalar(Below) /\ IsScalar(Top)
        /\ Evaluate(2, emitRangeVector(heap, Below.val, Top.val))
    BY DEF RangeNode
  <1>2. PICK r, x, y, D, E : /\ r = emitRangeVector(heap, x, y) /\ x = Below.val /\ y = Top.val
                             /\ D = {} /\ E = {"no"}
    OBVIOUS
  <1>3. HeapOK(heap) /\ Room(heap, 1) /\ x \in Int /\ y \in Int /\ ~IsTuple(Below) /\ ~IsTuple(Top)
        /\ VectorBlocks(Below) = D /\ VectorBlocks(Top) = D
    BY <1>1, <1>2, TopIs, BelowIs, Found
  <1>4. Makes(heap, D, 1, E, r)
    BY <1>2, <1>3, RangeMakes
  <1>5. Gives(heap, D, 1, E, r) /\ OwnVector(heap, D, r) /\ Tidy(heap, D, r)
    BY <1>4 DEF Makes
  <1>6. Evaluate(2, r) /\ E \subseteq AnyEnd /\ E \subseteq Harmless
    BY <1>1, <1>2, Ends
  <1>7. Tame(E) /\ ~lost'
    BY <1>1, <1>3, <1>5, <1>6, TwoOperands
  <1>. QED BY <1>6, <1>7, TameWidens

LEMMA ReverseStep == ASSUME VInv, ReverseCall PROVE Tame(Harmless) /\ ~lost'
  <1>1. Operands(1) /\ IsVector(Top) /\ ~IsTuple(Top) /\ Evaluate(1, reverseVector(heap, Top))
    BY Kinds DEF ReverseCall
  <1>2. PICK r : r = reverseVector(heap, Top)
    OBVIOUS
  <1>3. Makes(heap, VectorBlocks(Top), 1, Harmless, r)
    BY <1>1, <1>2, ReverseMakes, TopIs, Found
  <1>. QED BY <1>1, <1>2, <1>3, UnaryStep DEF Value

LEMMA GeneratorStep == ASSUME VInv, GeneratorNode PROVE Tame(Harmless) /\ ~lost'
  <1>1. Operands(1) /\ IsVector(Top) /\ ~IsTuple(Top)
    BY Kinds DEF GeneratorNode
  <1>2. PICK base \in Bases :
            \E body \in [Values -> {ScalarOf(base, x) : x \in Values \cap ValuesOf(base)}] :
                Evaluate(1, createVectorGenerator(heap, Top, base, body))
    BY DEF GeneratorNode
  <1>3. PICK body : Evaluate(1, createVectorGenerator(heap, Top, base, body))
    BY <1>2
  <1>4. PICK r : r = createVectorGenerator(heap, Top, base, body)
    OBVIOUS
  <1>5. Makes(heap, VectorBlocks(Top), 1, Harmless, r)
    BY <1>1, <1>4, GeneratorMakes, TopIs, Found
  <1>. QED BY <1>1, <1>3, <1>4, <1>5, UnaryStep DEF Value

LEMMA LengthStep == ASSUME VInv, LengthCall PROVE Tame(Harmless)
  <1>1. Operands(1) /\ IsVector(Top) /\ LiveVector(heap, Top)
    BY TopIs DEF LengthCall
  <1>2. PICK x, r, D, E : /\ x = getArrSize(heap, Top) /\ D = {} /\ E = {"no"}
                          /\ r = Done(heap, ScalarOperand(ScalarOf("integer", x)))
    OBVIOUS
  <1>3. Evaluate(1, r)
    BY <1>1, <1>2 DEF LengthCall, LiveVector
  <1>4. Computes(heap, D, 0, E, r)
    BY <1>2, ScalarIs, Found
  <1>5. Gives(heap, D, 0, E, r) /\ OneScalar(r) /\ D \subseteq VectorBlocks(Top)
        /\ E \subseteq AnyEnd /\ E \subseteq Harmless
    BY <1>2, <1>4, Ends DEF Computes
  <1>. QED BY <1>1, <1>3, <1>5, OneOperand, TameWidens

LEMMA FormatStep == ASSUME VInv, FormatCall PROVE Tame(Harmless)
  <1>1. Operands(1) /\ Evaluate(1, emitFormatScalar(heap, Top))
    BY DEF FormatCall
  <1>2. PICK elems, second : elems = [i \in 1..MaxSize |-> IF i = 1 THEN 1 ELSE 0] /\ second = <<1>>
    OBVIOUS
  <1>3. Sequence(elems) /\ Sequence(second)
    <2>1. Sequence(elems)
      BY <1>2, VectorCodeAssumption DEF Sequence
    <2>2. second \in Seq(Nat)
      BY <1>2
    <2>. QED BY <2>1, <2>2, SeqIsSequence
  <1>4. PICK p, q, r, D, E : /\ p = createVector(heap, "character", elems) /\ D = {} /\ E = {"no"}
                             /\ q = createVector(p.heap, "character", second)
                             /\ r = emitFormatScalar(heap, Top)
    OBVIOUS
  <1>5. r = p \/ r = q
    BY <1>2, <1>4 DEF emitFormatScalar
  <1>6. Gives(heap, D, 1, E, p) /\ OwnVector(heap, D, p) /\ p.end = "no"
    BY <1>3, <1>4, CreateVector, Found
  <1>7. Gives(p.heap, D, 1, E, q) /\ OwnVector(p.heap, D, q)
    <2>1. HeapOK(p.heap) /\ Room(p.heap, 1)
      BY <1>6, Found, HeapFinite, VectorMemoryAssumption DEF Gives, Room
    <2>. QED BY <1>3, <1>4, <2>1, CreateVector
  <1>8. Gives(heap, D, 2, E, q) /\ OwnVector(heap, D, q)
    <2>1. \A b \in DOMAIN heap : b \in D <=> b \in D \/ b \in D
      OBVIOUS
    <2>2. HeapOK(heap) /\ 1 \in Nat /\ 1 + 1 = 2
      BY Found
    <2>3. Gives(heap, D, 1 + 1, E, q) /\ OwnVector(heap, D, q)
      BY ONLY <1>6, <1>7, <2>1, <2>2, Chain
    <2>. QED BY ONLY <2>2, <2>3
  <1>9. D \subseteq VectorBlocks(Top) /\ E \subseteq AnyEnd /\ E \subseteq Harmless /\ Evaluate(1, r)
    BY <1>1, <1>4, Ends
  <1>10. Tame(E)
    <2>1. CASE r = p
      BY <1>1, <1>6, <1>9, <2>1, OneOperand
    <2>2. CASE r = q
      BY <1>1, <1>8, <1>9, <2>2, OneOperand
    <2>. QED BY <1>5, <2>1, <2>2
  <1>. QED BY <1>9, <1>10, TameWidens

LEMMA IdStep == ASSUME VInv, NEW v \in Vars, IdNode(v) PROVE Tame(Harmless) /\ ~lost'
  <1>1. Push /\ store[v].kind # "none" /\ Evaluate(0, emitLoadID(v))
    BY DEF IdNode
  <1>2. Variable(store[v], heap, frame) /\ HeapOK(heap) /\ Room(heap, 1)
    BY VariableAt, Found
  <1>3. PICK D, E : D = {} /\ E = {"no"}
    OBVIOUS
  <1>4. CASE IsVector(store[v])
    <2>1. PICK p, r : p = VectorAt(store[v].base, store[v].block) /\ r = cloneVector(heap, p)
      OBVIOUS
    <2>2. p.block \in DOMAIN heap /\ Live(heap, p)
      <3>1. p.block = store[v].block
        BY <2>1 DEF VectorAt
      <3>. QED BY <1>4, <3>1, VariableAt DEF Live
    <2>3. Makes(heap, D, 1, E, r)
      BY <1>2, <1>3, <2>1, <2>2, CloneVector
    <2>4. Evaluate(0, r)
      BY <1>1, <1>4, <2>1 DEF emitLoadID, loadVectorId
    <2>5. Tame(E) /\ ~lost'
      BY <1>1, <1>3, <2>3, <2>4, Ends, NoOperands DEF Value
    <2>. QED BY <1>3, <2>5, Ends, TameWidens
  <1>5. CASE ~IsVector(store[v])
    <2>1. store[v] = TupleAt(store[v].struct) /\ store[v].struct \in DOMAIN frame
      BY <1>1, <1>2, <1>5 DEF Variable, NotDeclared
    <2>2. PICK p, r : p = store[v] /\ r = Done(heap, p)
      OBVIOUS
    <2>3. Evaluate(0, r)
      BY <1>1, <1>5, <2>1, <2>2 DEF emitLoadID
    <2>4. /\ Gives(heap, D, 0, E, r) /\ r.end = "no" /\ r.val = p /\ r.heap = heap
          /\ Operand(p, heap, frame) /\ ~IsVector(p)
      <3>1. Gives(heap, {}, 0, {"no"}, r) /\ r.end = "no" /\ r.val = p /\ r.heap = heap
        <4>1. HeapOK(heap) /\ r = Done(heap, p)
          BY <1>2, <2>2
        <4>2. Gives(heap, {}, 0, {"no"}, r)
          BY ONLY <4>1, DoneGives
        <4>3. r.end = "no" /\ r.val = p /\ r.heap = heap
          BY ONLY <4>1 DEF Done
        <4>. QED BY ONLY <4>2, <4>3
      <3>2. Operand(p, heap, frame) /\ ~IsVector(p)
        BY <1>5, <2>1, <2>2 DEF Operand
      <3>. QED BY <1>3, <3>1, <3>2
    <2>5. Tidy(heap, D, r)
      BY <1>3, <2>4 DEF Tidy
    <2>6. Len(stack) \in Nat /\ DOMAIN stack = 1..Len(stack) /\ Len(stack) < Depth
      BY <1>1, Found DEF Push
    <2>7. /\ 0 \in Nat /\ 0 <= Len(stack) /\ Len(stack) - 0 < Depth
          /\ \A i \in DOMAIN stack : ~(i > Len(stack) - 0)
      BY ONLY <2>6
    <2>8. (\A b \in D : Unowned(b, 0) /\ InNoTuple(b)) /\ E \subseteq AnyEnd
      BY <1>3, Ends
    <2>9. /\ VInv' /\ NoEffect /\ status' \in E \cup {"running"}
          /\ Dangling = {} /\ (\A b \in D : InNoTuple(b)) => Dangling' = {}
          /\ Tidy(heap, D, r) /\ (\A i \in DOMAIN stack : i > Len(stack) - 0 =>
                                     \A b : Points(stack[i], frame, b) => b \in D) => ~lost'
      BY <2>3, <2>4, <2>7, <2>8, ResultStep
    <2>10. Tame(E) /\ ~lost'
      BY <2>5, <2>7, <2>8, <2>9 DEF Tame
    <2>. QED BY <1>3, <2>10, Ends, TameWidens
  <1>. QED BY <1>4, <1>5

LEMMA CastStep == ASSUME VInv, TypeCast PROVE Tame(Harmless) /\ ~lost'
  <1>1. Operands(1) /\ ~IsTuple(Top)
    BY DEF TypeCast
  <1>2. PICK base \in Bases, size \in {NoSize} \cup 0..MaxSize :
            IF IsVector(Top) THEN Evaluate(1, castVector(heap, Top, base, size))
            ELSE IF size = NoSize THEN Evaluate(1, Done(heap, ScalarOperand(typeCast(Top, base))))
            ELSE Evaluate(1, scalarToVector(heap, Top, size, base))
    BY DEF TypeCast
  <1>3. size \in Int
    BY VectorCodeAssumption DEF NoSize
  <1>4. HeapOK(heap) /\ Room(heap, 1) /\ Room(heap, 2)
    BY Found
  <1>5. CASE IsVector(Top)
    <2>1. PICK r : r = castVector(heap, Top, base, size)
      OBVIOUS
    <2>2. Makes(heap, VectorBlocks(Top), 2, Harmless, r)
      BY <1>1, <1>3, <1>4, <1>5, <2>1, CastVector, TopIs
    <2>. QED BY <1>1, <1>2, <1>5, <2>1, <2>2, UnaryStep DEF Value
  <1>6. CASE ~IsVector(Top) /\ size = NoSize
    <2>1. PICK s, r, D : /\ s = ScalarOperand(typeCast(Top, base)) /\ r = Done(heap, s)
                         /\ D = VectorBlocks(Top)
      OBVIOUS
    <2>2. IsScalar(s) /\ D = {}
      BY <1>6, <2>1 DEF IsScalar, ScalarOperand, VectorBlocks
    <2>3. Computes(heap, {}, 0, {"no"}, r)
      BY <1>4, <2>1, <2>2, DoneGives
    <2>4. PICK E : E = {"no"}
      OBVIOUS
    <2>5. Gives(heap, D, 0, E, r) /\ OneScalar(r) /\ Tidy(heap, D, r)
      BY <2>2, <2>3, <2>4 DEF Computes
    <2>6. Tame(E) /\ ~lost'
      BY <1>1, <1>2, <1>6, <2>1, <2>4, <2>5, Ends, OneOperand
    <2>. QED BY <2>4, <2>6, Ends, TameWidens
  <1>7. CASE ~IsVector(Top) /\ size # NoSize
    <2>1. PICK r : r = scalarToVector(heap, Top, size, base)
      OBVIOUS
    <2>2. Makes(heap, {}, 1, Harmless, r)
      BY <1>3, <1>4, <2>1, ScalarToVector
    <2>3. Makes(heap, VectorBlocks(Top), 1, Harmless, r)
      BY <1>7, <2>2 DEF VectorBlocks
    <2>. QED BY <1>1, <1>2, <1>7, <2>1, <2>3, UnaryStep DEF Value
  <1>. QED BY <1>5, <1>6, <1>7

LEMMA BinaryOpStep ==
    ASSUME VInv, NEW op \in BinaryOps, BinaryOp(op)
    PROVE  IF op = "by" THEN Tame(Outside) ELSE Tame(Harmless) /\ ~lost'
  <1>1. Operands(2) /\ Accepted(Below, Top, op) /\ Evaluate(2, visitBinaryOp(Below, Top, op))
    BY DEF BinaryOp
  <1>2. PICK l, r, res : l = Below /\ r = Top /\ res = visitBinaryOp(l, r, op)
    OBVIOUS
  <1>3. /\ ~IsTuple(l) /\ ~IsTuple(r) /\ Accepted(l, r, op) /\ Evaluate(2, res)
        /\ op = "by" => IsScalar(r)
    BY <1>1, <1>2 DEF Accepted
  <1>4. /\ Usable(heap, l) /\ Usable(heap, r) /\ (IsVector(l) /\ IsVector(r) => l.block # r.block)
        /\ op = "by" => r.val \in Int
    BY <1>1, <1>2, <1>3, TopIs, BelowIs
  <1>5. HeapOK(heap) /\ Room(heap, 3)
    BY Found
  <1>6. IF op = "by" THEN Makes(heap, {}, 2, Outside, res)
        ELSE Value(heap, VectorBlocks(l) \cup VectorBlocks(r), 3, Harmless, res)
    BY ONLY <1>2, <1>3, <1>4, <1>5, BinaryOpGives
  <1>7. CASE op = "by"
    <2>1. PICK D : D = {}
      OBVIOUS
    <2>2. Gives(heap, D, 2, Outside, res) /\ OwnVector(heap, D, res)
      BY <1>6, <1>7, <2>1 DEF Makes
    <2>3. D \subseteq VectorBlocks(Below) \cup VectorBlocks(Top)
      BY <2>1
    <2>. QED BY <1>1, <1>3, <1>7, <2>2, <2>3, Ends, TwoOperands
  <1>8. CASE op # "by"
    <2>1. PICK D : D = VectorBlocks(l) \cup VectorBlocks(r)
      OBVIOUS
    <2>2. Gives(heap, D, 3, Harmless, res) /\ (OwnVector(heap, D, res) \/ OneScalar(res))
          /\ Tidy(heap, D, res)
      BY <1>6, <1>8, <2>1 DEF Value, Makes, Computes
    <2>3. /\ D \subseteq VectorBlocks(Below) \cup VectorBlocks(Top)
          /\ VectorBlocks(Below) \cup VectorBlocks(Top) \subseteq D
          /\ ~IsTuple(Below) /\ ~IsTuple(Top)
      BY <1>2, <1>3, <2>1
    <2>. QED BY <1>1, <1>3, <1>8, <2>2, <2>3, Ends, TwoOperands
  <1>. QED BY <1>7, <1>8

\* The result of a call, when blocks of D were freed before.
CallEnds == {"no", "dead_frame"}

LEMMA CallStep ==
    ASSUME VInv, NEW n \in Nat, n <= Len(stack), Len(stack) - n < Depth,
           NEW D, NEW q, Gives(heap, D, 0, {"no"}, q), Room(q.heap, 1), \A b \in D : Unowned(b, n),
           CallResult(n, q.heap)
    PROVE  /\ VInv' /\ NoEffect /\ status' \in CallEnds \cup {"running"}
           /\ Dangling = {} /\ (\A b \in D : InNoTuple(b)) => Dangling' = {}
           /\ (\A b \in D : ~q.heap[b].live) /\ DOMAIN q.heap = DOMAIN heap /\
                (\A i \in DOMAIN stack : i > Len(stack) - n =>
                                        \A b : Points(stack[i], frame, b) => b \in D) => ~lost'
  <1>1. PICK g, E : g = q.heap /\ E = {"no"}
    OBVIOUS
  <1>2. /\ HeapOK(heap) /\ HeapOK(g) /\ Room(g, 1) /\ DOMAIN heap \subseteq DOMAIN g /\ q.end = "no"
        /\ Gives(heap, D, 0, E, q)
    BY <1>1, Found DEF Gives
  <1>3. ASSUME NEW r, NEW k, Gives(heap, D, k, E, r), r.end = "no" => Operand(r.val, r.heap, frame),
               IsVector(r.val) => Unowned(r.val.block, n) /\ InNoTuple(r.val.block), Evaluate(n, r),
               DOMAIN g = DOMAIN heap /\ (\A b \in D : ~g[b].live) => Tidy(heap, D, r)
        PROVE  /\ VInv' /\ NoEffect /\ status' \in CallEnds \cup {"running"}
               /\ Dangling = {} /\ (\A b \in D : InNoTuple(b)) => Dangling' = {}
               /\ (\A b \in D : ~g[b].live) /\ DOMAIN g = DOMAIN heap /\
                    (\A i \in DOMAIN stack : i > Len(stack) - n =>
                                        \A b : Points(stack[i], frame, b) => b \in D) => ~lost'
    <2>1. E \subseteq AnyEnd /\ E \subseteq CallEnds
      BY <1>1, Ends DEF CallEnds
    <2>2. /\ VInv' /\ NoEffect /\ status' \in E \cup {"running"}
          /\ Dangling = {} /\ (\A b \in D : InNoTuple(b)) => Dangling' = {}
          /\ Tidy(heap, D, r) /\ (\A i \in DOMAIN stack : i > Len(stack) - n =>
                                        \A b : Points(stack[i], frame, b) => b \in D) => ~lost'
      BY <1>3, <2>1, ResultStep
    <2>. QED BY <1>3, <2>1, <2>2
  <1>4. CASE \E b \in Bases, x \in Values : Evaluate(n, Done(g, ScalarOperand(ScalarOf(b, x))))
    <2>1. PICK b \in Bases, x \in Values : Evaluate(n, Done(g, ScalarOperand(ScalarOf(b, x))))
      BY <1>4
    <2>2. PICK s, r : s = ScalarOperand(ScalarOf(b, x)) /\ r = Done(g, s)
      OBVIOUS
    <2>3. IsScalar(s)
      BY <2>2 DEF IsScalar, ScalarOperand
    <2>4. r.end = "no" /\ r.val = s /\ r.heap = g /\ DOMAIN r = {"heap", "val", "end"}
      BY <2>2 DEF Done
    <2>5. Gives(heap, D, 0, E, r)
      BY <1>1, <1>2, <2>4 DEF Gives
    <2>6. DOMAIN g = DOMAIN heap /\ (\A c \in D : ~g[c].live) => Tidy(heap, D, r)
      BY <2>4 DEF Tidy
    <2>7. Operand(r.val, r.heap, frame) /\ ~IsVector(r.val)
      BY <2>3, <2>4, Kinds DEF Operand
    <2>. QED BY <1>1, <1>3, <2>1, <2>2, <2>5, <2>6, <2>7
  <1>5. CASE \E b \in Bases, elems \in SequencesUpTo(MaxSize) : Evaluate(n, createVector(g, b, elems))
    <2>1. PICK b \in Bases, elems \in SequencesUpTo(MaxSize) : Evaluate(n, createVector(g, b, elems))
      BY <1>5
    <2>2. PICK r, Z : r = createVector(g, b, elems) /\ Z = {}
      OBVIOUS
    <2>3. Sequence(elems)
      BY LiteralIsSequence, VectorCodeAssumption
    <2>4. /\ Gives(g, Z, 1, E, r) /\ OwnVector(g, Z, r) /\ Tidy(g, Z, r) /\ r.end = "no"
          /\ r.val.block \notin DOMAIN g
      BY <1>1, <1>2, <2>2, <2>3, CreateVector
    <2>5. Gives(heap, D, 0 + 1, E, r)
      <3>1. (\A c \in DOMAIN heap : c \in D <=> c \in D \/ c \in Z) /\ 0 \in Nat /\ 1 \in Nat
        BY <2>2
      <3>. QED BY ONLY <1>1, <1>2, <2>4, <3>1, Chain
    <2>6. LiveVector(r.heap, r.val) /\ r.val.block \notin DOMAIN heap
      BY <1>2, <2>4, MadeIsLive
    <2>7. Unowned(r.val.block, n) /\ InNoTuple(r.val.block) /\ Operand(r.val, r.heap, frame)
      BY <2>6, NewBlock DEF Operand
    <2>8. DOMAIN g = DOMAIN heap /\ (\A c \in D : ~g[c].live) => Tidy(heap, D, r)
      <3>1. \A c \in DOMAIN g : r.heap[c] = g[c]
        BY <2>2, <2>4 DEF Gives
      <3>. QED BY <2>2, <2>4, <3>1 DEF Tidy
    <2>. QED BY <1>1, <1>3, <2>1, <2>2, <2>5, <2>7, <2>8
  <1>6. CASE Stop("dead_frame")
    <2>1. "dead_frame" \in Status
      BY DEF Status, Undefinedness
    <2>2. VInv' /\ status' = "dead_frame" /\ ~lost' /\ stack' = <<>> /\ AllLive'
      BY <1>6, <2>1, StopKeeps
    <2>. QED BY <2>2 DEF NoEffect, Dangling, AllLive, CallEnds
  <1>. QED BY <1>1, <1>4, <1>5, <1>6 DEF CallResult

LEMMA CallFunctionStep == ASSUME VInv, CallFunction PROVE Tame(CallEnds)
  <1>1. PICK q, D, n : q = Done(heap, Nothing) /\ D = {} /\ n = Len(stack)
    OBVIOUS
  <1>2. /\ CallResult(n, heap) /\ n \in Nat /\ n <= Len(stack) /\ Len(stack) - n < Depth
        /\ HeapOK(heap) /\ Room(heap, 1)
    <2>1. Operands(1) /\ CallResult(n, heap)
      BY <1>1 DEF CallFunction
    <2>2. Len(stack) \in Nat /\ Len(stack) >= 1 /\ Len(stack) <= Depth /\ HeapOK(heap) /\ Room(heap, 1)
      BY <2>1, Found DEF Operands
    <2>. QED BY <1>1, <2>1, <2>2, VectorCodeAssumption
  <1>3. Gives(heap, {}, 0, {"no"}, q) /\ q.heap = heap
    BY <1>1, <1>2, DoneGives
  <1>4. Gives(heap, D, 0, {"no"}, q) /\ \A b \in D : Unowned(b, n) /\ InNoTuple(b)
    BY <1>1, <1>3
  <1>5. /\ VInv' /\ NoEffect /\ status' \in CallEnds \cup {"running"}
        /\ Dangling = {} /\ (\A b \in D : InNoTuple(b)) => Dangling' = {}
    BY <1>2, <1>3, <1>4, CallStep
  <1>. QED BY <1>4, <1>5 DEF Tame

---------------------------------------------------------------------------
(* Tuples.                                                                 *)

\* A struct is put where there is none.
LEMMA StructIsFresh ==
    ASSUME VInv, CanCreateStruct
    PROVE  FreshStruct \in 1..MaxStructs \ DOMAIN frame
  <1>. DEFINE S == 1..MaxStructs \ DOMAIN frame
  <1>1. DOMAIN frame \subseteq 1..MaxStructs
    BY Found DEF Memory
  <1>2. S \in SUBSET Nat
    BY VectorCodeAssumption
  <1>3. S # {}
    <2>1. SUFFICES ASSUME DOMAIN frame = 1..MaxStructs PROVE FALSE
      BY <1>1
    <2>2. Cardinality(1..MaxStructs) = MaxStructs
      BY FS_Interval, VectorCodeAssumption
    <2>. QED BY <2>1, <2>2, VectorCodeAssumption DEF CanCreateStruct
  <1>. HIDE DEF S
  <1>4. Min(S) \in S
    BY <1>2, <1>3, MinProps
  <1>. QED BY <1>4 DEF S, FreshStruct

\* The heap h has all of the heap, and the same but in the blocks of D, which
\* are those of the last n operands.
Grown(h, D, n) ==
    /\ HeapOK(h) /\ DOMAIN heap \subseteq DOMAIN h
    /\ \A b \in DOMAIN heap \ D : h[b] = heap[b]
    /\ \A b \in D : Unowned(b, n) /\ InNoTuple(b)

\* The last n operands have no other blocks.
Spent(D, n) == \A i \in DOMAIN stack : i > Len(stack) - n => \A b : Points(stack[i], frame, b) => b \in D

\* n operands give way to a tuple with the fields x and y.
LEMMA TupleStep ==
    ASSUME VInv, CanCreateStruct, NEW n \in Nat, n <= Len(stack), Len(stack) - n < Depth,
           NEW D, NEW h, Grown(h, D, n), NEW x, NEW y, Field(x, h), Field(y, h),
           IsVector(x) => h[x.block].live /\ Unowned(x.block, n),
           IsVector(y) => h[y.block].live /\ Unowned(y.block, n),
           EvaluateTuple(n, h, <<x, y>>)
    PROVE  /\ Tame({"no"})
           /\ /\ \A b \in DOMAIN h : h[b].live => \/ b \in DOMAIN heap \ D
                                                  \/ IsVector(x) /\ x.block = b
                                                  \/ IsVector(y) /\ y.block = b
              /\ Spent(D, n)
              => ~lost'
  <1>1. PICK fields, s : fields = <<x, y>> /\ s = FreshStruct
    OBVIOUS
  <1>2. PICK f, val : f = emitCreateTuple(fields) /\ val = TupleAt(s)
    OBVIOUS
  <1>3. DOMAIN fields = {1, 2} /\ fields[1] = x /\ fields[2] = y
    BY <1>1
  <1>4. /\ s \in 1..MaxStructs /\ s \notin DOMAIN frame /\ DOMAIN f = DOMAIN frame \cup {s}
        /\ f[s] = fields /\ \A z \in DOMAIN frame : f[z] = frame[z]
    <2>1. s = FreshStruct /\ f = emitCreateTuple(fields) /\ VInv /\ CanCreateStruct
      BY <1>1, <1>2
    <2>2. s \in 1..MaxStructs \ DOMAIN frame
      BY <2>1, StructIsFresh
    <2>3. f = [z \in DOMAIN frame \cup {s} |-> IF z = s THEN fields ELSE frame[z]]
      BY <2>1 DEF emitCreateTuple, Put
    <2>. QED BY ONLY <2>2, <2>3
  <1>5. FieldsOK(fields, h)
    BY <1>3 DEF FieldsOK
  <1>6. \A i \in {1, 2} : IsVector(fields[i]) => h[fields[i].block].live /\ Unowned(fields[i].block, n)
    BY <1>3
  <1>7. GrownFrame(f, h, n)
    <2>1. DOMAIN frame \subseteq 1..MaxStructs
      BY Found DEF Memory
    <2>. QED BY <1>4, <1>5, <1>6, <2>1 DEF GrownFrame
  <1>8. val.struct = s /\ IsTuple(val) /\ ~IsVector(val) /\ val = TupleAt(val.struct)
    BY <1>2 DEF TupleAt, IsTuple, IsVector
  <1>9. Operand(val, h, f)
    BY <1>4, <1>8 DEF Operand
  <1>10. Settle(h, f, store, Append(Popped(n), val), "running")
    BY <1>1, <1>2 DEF EvaluateTuple
  <1>11. /\ VInv' /\ status' = "running" /\ NoEffect
         /\ Dangling = {} /\ (\A b \in D : InNoTuple(b)) => Dangling' = {}
         /\ /\ \A b \in DOMAIN h : h[b].live => b \in DOMAIN heap \ D \/ Points(val, f, b)
            /\ \A i \in DOMAIN stack : i > Len(stack) - n =>
                  \A b : Points(stack[i], frame, b) => b \in D
            => ~lost'
    BY <1>7, <1>8, <1>9, <1>10, ValueStep DEF Grown
  <1>12. \A b : (IsVector(x) /\ x.block = b) \/ (IsVector(y) /\ y.block = b) => Points(val, f, b)
    BY <1>3, <1>4, <1>8 DEF Points
  <1>. QED BY <1>11, <1>12 DEF Tame, Spent, Grown

LEMMA TupleNodeStep == ASSUME VInv, TupleNode PROVE Tame(Harmless) /\ ~lost'
  <1>1. Operands(2) /\ CanCreateStruct /\ IsScalar(Below) /\ IsVector(Top)
    BY DEF TupleNode
  <1>2. PICK size \in {NoSize} \cup 0..MaxSize :
            LET r == IF size = NoSize THEN Done(heap, Top)
                     ELSE IF Live(heap, Top) /\ ~declVectorSizeCheck(size, getArrSize(heap, Top))
                     THEN Ended(heap, "SizeError")
                     ELSE transferVecElements(heap, Top, size)
            IN IF r.end # "no" THEN Stop(r.end) ELSE EvaluateTuple(2, r.heap, <<Below, r.val>>)
    BY DEF TupleNode
  <1>3. PICK r : r = IF size = NoSize THEN Done(heap, Top)
                     ELSE IF Live(heap, Top) /\ ~declVectorSizeCheck(size, getArrSize(heap, Top))
                     THEN Ended(heap, "SizeError")
                     ELSE transferVecElements(heap, Top, size)
    OBVIOUS
  <1>4. IF r.end # "no" THEN Stop(r.end) ELSE EvaluateTuple(2, r.heap, <<Below, r.val>>)
    BY <1>2, <1>3
  <1>5. PICK D : D = {Top.block}
    OBVIOUS
  <1>6. HeapOK(heap) /\ Room(heap, 1) /\ LiveVector(heap, Top) /\ ~IsTuple(Below) /\ ~IsVector(Below)
    BY <1>1, Found, BelowIs, TopIs, Kinds
  <1>7. Makes(heap, D, 1, Harmless, r)
    <2>1. CASE size = NoSize
      <3>1. Makes(heap, D, 0, {"no"}, r)
        BY <1>3, <1>5, <1>6, <2>1, DoneGives
      <3>2. 0 \in Nat /\ 1 \in Nat /\ 0 <= 1 /\ {"no"} \subseteq Harmless
        BY Ends
      <3>3. Gives(heap, D, 0, {"no"}, r) /\ OwnVector(heap, D, r) /\ Tidy(heap, D, r)
        BY <3>1 DEF Makes
      <3>4. Gives(heap, D, 1, Harmless, r)
        BY <1>6, <3>2, <3>3, Widen
      <3>. QED BY <3>3, <3>4 DEF Makes
    <2>2. CASE size # NoSize /\ ~declVectorSizeCheck(size, getArrSize(heap, Top))
      <3>1. r = Ended(heap, "SizeError") /\ "SizeError" \in Harmless
        BY <1>3, <1>6, <2>2 DEF LiveVector, Harmless
      <3>. QED BY <3>1, EndedGives
    <2>3. CASE size # NoSize /\ declVectorSizeCheck(size, getArrSize(heap, Top))
      <3>1. r = transferVecElements(heap, Top, size) /\ size \in Int
        <4>1. size \in Int
          BY VectorCodeAssumption DEF NoSize
        <4>. QED BY <1>3, <2>3, <4>1
      <3>2. ~(getArrSize(heap, Top) > size)
        <4>1. getArrSize(heap, Top) \in Nat
          BY <1>6, ElemsOfBlock DEF LiveVector
        <4>. QED BY <2>3, <3>1, <4>1 DEF declVectorSizeCheck
      <3>3. Makes(heap, D, 1, {"no"}, r)
        BY <1>5, <1>6, <3>1, <3>2, Transfer
      <3>. QED BY <3>3, Ends DEF Makes, Gives
    <2>. QED BY <2>1, <2>2, <2>3
  <1>8. Gives(heap, D, 1, Harmless, r) /\ OwnVector(heap, D, r) /\ Tidy(heap, D, r)
    BY <1>7 DEF Makes
  <1>9. CASE r.end # "no"
    BY <1>4, <1>8, <1>9, Ends, StopIsTame DEF Gives
  <1>10. CASE r.end = "no"
    <2>1. PICK h, y : h = r.heap /\ y = r.val
      OBVIOUS
    <2>2. /\ HeapOK(h) /\ DOMAIN heap \subseteq DOMAIN h /\ \A b \in DOMAIN heap \ D : h[b] = heap[b]
          /\ LiveVector(h, y) /\ y.block \notin DOMAIN heap \ D
          /\ \A b \in DOMAIN h : h[b].live => b \in DOMAIN heap \ D \/ (IsVector(y) /\ y.block = b)
      BY <1>8, <1>10, <2>1, MadeIsLive DEF Gives, OwnVector, Tidy
    <2>3. Len(stack) \in Nat /\ DOMAIN stack = 1..Len(stack) /\ Len(stack) <= Depth /\ Len(stack) >= 2
      BY <1>1, Found DEF Operands
    <2>4. /\ 2 \in Nat /\ 2 <= Len(stack) /\ Len(stack) - 2 < Depth
          /\ Len(stack) \in DOMAIN stack
          /\ \A i \in DOMAIN stack : i > Len(stack) - 2 => i = Len(stack) \/ i = Len(stack) - 1
          /\ \A i \in 1..(Len(stack) - 2) : i \in DOMAIN stack \ {Len(stack)}
      <3>1. PICK L : L = Len(stack)
        OBVIOUS
      <3>2. L \in Nat /\ DOMAIN stack = 1..L /\ L <= Depth /\ L >= 2 /\ Depth \in Nat
        BY <2>3, <3>1, VectorCodeAssumption
      <3>3. /\ 2 \in Nat /\ 2 <= L /\ L - 2 < Depth /\ L \in DOMAIN stack
            /\ \A i \in DOMAIN stack : i > L - 2 => i = L \/ i = L - 1
        BY ONLY <3>2
      <3>4. \A i \in 1..(L - 2) : i \in DOMAIN stack \ {L}
        BY ONLY <3>2
      <3>. QED BY ONLY <3>1, <3>3, <3>4
    <2>5. /\ Elsewhere(Top.block, store) /\ InNoTuple(Top.block)
          /\ \A j \in DOMAIN stack \ {Len(stack)} : IsVector(stack[j]) => stack[j].block # Top.block
      <3>1. PICK L : L = Len(stack)
        OBVIOUS
      <3>2. Top = stack[L] /\ L \in DOMAIN stack
        BY <2>4, <3>1 DEF Top
      <3>. QED BY <1>1, <3>1, <3>2, OperandAt DEF InNoTuple
    <2>6. \A b \in D : Unowned(b, 2) /\ InNoTuple(b)
      BY <1>5, <2>4, <2>5 DEF Unowned
    <2>7. Unowned(y.block, 2)
      BY <2>2, <2>4, <2>6, NewBlock
    <2>8. Field(Below, h) /\ Field(y, h) /\ IsVector(y) /\ h[y.block].live
      BY <1>1, <2>2 DEF Field, LiveVector, Live
    <2>9. EvaluateTuple(2, h, <<Below, y>>)
      BY <1>4, <1>10, <2>1
    <2>10. /\ Tame({"no"})
           /\ /\ \A b \in DOMAIN h : h[b].live => \/ b \in DOMAIN heap \ D
                                                  \/ IsVector(Below) /\ Below.block = b
                                                  \/ IsVector(y) /\ y.block = b
              /\ Spent(D, 2)
              => ~lost'
      <3>1. PICK x : x = Below
        OBVIOUS
      <3>2. /\ CanCreateStruct /\ 2 \in Nat /\ 2 <= Len(stack) /\ Len(stack) - 2 < Depth
            /\ Field(x, h) /\ Field(y, h) /\ ~IsVector(x)
            /\ IsVector(y) => h[y.block].live /\ Unowned(y.block, 2)
            /\ EvaluateTuple(2, h, <<x, y>>)
        BY <1>1, <1>6, <2>4, <2>7, <2>8, <2>9, <3>1
      <3>3. Grown(h, D, 2)
        BY <2>2, <2>6 DEF Grown
      <3>4. VInv
        OBVIOUS
      <3>. QED BY ONLY <3>1, <3>2, <3>3, <3>4, TupleStep
    <2>11. \A b : (Points(Below, frame, b) => b \in D) /\ (Points(Top, frame, b) => b \in D)
      BY <1>1, <1>5, <1>6, Kinds DEF Points
    <2>12. Spent(D, 2)
      BY <2>4, <2>11 DEF Below, Top, Spent
    <2>. QED BY <2>2, <2>10, <2>12, Ends, TameWidens
  <1>. QED BY <1>9, <1>10

\* A filter keeps its domain, and makes two vectors.
LEMMA FilterNodeStep == ASSUME VInv, FilterNode PROVE Tame(Harmless)
  <1>1. Operands(1) /\ CanCreateStruct /\ IsVector(Top)
    BY DEF FilterNode
  <1>2. PICK keep \in SUBSET Values :
            LET r1 == createFilter(heap, Top, keep)
                r2 == createFilter(r1.heap, Top, Values \ keep)
            IN IF r1.end # "no" THEN Stop(r1.end) ELSE EvaluateTuple(1, r2.heap, <<r1.val, r2.val>>)
    BY DEF FilterNode
  <1>3. PICK r1 : r1 = createFilter(heap, Top, keep)
    OBVIOUS
  <1>4. PICK g, rest, r2 : g = r1.heap /\ rest = Values \ keep /\ r2 = createFilter(g, Top, rest)
    OBVIOUS
  <1>5. IF r1.end # "no" THEN Stop(r1.end) ELSE EvaluateTuple(1, r2.heap, <<r1.val, r2.val>>)
    BY <1>2, <1>3, <1>4
  <1>6. HeapOK(heap) /\ Room(heap, 2) /\ Room(heap, 4) /\ LiveVector(heap, Top)
    BY <1>1, Found, TopIs
  <1>7. PICK D, E : D = {} /\ E = {"no"}
    OBVIOUS
  <1>8. Gives(heap, D, 2, E, r1) /\ OwnVector(heap, D, r1) /\ r1.end = "no"
        /\ r1.val.block \notin DOMAIN heap
    BY <1>3, <1>6, <1>7, FilterMakes DEF Makes
  <1>9. HeapOK(g) /\ Room(g, 2) /\ LiveVector(g, Top) /\ LiveVector(g, r1.val)
        /\ DOMAIN heap \subseteq DOMAIN g /\ \A b \in DOMAIN heap : g[b] = heap[b]
    <2>1. HeapOK(g) /\ Cardinality(DOMAIN g) <= Cardinality(DOMAIN heap) + 2
          /\ DOMAIN heap \subseteq DOMAIN g /\ \A b \in DOMAIN heap : g[b] = heap[b]
      BY <1>4, <1>7, <1>8 DEF Gives
    <2>2. Cardinality(DOMAIN heap) \in Nat /\ Cardinality(DOMAIN g) \in Nat
      BY <1>6, <2>1, HeapFinite
    <2>3. Room(g, 2)
      BY <1>6, <2>1, <2>2, VectorMemoryAssumption DEF Room
    <2>4. LiveVector(g, Top)
      BY <1>6, <2>1 DEF LiveVector, Live
    <2>. QED BY <1>4, <1>8, <2>1, <2>3, <2>4, MadeIsLive
  <1>10. Gives(g, D, 2, E, r2) /\ OwnVector(g, D, r2) /\ r2.end = "no" /\ r2.val.block \notin DOMAIN g
    BY <1>4, <1>7, <1>9, FilterMakes DEF Makes
  <1>11. PICK h, x, y : h = r2.heap /\ x = r1.val /\ y = r2.val
    OBVIOUS
  <1>12. HeapOK(h) /\ DOMAIN g \subseteq DOMAIN h /\ \A b \in DOMAIN g : h[b] = g[b]
    BY <1>7, <1>10, <1>11 DEF Gives
  <1>13. LiveVector(h, x) /\ LiveVector(h, y)
    BY <1>9, <1>10, <1>11, <1>12, MadeIsLive DEF LiveVector, Live
  <1>14. Grown(h, D, 1)
    BY <1>7, <1>9, <1>12 DEF Grown
  <1>15. Unowned(x.block, 1) /\ Unowned(y.block, 1)
    BY <1>8, <1>9, <1>10, <1>11, NewBlock
  <1>16. Len(stack) \in Nat /\ Len(stack) >= 1 /\ Len(stack) <= Depth /\ Depth \in Nat
    BY <1>1, Found, VectorCodeAssumption DEF Operands
  <1>17. 1 \in Nat /\ 1 <= Len(stack) /\ Len(stack) - 1 < Depth
    BY ONLY <1>16
  <1>18. /\ Field(x, h) /\ Field(y, h) /\ EvaluateTuple(1, h, <<x, y>>)
         /\ IsVector(x) => h[x.block].live /\ Unowned(x.block, 1)
         /\ IsVector(y) => h[y.block].live /\ Unowned(y.block, 1)
    BY <1>5, <1>8, <1>11, <1>13, <1>15 DEF Field, LiveVector, Live
  <1>19. VInv /\ CanCreateStruct
    BY <1>1
  <1>20. Tame({"no"})
    BY ONLY <1>14, <1>17, <1>18, <1>19, TupleStep
  <1>. QED BY <1>20, Ends, TameWidens

\* Of a tuple that is a variable, the fields are as in every tuple.
LEMMA TupleAccessStep ==
    ASSUME VInv, NEW v \in Vars, TupleAccessNode(v)
    PROVE  /\ Tame(AnyEnd) /\ ~lost' /\ status' \in {"running", "no_code", "use_after_free"}
           /\ status' = "use_after_free" => Dangling # {}
  <1>1. Push /\ IsTuple(store[v])
    BY DEF TupleAccessNode
  <1>2. PICK pos \in DOMAIN frame[store[v].struct] : Evaluate(0, emitTupleAccess(v, pos))
    BY DEF TupleAccessNode
  <1>3. PICK field, r : field = frame[store[v].struct][pos] /\ r = emitTupleAccess(v, pos)
    OBVIOUS
  <1>4. FieldsOK(frame[store[v].struct], heap) /\ HeapOK(heap) /\ Room(heap, 1)
    BY <1>1, VariableAt, Found
  <1>5. Field(field, heap)
    BY <1>2, <1>3, <1>4 DEF FieldsOK
  <1>6. PICK D : D = {}
    OBVIOUS
  <1>7. Len(stack) \in Nat /\ Len(stack) < Depth
    BY <1>1, Found DEF Push
  <1>8. CASE IsVector(field)
    <2>1. r = cloneVector(heap, field) /\ field.block \in DOMAIN heap
      BY <1>3, <1>5, <1>8, Kinds DEF emitTupleAccess, Field
    <2>2. CASE Live(heap, field)
      <3>1. PICK E : E = {"no"}
        OBVIOUS
      <3>2. Makes(heap, {}, 1, E, r)
        BY <1>4, <2>1, <2>2, <3>1, CloneVector
      <3>3. Tame(E) /\ ~lost'
        BY <1>1, <1>2, <1>3, <3>1, <3>2, Ends, NoOperands DEF Value
      <3>4. Tame(AnyEnd)
        BY <3>1, <3>3, Ends, TameWidens
      <3>5. status' = "running"
        <4>1. status' \in E \cup {"running"} /\ status' \in Status
          BY <3>3 DEF Tame, VInv, TypeOK
        <4>. QED BY <3>1, <4>1 DEF Status, RuntimeError, Undefinedness
      <3>. QED BY <3>3, <3>4, <3>5
    <2>3. CASE ~Live(heap, field)
      <3>1. r.end = "use_after_free" /\ r.end \in AnyEnd
        BY <2>1, <2>3 DEF cloneVector, Ended, AnyEnd
      <3>2. Stop(r.end)
        BY <1>2, <1>3, <3>1 DEF Evaluate
      <3>3. Tame(AnyEnd) /\ ~lost' /\ status' = r.end
        BY <3>1, <3>2, StopIsTame
      <3>4. field.block \in Dangling
        BY <2>1, <2>3 DEF Dangling, Live
      <3>. QED BY <3>1, <3>3, <3>4
    <2>. QED BY <2>2, <2>3
  <1>9. CASE ~IsVector(field)
    <2>1. r.end = "no_code" /\ r.end \in AnyEnd
      BY <1>3, <1>9 DEF emitTupleAccess, Ended, AnyEnd, Outside, Harmless
    <2>2. Stop(r.end)
      BY <1>2, <1>3, <2>1 DEF Evaluate
    <2>3. Tame(AnyEnd) /\ ~lost' /\ status' = r.end
      BY <2>1, <2>2, StopIsTame
    <2>. QED BY <2>1, <2>3
  <1>. QED BY <1>8, <1>9

\* The vector of a tuple is no variable's and no operand's.
LEMMA FieldIs ==
    ASSUME VInv, NEW s \in DOMAIN frame, NEW i \in {1, 2}, NEW p, p = frame[s][i]
    PROVE  /\ Field(p, heap)
           /\ IsVector(p) => /\ p.block \in DOMAIN heap
                             /\ \A n \in Nat : Unowned(p.block, n)
  <1>1. PICK F : F = frame[s]
    OBVIOUS
  <1>2. FieldsOK(F, heap) /\ Apart(F, store) /\ Apart(F, stack)
    BY <1>1, Found DEF Memory
  <1>3. Field(p, heap) /\ i \in DOMAIN F /\ p = F[i]
    BY <1>1, <1>2 DEF FieldsOK
  <1>4. ASSUME IsVector(p), NEW n \in Nat PROVE Unowned(p.block, n)
    <2>1. Elsewhere(p.block, store) /\ Elsewhere(p.block, stack)
      BY <1>2, <1>3, <1>4 DEF Apart, Elsewhere
    <2>2. \A j \in 1..(Len(stack) - n) : j \in DOMAIN stack
      <3>1. Len(stack) \in Nat /\ DOMAIN stack = 1..Len(stack)
        BY Found
      <3>. QED BY <3>1
    <2>. QED BY <2>1, <2>2 DEF Unowned, Elsewhere
  <1>5. IsVector(p) => p.block \in DOMAIN heap
    BY <1>3, Kinds DEF Field
  <1>. QED BY <1>3, <1>4, <1>5

\* One field compared with another.
FieldEq(h, x, y) ==
    IF IsScalar(x) THEN Done(h, ScalarOperand(emitEqualTo(x, y)))
    ELSE emitVectorEqualTo(h, x, VectorAt(x.base, y.block))

LEMMA FieldIsCompared ==
    ASSUME NEW h, HeapOK(h), NEW x, NEW y, Field(x, h), Field(y, h), x.kind = y.kind,
           NEW D, D = VectorBlocks(x) \cup VectorBlocks(y),
           NEW r, r = FieldEq(h, x, y)
    PROVE  Gives(h, D, 0, Wild, r) /\ OneScalar(r) /\ Tidy(h, D, r)
  <1>1. CASE IsScalar(x)
    <2>1. PICK v : v = ScalarOperand(emitEqualTo(x, y))
      OBVIOUS
    <2>2. IsScalar(v) /\ r = Done(h, v)
      BY <1>1, <2>1 DEF FieldEq, IsScalar, ScalarOperand
    <2>3. PICK E : E = {"no"}
      OBVIOUS
    <2>4. D = {}
      BY <1>1, Kinds DEF VectorBlocks, IsScalar, IsVector
    <2>5. Gives(h, D, 0, E, r) /\ OneScalar(r) /\ Tidy(h, D, r)
      <3>1. DOMAIN r = {"heap", "val", "end"} /\ r.end = "no" /\ r.val = v /\ r.heap = h
        BY <2>2 DEF Done
      <3>. QED BY <2>2, <2>3, <2>4, <3>1, HeapFinite DEF Gives, OneScalar, Tidy
    <2>. QED BY <2>3, <2>5 DEF Gives, Wild, Harmless
  <1>2. CASE ~IsScalar(x)
    <2>1. IsVector(x) /\ IsVector(y) /\ x.block \in DOMAIN h /\ y.block \in DOMAIN h
      BY <1>2 DEF Field, IsScalar, IsVector
    <2>2. PICK z : z = VectorAt(x.base, y.block)
      OBVIOUS
    <2>3. r = emitVectorEqualTo(h, x, z) /\ z.block = y.block
      BY <1>2, <2>2 DEF FieldEq, VectorAt
    <2>4. Computes(h, {x.block, z.block}, 0, Wild, r)
      BY <2>1, <2>3, FieldsAreCompared
    <2>5. D = {x.block, z.block}
      BY <2>1, <2>3 DEF VectorBlocks
    <2>. QED BY <2>4, <2>5 DEF Computes
  <1>. QED BY <1>1, <1>2

\* Both fields, one after the other.
LEMMA TuplesAreCompared ==
    ASSUME VInv, NEW l, NEW r, l.struct \in DOMAIN frame, r.struct \in DOMAIN frame,
           SameFields(frame[l.struct], frame[r.struct]),
           NEW lf, lf = frame[l.struct], NEW rf, rf = frame[r.struct],
           NEW D1, D1 = VectorBlocks(lf[1]) \cup VectorBlocks(rf[1]),
           NEW D2, D2 = VectorBlocks(lf[2]) \cup VectorBlocks(rf[2]),
           NEW D, D = D1 \cup D2,
           NEW res, res = emitTupleEqualTo(l, r)
    PROVE  Gives(heap, D, 0, Wild, res) /\ OneScalar(res) /\ Tidy(heap, D, res)
  <1>1. PICK p : p = FieldEq(heap, lf[1], rf[1])
    OBVIOUS
  <1>2. PICK q : q = FieldEq(p.heap, lf[2], rf[2])
    OBVIOUS
  <1>3. res = IF p.end = "no"
              THEN IF q.end = "no" THEN Done(q.heap, ScalarOperand(emitAnd(p.val, q.val))) ELSE q
              ELSE p
    BY <1>1, <1>2 DEF emitTupleEqualTo, Then, FieldEq
  <1>4. /\ Field(lf[1], heap) /\ Field(lf[2], heap) /\ Field(rf[1], heap) /\ Field(rf[2], heap)
        /\ DOMAIN lf = {1, 2} /\ HeapOK(heap)
    BY Found DEF Memory, FieldsOK
  <1>5. lf[1].kind = rf[1].kind /\ lf[2].kind = rf[2].kind
    BY <1>4 DEF SameFields
  <1>6. Gives(heap, D1, 0, Wild, p) /\ OneScalar(p) /\ Tidy(heap, D1, p)
    BY <1>1, <1>4, <1>5, FieldIsCompared
  <1>7. CASE p.end # "no"
    BY <1>3, <1>6, <1>7 DEF Gives, OneScalar, Tidy
  <1>8. CASE p.end = "no"
    <2>1. PICK g, E : g = p.heap /\ E = Wild
      OBVIOUS
    <2>2. HeapOK(g) /\ Field(lf[2], g) /\ Field(rf[2], g)
      BY <1>4, <1>6, <1>8, <2>1 DEF Gives, Field
    <2>3. Gives(g, D2, 0, E, q) /\ OneScalar(q) /\ Tidy(g, D2, q)
      BY <1>2, <1>5, <2>1, <2>2, FieldIsCompared
    <2>4. Gives(heap, D, 0, E, q) /\ Tidy(heap, D, q)
      <3>1. \A b \in DOMAIN heap : b \in D <=> b \in D1 \/ b \in D2
        OBVIOUS
      <3>2. 0 \in Nat /\ 0 + 0 = 0 /\ Gives(heap, D1, 0, E, p) /\ Tidy(heap, D1, p)
        BY <1>6, <2>1
      <3>3. ~IsVector(p.val) /\ Gives(p.heap, D2, 0, E, q) /\ Tidy(p.heap, D2, q)
        BY <1>6, <1>8, <2>1, <2>3, Kinds DEF OneScalar
      <3>4. Gives(heap, D, 0 + 0, E, q) /\ Tidy(heap, D, q)
        BY ONLY <1>4, <1>8, <3>1, <3>2, <3>3, Chain
      <3>. QED BY ONLY <3>2, <3>4
    <2>5. CASE q.end # "no"
      BY <1>3, <1>8, <2>1, <2>3, <2>4, <2>5
    <2>6. CASE q.end = "no"
      <3>1. PICK v : v = ScalarOperand(emitAnd(p.val, q.val))
        OBVIOUS
      <3>2. /\ DOMAIN res = {"heap", "val", "end"} /\ res.end = "no" /\ res.val = v
            /\ res.heap = q.heap /\ IsScalar(v) /\ ~IsVector(v)
        BY <1>3, <1>8, <2>6, <3>1, Kinds DEF Done, IsScalar, ScalarOperand
      <3>3. ~IsVector(q.val) /\ "no" \in Wild
        BY <2>3, <2>6, Kinds DEF OneScalar, Wild, Harmless
      <3>. QED BY <2>4, <2>6, <3>2, <3>3 DEF Gives, OneScalar, Tidy
    <2>. QED BY <2>5, <2>6
  <1>. QED BY <1>7, <1>8

\* The last n operands are tuples; the vectors of two of them were touched.
LEMMA TupleEqualityStep ==
    ASSUME VInv, TupleEquality
    PROVE  /\ VInv' /\ NoEffect /\ status' \in Wild \cup {"running"}
           /\ SameFields(frame[Below.struct], frame[Top.struct]) => ~lost'
  <1>1. Operands(2) /\ IsTuple(Below) /\ IsTuple(Top)
    BY DEF TupleEquality
  <1>2. PICK negated \in BOOLEAN : Evaluate(2, Then(emitTupleEqualTo(Below, Top), LAMBDA q :
            Done(q.heap, IF negated THEN ScalarOperand(emitUnaryNot(q.val)) ELSE q.val)))
    BY DEF TupleEquality
  <1>3. PICK l, r : l = Below /\ r = Top
    OBVIOUS
  <1>4. PICK p : p = emitTupleEqualTo(l, r)
    OBVIOUS
  <1>5. PICK res : res = IF p.end = "no"
                         THEN Done(p.heap, IF negated THEN ScalarOperand(emitUnaryNot(p.val)) ELSE p.val)
                         ELSE p
    OBVIOUS
  <1>6. Evaluate(2, res)
    BY <1>2, <1>3, <1>4, <1>5 DEF Then
  <1>7. /\ l = TupleAt(l.struct) /\ l.struct \in DOMAIN frame /\ FieldsOK(frame[l.struct], heap)
        /\ r = TupleAt(r.struct) /\ r.struct \in DOMAIN frame /\ FieldsOK(frame[r.struct], heap)
        /\ IsTuple(l) /\ IsTuple(r) /\ ~IsVector(l) /\ ~IsVector(r)
    BY <1>1, <1>3, TopIs, BelowIs, Kinds
  <1>8. PICK lf, rf : lf = frame[l.struct] /\ rf = frame[r.struct]
    OBVIOUS
  <1>9. PICK D1, D2 : /\ D1 = VectorBlocks(lf[1]) \cup VectorBlocks(rf[1])
                      /\ D2 = VectorBlocks(lf[2]) \cup VectorBlocks(rf[2])
    OBVIOUS
  <1>10. PICK D : D = IF SameFields(lf, rf) THEN D1 \cup D2 ELSE {}
    OBVIOUS
  <1>11. Gives(heap, D, 0, Wild, p) /\ OneScalar(p) /\ (SameFields(lf, rf) => Tidy(heap, D, p))
    <2>1. CASE SameFields(lf, rf)
      <3>1. D = D1 \cup D2
        BY <1>10, <2>1
      <3>. QED BY <1>4, <1>7, <1>8, <1>9, <2>1, <3>1, TuplesAreCompared
    <2>2. CASE ~SameFields(lf, rf)
      <3>1. PICK v : v = ScalarOperand(ScalarOf("boolean", 0))
        OBVIOUS
      <3>2. p = Done(heap, v)
        BY <1>4, <1>8, <2>2, <3>1 DEF emitTupleEqualTo
      <3>3. DOMAIN p = {"heap", "val", "end"} /\ p.end = "no" /\ p.val = v /\ p.heap = heap
            /\ IsScalar(v) /\ "no" \in Wild
        BY <3>1, <3>2 DEF Done, IsScalar, ScalarOperand, Wild, Harmless
      <3>. QED BY <1>10, <2>2, <3>3, Found, HeapFinite DEF Gives, OneScalar
    <2>. QED BY <2>1, <2>2
  <1>12. Gives(heap, D, 0, Wild, res) /\ OneScalar(res) /\ (SameFields(lf, rf) => Tidy(heap, D, res))
    <2>1. CASE p.end # "no"
      BY <1>5, <1>11, <2>1
    <2>2. CASE p.end = "no"
      <3>1. PICK v : v = IF negated THEN ScalarOperand(emitUnaryNot(p.val)) ELSE p.val
        OBVIOUS
      <3>2. IsScalar(v) /\ ~IsVector(v) /\ ~IsVector(p.val) /\ "no" \in Wild
        BY <1>11, <2>2, <3>1, Kinds DEF OneScalar, IsScalar, ScalarOperand, Wild, Harmless
      <3>3. DOMAIN res = {"heap", "val", "end"} /\ res.end = "no" /\ res.val = v /\ res.heap = p.heap
        BY <1>5, <2>2, <3>1 DEF Done
      <3>. QED BY <1>11, <2>2, <3>2, <3>3 DEF Gives, OneScalar, Tidy
    <2>. QED BY <2>1, <2>2
  <1>13. \A b \in D : Unowned(b, 2)
    <2>1. TAKE b \in D
    <2>2. PICK i \in {1, 2} : b \in VectorBlocks(lf[i]) \/ b \in VectorBlocks(rf[i])
      BY <1>9, <1>10
    <2>3. PICK s \in DOMAIN frame : b \in VectorBlocks(frame[s][i])
      BY <1>7, <1>8, <2>2
    <2>4. IsVector(frame[s][i]) /\ b = frame[s][i].block /\ 2 \in Nat
      BY <2>3 DEF VectorBlocks
    <2>. QED BY <2>4, FieldIs
  <1>14. Len(stack) \in Nat /\ DOMAIN stack = 1..Len(stack) /\ Len(stack) <= Depth /\ Len(stack) >= 2
         /\ Depth \in Nat
    BY <1>1, Found, VectorCodeAssumption DEF Operands
  <1>15. /\ 2 \in Nat /\ 2 <= Len(stack) /\ Len(stack) - 2 < Depth
         /\ \A i \in DOMAIN stack : i > Len(stack) - 2 => i = Len(stack) \/ i = Len(stack) - 1
    <2>1. PICK L : L = Len(stack)
      OBVIOUS
    <2>2. L \in Nat /\ DOMAIN stack = 1..L /\ L <= Depth /\ L >= 2 /\ Depth \in Nat
      BY <1>14, <2>1
    <2>3. /\ 2 <= L /\ L - 2 < Depth
          /\ \A i \in DOMAIN stack : i > L - 2 => i = L \/ i = L - 1
      BY ONLY <2>2
    <2>. QED BY ONLY <2>1, <2>3
  <1>16. /\ \A b : Points(l, frame, b) => b \in D1 \cup D2
         /\ \A b : Points(r, frame, b) => b \in D1 \cup D2
    BY <1>7, <1>8, <1>9 DEF Points, VectorBlocks
  <1>17. SameFields(lf, rf) => \A i \in DOMAIN stack : i > Len(stack) - 2 =>
                                   \A b : Points(stack[i], frame, b) => b \in D
    BY <1>3, <1>10, <1>15, <1>16 DEF Below, Top
  <1>18. PICK E : E = Wild
    OBVIOUS
  <1>19. E \subseteq AnyEnd
    BY <1>18 DEF Wild, AnyEnd, Outside
  <1>20. res.end = "no" => /\ Operand(res.val, res.heap, frame)
                           /\ IsVector(res.val) => Unowned(res.val.block, 2) /\ InNoTuple(res.val.block)
    BY <1>12, Kinds DEF OneScalar, Operand
  <1>21. /\ VInv' /\ NoEffect /\ status' \in E \cup {"running"}
         /\ Tidy(heap, D, res) /\ (\A i \in DOMAIN stack : i > Len(stack) - 2 =>
                                      \A b : Points(stack[i], frame, b) => b \in D) => ~lost'
    BY <1>6, <1>12, <1>13, <1>15, <1>18, <1>19, <1>20, ResultStep
  <1>. QED BY <1>3, <1>8, <1>12, <1>17, <1>18, <1>21

---------------------------------------------------------------------------
(* Owners.                                                                 *)

\* An entry of a place for each of its vectors.
LEMMA Entries ==
    ASSUME NEW places, NEW frm, NEW all, all = AllVectors(places, frm)
    PROVE  /\ \A q : q \in DOMAIN all <=>
                  \E x \in DOMAIN places : \E i \in DOMAIN VectorsOf(places[x], frm) : q = <<x, i>>
           /\ \A x \in DOMAIN places : \A i \in DOMAIN VectorsOf(places[x], frm) :
                  all[<<x, i>>] = VectorsOf(places[x], frm)[i]
  <1>1. PICK S : S = UNION {{x} \X DOMAIN VectorsOf(places[x], frm) : x \in DOMAIN places}
    OBVIOUS
  <1>2. all = [q \in S |-> VectorsOf(places[q[1]], frm)[q[2]]]
    BY <1>1 DEF AllVectors
  <1>3. \A q : q \in S <=>
            \E x \in DOMAIN places : \E i \in DOMAIN VectorsOf(places[x], frm) : q = <<x, i>>
    <2>1. \A x : \A q : q \in {x} \X DOMAIN VectorsOf(places[x], frm) <=>
                          \E i \in DOMAIN VectorsOf(places[x], frm) : q = <<x, i>>
      OBVIOUS
    <2>2. \A q : q \in S <=> \E x \in DOMAIN places : q \in {x} \X DOMAIN VectorsOf(places[x], frm)
      BY <1>1
    <2>. QED BY <2>1, <2>2
  <1>. QED BY <1>2, <1>3

\* The vectors a variable or an operand points to.
LEMMA VectorsAt ==
    ASSUME VInv, NEW p \in Pointers(store, stack), NEW vs, vs = VectorsOf(p, frame)
    PROVE  /\ TwoFields(p, frame) /\ DOMAIN vs \subseteq {1, 2}
           /\ \A i \in DOMAIN vs : IsVector(vs[i]) /\ vs[i].block \in DOMAIN heap
           /\ IsVector(p) => DOMAIN vs = {1} /\ vs[1] = p
           /\ IsTuple(p) => /\ p.struct \in DOMAIN frame
                            /\ DOMAIN vs = {i \in {1, 2} : IsVector(frame[p.struct][i])}
                            /\ \A i \in DOMAIN vs : vs[i] = frame[p.struct][i]
  <1>1. /\ IsTuple(p) => p = TupleAt(p.struct) /\ p.struct \in DOMAIN frame
                         /\ FieldsOK(frame[p.struct], heap)
        /\ IsVector(p) => p.block \in DOMAIN heap
    BY Found, PointersOf
  <1>2. TwoFields(p, frame)
    BY <1>1, FieldsAreTwo
  <1>3. CASE IsVector(p)
    <2>1. DOMAIN vs = {1} /\ vs[1] = p /\ ~IsTuple(p)
      BY <1>3, VectorsOfVector, Kinds
    <2>. QED BY <1>1, <1>2, <1>3, <2>1
  <1>4. CASE IsTuple(p)
    <2>1. /\ DOMAIN vs = {i \in {1, 2} : IsVector(frame[p.struct][i])}
          /\ \A i \in DOMAIN vs : vs[i] = frame[p.struct][i]
      BY <1>2, <1>4, VectorsOfTuple
    <2>2. \A i \in DOMAIN vs : IsVector(vs[i]) /\ vs[i].block \in DOMAIN heap
      <3>1. TAKE i \in DOMAIN vs
      <3>2. i \in {1, 2} /\ IsVector(frame[p.struct][i]) /\ vs[i] = frame[p.struct][i]
        BY <2>1
      <3>3. p.struct \in DOMAIN frame
        BY <1>1, <1>4
      <3>. QED BY <3>2, <3>3, FieldIs
    <2>3. ~IsVector(p)
      BY <1>4 DEF IsTuple, IsVector
    <2>. QED BY <1>1, <1>2, <1>4, <2>1, <2>2, <2>3
  <1>5. CASE ~IsVector(p) /\ ~IsTuple(p)
    BY <1>2, <1>5, VectorsOfOther
  <1>. QED BY <1>3, <1>4, <1>5

\* Everything a place has is a value of the subroutine.
Places(places) ==
    IsFiniteSet(DOMAIN places) /\ \A x \in DOMAIN places : places[x] \in Pointers(store, stack)

LEMMA PlacesOf ==
    ASSUME VInv
    PROVE  /\ Places(store) /\ Places(stack) /\ Places(Temporaries)
           /\ DOMAIN Temporaries = {i \in DOMAIN stack : ~IsVariable(stack[i])}
           /\ \A i \in DOMAIN Temporaries : Temporaries[i] = stack[i]
  <1>1. DOMAIN store = Vars /\ DOMAIN stack = 1..Len(stack) /\ Len(stack) \in Nat
    BY Found
  <1>2. IsFiniteSet(DOMAIN store) /\ IsFiniteSet(DOMAIN stack)
    BY <1>1, FS_Interval, VectorCodeAssumption
  <1>3. /\ \A v \in DOMAIN store : store[v] \in Pointers(store, stack)
        /\ \A i \in DOMAIN stack : stack[i] \in Pointers(store, stack)
    BY DEF Pointers, Range
  <1>4. /\ DOMAIN Temporaries = {i \in DOMAIN stack : ~IsVariable(stack[i])}
        /\ \A i \in DOMAIN Temporaries : Temporaries[i] = stack[i]
    BY DEF Temporaries, Restrict
  <1>5. IsFiniteSet(DOMAIN Temporaries)
    BY <1>2, <1>4, FS_Subset
  <1>. QED BY <1>2, <1>3, <1>4, <1>5 DEF Places

\* The entries of a block are finitely many.
LEMMA OwnersOf ==
    ASSUME VInv, NEW places, Places(places), NEW b, NEW own, own = Owners(places, b)
    PROVE  /\ IsFiniteSet(own) /\ Cardinality(own) \in Nat
           /\ \A q : q \in own <=>
                  \E x \in DOMAIN places : \E i \in DOMAIN VectorsOf(places[x], frame) :
                        q = <<x, i>> /\ VectorsOf(places[x], frame)[i].block = b
  <1>1. PICK all : all = AllVectors(places, frame)
    OBVIOUS
  <1>2. /\ \A q : q \in DOMAIN all <=>
                  \E x \in DOMAIN places : \E i \in DOMAIN VectorsOf(places[x], frame) : q = <<x, i>>
        /\ \A x \in DOMAIN places : \A i \in DOMAIN VectorsOf(places[x], frame) :
                  all[<<x, i>>] = VectorsOf(places[x], frame)[i]
    BY <1>1, Entries
  <1>3. own = {q \in DOMAIN all : all[q].block = b}
    BY <1>1 DEF Owners
  <1>4. \A q : q \in own <=>
            \E x \in DOMAIN places : \E i \in DOMAIN VectorsOf(places[x], frame) :
                q = <<x, i>> /\ VectorsOf(places[x], frame)[i].block = b
    BY <1>2, <1>3
  <1>5. own \subseteq (DOMAIN places) \X {1, 2}
    <2>1. SUFFICES ASSUME NEW q \in own PROVE q \in (DOMAIN places) \X {1, 2}
      OBVIOUS
    <2>2. PICK x \in DOMAIN places : \E i \in DOMAIN VectorsOf(places[x], frame) : q = <<x, i>>
      BY <1>4
    <2>3. places[x] \in Pointers(store, stack)
      BY DEF Places
    <2>4. DOMAIN VectorsOf(places[x], frame) \subseteq {1, 2}
      BY <2>3, VectorsAt
    <2>. QED BY <2>2, <2>4
  <1>6. IsFiniteSet((DOMAIN places) \X {1, 2})
    <2>1. IsFiniteSet({1, 2}) /\ IsFiniteSet(DOMAIN places)
      <3>1. PICK S : S = {1}
        OBVIOUS
      <3>2. IsFiniteSet(S) /\ {1, 2} = S \cup {2}
        BY <3>1, FS_Singleton
      <3>3. IsFiniteSet(S \cup {2})
        BY <3>2, FS_AddElement
      <3>. QED BY <3>2, <3>3 DEF Places
    <2>. QED BY <2>1, FS_Product
  <1>7. IsFiniteSet(own)
    BY <1>5, <1>6, FS_Subset
  <1>. QED BY <1>4, <1>7, FS_CardinalityType

\* A set with two elements has more than one.
LEMMA TwoOf ==
    ASSUME NEW S, IsFiniteSet(S), NEW x \in S, NEW y \in S, x # y
    PROVE  Cardinality(S) >= 2
  <1>1. PICK T : T = S \ {x}
    OBVIOUS
  <1>2. IsFiniteSet(T) /\ Cardinality(T) = Cardinality(S) - 1
    BY <1>1, FS_RemoveElement
  <1>3. T # {}
    BY <1>1
  <1>4. Cardinality(T) \in Nat /\ Cardinality(T) # 0 /\ Cardinality(S) \in Nat
    BY <1>2, <1>3, FS_EmptySet, FS_CardinalityType
  <1>. QED BY <1>2, <1>4

\* A block with two entries is not owned once.
LEMMA SharedIsNotOwned ==
    ASSUME VInv, NEW b, NEW places, places = store \/ places = Temporaries,
           NEW q \in Owners(places, b), NEW r \in Owners(places, b), q # r
    PROVE  ~Owned1(b)
  <1>1. PICK A, B : A = Owners(store, b) /\ B = Owners(Temporaries, b)
    OBVIOUS
  <1>2. /\ IsFiniteSet(A) /\ Cardinality(A) \in Nat /\ IsFiniteSet(B) /\ Cardinality(B) \in Nat
    BY <1>1, PlacesOf, OwnersOf
  <1>3. Cardinality(A) >= 2 \/ Cardinality(B) >= 2
    BY <1>1, <1>2, TwoOf
  <1>4. Cardinality(A) + Cardinality(B) # 1
    BY <1>2, <1>3
  <1>. QED BY <1>1, <1>4 DEF Owned1

\* A variable's vector is owned once.
LEMMA VariableIsOwned ==
    ASSUME VInv, NEW v \in Vars, IsVector(store[v])
    PROVE  Live(heap, store[v]) /\ Owned1(store[v].block)
  <1>1. PICK b : b = store[v].block
    OBVIOUS
  <1>2. /\ heap[b].live /\ Elsewhere(b, stack) /\ \A s \in DOMAIN frame : Elsewhere(b, frame[s])
        /\ \A u \in Vars \ {v} : IsVector(store[u]) => store[u].block # b
    BY <1>1, VariableAt
  <1>3. PICK A, B : A = Owners(store, b) /\ B = Owners(Temporaries, b)
    OBVIOUS
  <1>4. ASSUME NEW p \in Pointers(store, stack), NEW i \in DOMAIN VectorsOf(p, frame),
               VectorsOf(p, frame)[i].block = b
        PROVE  IsVector(p) /\ p.block = b /\ i = 1
    <2>1. CASE IsTuple(p)
      <3>1. /\ p.struct \in DOMAIN frame /\ i \in {1, 2}
            /\ IsVector(frame[p.struct][i]) /\ frame[p.struct][i].block = b
        <4>1. PICK vs : vs = VectorsOf(p, frame)
          OBVIOUS
        <4>2. i \in DOMAIN vs /\ vs[i].block = b
          BY <1>4, <4>1
        <4>3. /\ p.struct \in DOMAIN frame
              /\ DOMAIN vs = {j \in {1, 2} : IsVector(frame[p.struct][j])}
              /\ \A j \in DOMAIN vs : vs[j] = frame[p.struct][j]
          BY <1>4, <2>1, <4>1, VectorsAt
        <4>. QED BY <4>2, <4>3
      <3>2. Elsewhere(b, frame[p.struct]) /\ DOMAIN frame[p.struct] = {1, 2}
        BY <1>2, <3>1, Found DEF Memory, FieldsOK
      <3>. QED BY <3>1, <3>2 DEF Elsewhere
    <2>2. CASE IsVector(p)
      <3>1. DOMAIN VectorsOf(p, frame) = {1} /\ VectorsOf(p, frame)[1] = p
        BY <2>2, VectorsOfVector
      <3>. QED BY <1>4, <2>2, <3>1
    <2>3. CASE ~IsVector(p) /\ ~IsTuple(p)
      BY <1>4, <2>3, VectorsOfOther
    <2>. QED BY <2>1, <2>2, <2>3
  <1>5. A = {<<v, 1>>}
    <2>1. \A q : q \in A <=> \E x \in DOMAIN store : \E i \in DOMAIN VectorsOf(store[x], frame) :
                                q = <<x, i>> /\ VectorsOf(store[x], frame)[i].block = b
      BY <1>3, PlacesOf, OwnersOf
    <2>2. DOMAIN store = Vars /\ \A x \in Vars : store[x] \in Pointers(store, stack)
      BY Found DEF Pointers, Range
    <2>3. \A q : q \in A => q = <<v, 1>>
      <3>1. TAKE q
      <3>2. HAVE q \in A
      <3>3. PICK x \in Vars : \E i \in DOMAIN VectorsOf(store[x], frame) :
                                q = <<x, i>> /\ VectorsOf(store[x], frame)[i].block = b
        BY <2>1, <2>2, <3>2
      <3>4. PICK i \in DOMAIN VectorsOf(store[x], frame) :
                                q = <<x, i>> /\ VectorsOf(store[x], frame)[i].block = b
        BY <3>3
      <3>5. IsVector(store[x]) /\ store[x].block = b /\ i = 1
        BY <1>4, <2>2, <3>4
      <3>6. x = v
        BY <1>2, <3>5
      <3>. QED BY <3>4, <3>5, <3>6
    <2>4. <<v, 1>> \in A
      <3>1. DOMAIN VectorsOf(store[v], frame) = {1} /\ VectorsOf(store[v], frame)[1] = store[v]
        BY VectorsOfVector
      <3>. QED BY <1>1, <2>1, <2>2, <3>1
    <2>. QED BY <2>3, <2>4
  <1>6. B = {}
    <2>1. \A q : q \in B <=> \E x \in DOMAIN Temporaries :
                                \E i \in DOMAIN VectorsOf(Temporaries[x], frame) :
                                q = <<x, i>> /\ VectorsOf(Temporaries[x], frame)[i].block = b
      BY <1>3, PlacesOf, OwnersOf
    <2>2. ASSUME NEW x \in DOMAIN Temporaries, NEW i \in DOMAIN VectorsOf(Temporaries[x], frame),
                 VectorsOf(Temporaries[x], frame)[i].block = b
          PROVE  FALSE
      <3>1. x \in DOMAIN stack /\ Temporaries[x] = stack[x] /\ Temporaries[x] \in Pointers(store, stack)
        BY PlacesOf DEF Places
      <3>2. IsVector(stack[x]) /\ stack[x].block = b
        BY <1>4, <2>2, <3>1
      <3>. QED BY <1>2, <3>1, <3>2 DEF Elsewhere
    <2>. QED BY <2>1, <2>2
  <1>7. Cardinality(A) = 1 /\ Cardinality(B) = 0
    BY <1>5, <1>6, FS_Singleton, FS_EmptySet
  <1>8. Cardinality(A) + Cardinality(B) = 1
    BY <1>7
  <1>9. Owned1(b)
    BY <1>3, <1>8 DEF Owned1
  <1>. QED BY <1>1, <1>2, <1>9 DEF Live

\* Something was freed, or is shared.
Wrong == Dangling # {} \/ \E b \in DOMAIN heap : ~Owned1(b)

\* The vectors of an operand are freed.
LEMMA OperandIsFreed ==
    ASSUME VInv, Statement(1), NEW r, r = Freed1, NEW D, D = BlocksOf(VectorsOf(Top, frame))
    PROVE  /\ Changes(heap, D, {"no", "double_free"}, r)
           /\ \A b : b \in D <=> Points(Top, frame, b)
           /\ D \subseteq DOMAIN heap /\ \A b \in D : Unowned(b, 1)
           /\ ~IsTuple(Top) => \A b \in D : InNoTuple(b)
           /\ r.end = "no" => \A b \in D : ~r.heap[b].live
           /\ r.end # "no" => Wrong
  <1>1. PICK p, vs : p = Top /\ vs = VectorsOf(p, frame)
    OBVIOUS
  <1>2. Len(stack) = 1 /\ Operands(1)
    <2>1. 1 >= 1
      OBVIOUS
    <2>. QED BY <2>1 DEF Statement, Operands
  <1>3. p = stack[1] /\ 1 \in DOMAIN stack /\ p \in Pointers(store, stack) /\ HeapOK(heap)
        /\ DOMAIN stack = 1..1
    BY <1>1, <1>2, Found DEF Top, Pointers, Range
  <1>4. /\ TwoFields(p, frame) /\ DOMAIN vs \subseteq {1, 2}
        /\ \A i \in DOMAIN vs : IsVector(vs[i]) /\ vs[i].block \in DOMAIN heap
        /\ IsVector(p) => DOMAIN vs = {1} /\ vs[1] = p
        /\ IsTuple(p) => /\ p.struct \in DOMAIN frame
                         /\ DOMAIN vs = {i \in {1, 2} : IsVector(frame[p.struct][i])}
                         /\ \A i \in DOMAIN vs : vs[i] = frame[p.struct][i]
    BY <1>1, <1>3, VectorsAt
  <1>5. r = FreeAll(heap, vs) /\ D = BlocksOf(vs) /\ D \subseteq DOMAIN heap
    BY <1>1, <1>4 DEF Freed1, BlocksOf
  <1>6. \A b : b \in D <=> Points(Top, frame, b)
    <2>1. \A b : Points(p, frame, b) <=> \E i \in DOMAIN VectorsOf(p, frame) : VectorsOf(p, frame)[i].block = b
      BY <1>4, PointsIff
    <2>. QED BY <1>1, <1>5, <2>1 DEF BlocksOf
  <1>7. /\ Changes(heap, D, {"no", "double_free"}, r)
        /\ r.end = "no" => \A b \in D : ~r.heap[b].live
        /\ r.end # "no" => \E q \in DOMAIN vs :
                              \/ ~Live(heap, vs[q])
                              \/ \E s \in DOMAIN vs \ {q} : vs[s].block = vs[q].block
    BY <1>3, <1>5, FreeAllGives
  <1>8. CASE IsTuple(p)
    <2>1. \A b \in D : Unowned(b, 1)
      <3>1. TAKE b \in D
      <3>2. PICK i \in DOMAIN vs : vs[i].block = b
        BY <1>5 DEF BlocksOf
      <3>3. i \in {1, 2} /\ p.struct \in DOMAIN frame /\ IsVector(frame[p.struct][i])
            /\ frame[p.struct][i].block = b /\ 1 \in Nat
        BY <1>4, <1>8, <3>2
      <3>. QED BY <3>3, FieldIs
    <2>2. ASSUME r.end # "no" PROVE Wrong
      <3>1. PICK q \in DOMAIN vs : \/ ~Live(heap, vs[q])
                                   \/ \E s \in DOMAIN vs \ {q} : vs[s].block = vs[q].block
        BY <1>7, <2>2
      <3>2. PICK b : b = vs[q].block
        OBVIOUS
      <3>3. CASE ~Live(heap, vs[q])
        BY <1>4, <3>2, <3>3 DEF Live, Dangling, Wrong
      <3>4. CASE \E s \in DOMAIN vs \ {q} : vs[s].block = vs[q].block
        <4>1. PICK s \in DOMAIN vs \ {q} : vs[s].block = vs[q].block
          BY <3>4
        <4>2. PICK places, x : /\ places = store \/ places = Temporaries
                               /\ x \in DOMAIN places /\ places[x] = p
          <5>1. CASE IsVariable(p)
            BY <5>1, Found DEF IsVariable
          <5>2. CASE ~IsVariable(p)
            BY <1>3, <5>2, PlacesOf
          <5>. QED BY <5>1, <5>2
        <4>3. PICK own : own = Owners(places, b)
          OBVIOUS
        <4>4. \A e : e \in own <=>
                  \E y \in DOMAIN places : \E i \in DOMAIN VectorsOf(places[y], frame) :
                        e = <<y, i>> /\ VectorsOf(places[y], frame)[i].block = b
          BY <4>2, <4>3, PlacesOf, OwnersOf
        <4>5. <<x, q>> \in own /\ <<x, s>> \in own /\ <<x, q>> # <<x, s>>
          BY <1>1, <3>2, <4>1, <4>2, <4>4
        <4>6. ~Owned1(b)
          BY <4>2, <4>3, <4>5, SharedIsNotOwned
        <4>7. b \in DOMAIN heap
          BY <1>4, <3>2
        <4>. QED BY <4>6, <4>7 DEF Wrong
      <3>. QED BY <3>1, <3>3, <3>4
    <2>. QED BY <1>1, <1>5, <1>6, <1>7, <1>8, <2>1, <2>2
  <1>9. CASE ~IsTuple(p)
    <2>1. DOMAIN vs = {} \/ (IsVector(p) /\ DOMAIN vs = {1} /\ vs[1] = p)
      <3>1. CASE IsVector(p)
        BY <1>4, <3>1
      <3>2. CASE ~IsVector(p)
        BY <1>1, <1>9, <3>2, VectorsOfOther
      <3>. QED BY <3>1, <3>2
    <2>2. ASSUME IsVector(p)
          PROVE  /\ LiveVector(heap, p) /\ Elsewhere(p.block, store)
                 /\ InNoTuple(p.block)
      BY <1>3, <2>2, OperandAt DEF InNoTuple
    <2>3. \A b \in D : Unowned(b, 1) /\ InNoTuple(b)
      <3>1. TAKE b \in D
      <3>2. IsVector(p) /\ p.block = b
        BY <1>5, <2>1 DEF BlocksOf
      <3>3. Elsewhere(b, store) /\ InNoTuple(b)
        BY <2>2, <3>2
      <3>4. \A i \in 1..(Len(stack) - 1) : FALSE
        BY <1>2
      <3>. QED BY <3>3, <3>4 DEF Unowned
    <2>4. ASSUME NEW q \in DOMAIN vs
          PROVE  Live(heap, vs[q]) /\ DOMAIN vs \ {q} = {}
      BY <2>1, <2>2 DEF LiveVector
    <2>5. r.end = "no"
      BY <1>7, <2>4
    <2>. QED BY <1>1, <1>5, <1>6, <1>7, <1>9, <2>3, <2>5
  <1>. QED BY <1>8, <1>9

LEMMA CallProcedureStep ==
    ASSUME VInv, CallProcedure
    PROVE  /\ VInv' /\ NoEffect /\ status' \in CallEnds \cup {"double_free", "running"} /\ ~lost'
           /\ status' = "double_free" => Wrong
           /\ ~IsTuple(Top) /\ Dangling = {} => Dangling' = {}
  <1>1. Statement(1) /\ IF Freed1.end # "no" THEN Stop(Freed1.end) ELSE CallResult(1, Freed1.heap)
    BY DEF CallProcedure
  <1>2. PICK r, D : r = Freed1 /\ D = BlocksOf(VectorsOf(Top, frame))
    OBVIOUS
  <1>3. /\ Changes(heap, D, {"no", "double_free"}, r)
        /\ \A b : b \in D <=> Points(Top, frame, b)
        /\ D \subseteq DOMAIN heap /\ \A b \in D : Unowned(b, 1)
        /\ ~IsTuple(Top) => \A b \in D : InNoTuple(b)
        /\ r.end = "no" => \A b \in D : ~r.heap[b].live
        /\ r.end # "no" => Wrong
    BY <1>1, <1>2, OperandIsFreed
  <1>4. CASE r.end # "no"
    <2>1. r.end = "double_free" /\ Stop(r.end) /\ Wrong
      BY <1>1, <1>2, <1>3, <1>4 DEF Changes, Gives
    <2>2. r.end \in AnyEnd
      BY <2>1 DEF AnyEnd
    <2>3. Tame(AnyEnd) /\ ~lost' /\ status' = r.end
      BY <1>4, <2>1, <2>2, StopIsTame
    <2>. QED BY <2>1, <2>3 DEF Tame
  <1>5. CASE r.end = "no"
    <2>1. CallResult(1, r.heap)
      BY <1>1, <1>2, <1>5
    <2>2. Gives(heap, D, 0, {"no"}, r) /\ DOMAIN r.heap = DOMAIN heap
      BY <1>3, <1>5 DEF Changes, Gives
    <2>3. Room(r.heap, 1)
      BY <2>2, Found DEF Room
    <2>4. Len(stack) = 1 /\ DOMAIN stack = 1..1 /\ Depth \in Nat /\ 1 <= Depth
      <3>1. Len(stack) = 1
        BY <1>1 DEF Statement
      <3>. QED BY <3>1, Found, VectorCodeAssumption
    <2>5. 1 \in Nat /\ 1 <= Len(stack) /\ Len(stack) - 1 < Depth
      BY ONLY <2>4
    <2>6. \A i \in DOMAIN stack : i > Len(stack) - 1 => \A b : Points(stack[i], frame, b) => b \in D
      <3>1. \A i \in DOMAIN stack : i = 1
        BY ONLY <2>4
      <3>2. Top = stack[1]
        BY <2>4 DEF Top
      <3>. QED BY <1>3, <3>1, <3>2
    <2>7. (\A b \in D : Unowned(b, 1)) /\ VInv
      BY <1>3
    <2>8. /\ VInv' /\ NoEffect /\ status' \in CallEnds \cup {"running"}
          /\ Dangling = {} /\ (\A b \in D : InNoTuple(b)) => Dangling' = {}
          /\ (\A b \in D : ~r.heap[b].live) /\ DOMAIN r.heap = DOMAIN heap /\
                (\A i \in DOMAIN stack : i > Len(stack) - 1 =>
                                        \A b : Points(stack[i], frame, b) => b \in D) => ~lost'
      BY ONLY <2>1, <2>2, <2>3, <2>5, <2>7, CallStep
    <2>. QED BY <1>3, <1>5, <2>2, <2>6, <2>8 DEF CallEnds
  <1>. QED BY <1>4, <1>5

---------------------------------------------------------------------------
(* Statements.  They leave no operand behind.                              *)

\* All that is left is some variable's.
Reached(g, frm, sto) == \A b \in DOMAIN g : g[b].live => \E v \in Vars : Points(sto[v], frm, b)

\* No variable has anything that was freed.
Intact(g, frm, sto) == \A v \in Vars : \A b : Points(sto[v], frm, b) => g[b].live

LEMMA ExecuteStep ==
    ASSUME NEW r, NEW sto, NEW frm, Execute(r, sto, frm), NEW E, r.end \in E, E \subseteq AnyEnd,
           NEW stk, stk = <<>>, r.end = "no" => Memory(r.heap, frm, sto, stk)
    PROVE  /\ VInv' /\ NoEffect /\ status' \in E \cup {"running"} /\ stack' = <<>>
           /\ r.end # "no" => status' = r.end /\ ~lost' /\ Dangling' = {}
           /\ r.end = "no" => status' = "running"
           /\ r.end = "no" /\ Reached(r.heap, frm, sto) => ~lost'
           /\ r.end = "no" /\ Intact(r.heap, frm, sto) => Dangling' = {}
  <1>1. CASE r.end # "no"
    <2>1. Stop(r.end)
      BY <1>1 DEF Execute
    <2>2. r.end \in Status
      BY <1>1 DEF AnyEnd, Outside, Harmless, Status, RuntimeError, Undefinedness
    <2>3. VInv' /\ status' = r.end /\ ~lost' /\ stack' = <<>> /\ AllLive'
      BY <2>1, <2>2, StopKeeps
    <2>. QED BY <1>1, <2>3 DEF NoEffect, Dangling, AllLive
  <1>2. CASE r.end = "no"
    <2>1. PICK h : h = r.heap
      OBVIOUS
    <2>2. Settle(h, frm, sto, stk, "running") /\ Memory(h, frm, sto, stk)
      BY <1>2, <2>1 DEF Execute
    <2>3. "running" \in Status /\ Len(stk) <= Depth /\ DOMAIN stk = {}
      <3>1. Len(stk) = 0 /\ DOMAIN stk = {}
        OBVIOUS
      <3>. QED BY <3>1, VectorCodeAssumption DEF Status
    <2>4. /\ VInv' /\ status' = "running"
          /\ lost' => \E b \in DOMAIN h \ Held(frm, sto, stk) : h[b].live
          /\ \A n \in DOMAIN heap' : \E b \in Held(frm, sto, stk) : heap'[n] = h[b]
          /\ stk = <<>> => stack' = <<>>
      BY ONLY <2>2, <2>3, SettleKeeps
    <2>5. \A b : b \in Held(frm, sto, stk) <=> \E v \in Vars : Points(sto[v], frm, b)
      <3>1. \A b : b \in Held(frm, sto, stk) <=> \E p \in Pointers(sto, stk) : Points(p, frm, b)
        BY <2>2, HeldOf DEF Held
      <3>2. \A p : p \in Pointers(sto, stk) <=> \E v \in Vars : p = sto[v]
        BY <2>2, <2>3 DEF Pointers, Range, Memory
      <3>. QED BY <3>1, <3>2
    <2>6. ASSUME Reached(h, frm, sto) PROVE ~lost'
      BY <2>4, <2>5, <2>6 DEF Reached
    <2>7. ASSUME Intact(h, frm, sto) PROVE Dangling' = {}
      BY <2>4, <2>5, <2>7 DEF Intact, Dangling
    <2>. QED BY <1>2, <2>1, <2>4, <2>6, <2>7 DEF NoEffect
  <1>. QED BY <1>1, <1>2

\* The operands are dropped, and blocks of D were touched; what was a
\* variable's is left allocated.
LEMMA MemoryAfter ==
    ASSUME VInv, NEW g, HeapOK(g), DOMAIN heap \subseteq DOMAIN g, NEW D,
           \A b \in DOMAIN heap \ D : g[b] = heap[b],
           \A v \in Vars : IsVector(store[v]) /\ store[v].block \in D => g[store[v].block].live,
           NEW stk, stk = <<>>
    PROVE  Memory(g, frame, store, stk) /\ DOMAIN stk = {}
  <1>1. Memory(heap, frame, store, stack)
    BY Found
  <1>2. Sequence(stk) /\ DOMAIN stk = {}
    <2>1. <<>> \in Seq({})
      OBVIOUS
    <2>2. Sequence(<<>>)
      BY <2>1, SeqIsSequence
    <2>3. DOMAIN stk = {}
      OBVIOUS
    <2>. QED BY <2>2, <2>3
  <1>3. Memory(heap, frame, store, stk)
    BY <1>1, <1>2, Dropped
  <1>4. \A v \in Vars : IsVector(store[v]) /\ heap[store[v].block].live => g[store[v].block].live
    <2>1. TAKE v \in Vars
    <2>2. IsVector(store[v]) => store[v].block \in DOMAIN heap
      BY VariableAt
    <2>. QED BY <2>2
  <1>5. \A i \in DOMAIN stk : IsVector(stk[i]) /\ heap[stk[i].block].live => g[stk[i].block].live
    BY <1>2
  <1>. QED BY <1>2, <1>3, <1>4, <1>5, HeapAfter

\* A block of the heap is a variable's or that of an operand.
LEMMA HeldAlready ==
    ASSUME VInv, NEW b \in DOMAIN heap
    PROVE  \/ \E v \in Vars : Points(store[v], frame, b)
           \/ \E i \in DOMAIN stack : Points(stack[i], frame, b)
  <1>1. PICK p \in Pointers(store, stack) : Points(p, frame, b)
    BY Found
  <1>2. (\E v \in Vars : p = store[v]) \/ \E i \in DOMAIN stack : p = stack[i]
    BY Found DEF Pointers, Range
  <1>. QED BY <1>1, <1>2

\* What a variable points to is in the heap.
LEMMA VariablePoints ==
    ASSUME VInv, NEW v \in Vars, NEW b, Points(store[v], frame, b)
    PROVE  b \in DOMAIN heap /\ (Dangling = {} => heap[b].live)
  <1>1. store[v] \in Pointers(store, stack)
    BY Found DEF Pointers, Range
  <1>2. b \in DOMAIN heap
    BY <1>1, Found
  <1>. QED BY <1>2 DEF Dangling

\* A statement that changes no variable, and D are blocks of its operands or
\* of vector variables.
LEMMA PlainStep ==
    ASSUME VInv, NEW r, Execute(r, store, frame), NEW E, r.end \in E, E \subseteq AnyEnd,
           NEW D, NEW k, Gives(heap, D, k, E, r),
           r.end = "no" => \A v \in Vars : IsVector(store[v]) /\ store[v].block \in D =>
                                r.heap[store[v].block].live
    PROVE  /\ VInv' /\ NoEffect /\ status' \in E \cup {"running"}
           /\ r.end # "no" => status' = r.end /\ ~lost' /\ Dangling' = {}
           /\ r.end = "no" => status' = "running"
           /\ (r.end = "no" => /\ DOMAIN r.heap = DOMAIN heap
                               /\ \A i \in DOMAIN stack : \A b : Points(stack[i], frame, b) =>
                                        ~r.heap[b].live \/ \E v \in Vars : Points(store[v], frame, b))
              => ~lost'
           /\ (r.end = "no" => \A b \in D : InNoTuple(b)) /\ Dangling = {} => Dangling' = {}
  <1>1. PICK g, stk : g = r.heap /\ stk = <<>>
    OBVIOUS
  <1>2. ASSUME r.end = "no"
        PROVE  /\ Memory(g, frame, store, stk) /\ DOMAIN heap \subseteq DOMAIN g
               /\ \A b \in DOMAIN heap \ D : g[b] = heap[b]
    <2>1. HeapOK(g) /\ DOMAIN heap \subseteq DOMAIN g /\ \A b \in DOMAIN heap \ D : g[b] = heap[b]
      BY <1>1, <1>2 DEF Gives
    <2>2. \A v \in Vars : IsVector(store[v]) /\ store[v].block \in D => g[store[v].block].live
      BY <1>1, <1>2
    <2>. QED BY <1>1, <2>1, <2>2, MemoryAfter
  <1>3. /\ VInv' /\ NoEffect /\ status' \in E \cup {"running"} /\ stack' = <<>>
        /\ r.end # "no" => status' = r.end /\ ~lost' /\ Dangling' = {}
        /\ r.end = "no" => status' = "running"
        /\ r.end = "no" /\ Reached(r.heap, frame, store) => ~lost'
        /\ r.end = "no" /\ Intact(r.heap, frame, store) => Dangling' = {}
    BY <1>1, <1>2, ExecuteStep
  <1>4. ASSUME r.end = "no", DOMAIN g = DOMAIN heap,
               \A i \in DOMAIN stack : \A b : Points(stack[i], frame, b) =>
                    ~g[b].live \/ \E v \in Vars : Points(store[v], frame, b)
        PROVE  Reached(g, frame, store)
    BY <1>4, HeldAlready DEF Reached
  <1>5. ASSUME r.end = "no", \A b \in D : InNoTuple(b), Dangling = {}
        PROVE  Intact(g, frame, store)
    <2>1. SUFFICES ASSUME NEW v \in Vars, NEW b, Points(store[v], frame, b) PROVE g[b].live
      BY DEF Intact
    <2>2. b \in DOMAIN heap /\ heap[b].live
      BY <1>5, <2>1, VariablePoints
    <2>3. CASE b \notin D
      BY <1>2, <1>5, <2>2, <2>3
    <2>4. CASE b \in D
      <3>1. IsVector(store[v]) /\ store[v].block = b
        <4>1. CASE IsTuple(store[v])
          <5>1. PICK s : s = store[v].struct
            OBVIOUS
          <5>2. s \in DOMAIN frame /\ FieldsOK(frame[s], heap)
            BY <4>1, <5>1, VariableAt
          <5>3. Elsewhere(b, frame[s])
            BY <1>5, <2>4, <5>2 DEF InNoTuple
          <5>4. ~IsVector(store[v])
            BY <4>1 DEF IsTuple, IsVector
          <5>. QED BY <2>1, <5>1, <5>2, <5>3, <5>4 DEF Points, Elsewhere, FieldsOK
        <4>2. CASE ~IsTuple(store[v])
          BY <2>1, <4>2 DEF Points
        <4>. QED BY <4>1, <4>2
      <3>. QED BY <1>1, <1>5, <2>4, <3>1
    <2>. QED BY <2>3, <2>4
  <1>. QED BY <1>1, <1>3, <1>4, <1>5

\* The one operand of a statement.
LEMMA StatementIs ==
    ASSUME VInv, Statement(1)
    PROVE  /\ Operands(1) /\ Top = stack[1] /\ DOMAIN stack = {1} /\ stack # <<>>
           /\ 1 \in DOMAIN stack
           /\ \A b : (\E i \in DOMAIN stack : Points(stack[i], frame, b)) <=> Points(Top, frame, b)
           /\ IsVector(Top) => LiveVector(heap, Top) /\ Elsewhere(Top.block, store)
                               /\ InNoTuple(Top.block)
  <1>1. Len(stack) = 1 /\ DOMAIN stack = 1..1
    BY Found DEF Statement
  <1>2. Operands(1)
    <2>1. 1 >= 1
      OBVIOUS
    <2>. QED BY <1>1, <2>1 DEF Statement, Operands
  <1>3. Top = stack[1] /\ DOMAIN stack = {1} /\ 1 \in DOMAIN stack
    BY <1>1 DEF Top
  <1>4. PICK p : p = Top
    OBVIOUS
  <1>5. IsVector(p) => LiveVector(heap, p) /\ Elsewhere(p.block, store)
                       /\ \A s \in DOMAIN frame : Elsewhere(p.block, frame[s])
    BY <1>3, <1>4, OperandAt
  <1>. QED BY <1>2, <1>3, <1>4, <1>5 DEF InNoTuple

LEMMA OutStreamStep == ASSUME VInv, OutStream PROVE Tame(Harmless) /\ ~lost'
  <1>1. Statement(1) /\ IsVector(Top)
    BY DEF OutStream
  <1>2. LiveVector(heap, Top) /\ Elsewhere(Top.block, store) /\ InNoTuple(Top.block) /\ HeapOK(heap)
    BY <1>1, StatementIs, Found
  <1>3. PICK q : q = Done(heap, Nothing)
    OBVIOUS
  <1>4. PICK r : r = freeVector(q, Top)
    OBVIOUS
  <1>5. Execute(r, store, frame)
    BY <1>2, <1>3, <1>4 DEF OutStream, LiveVector
  <1>6. PICK E, Z : E = {"no"} /\ Z = {}
    OBVIOUS
  <1>7. Gives(heap, Z, 0, E, q) /\ q.end = "no" /\ Top.block \notin Z /\ q.heap = heap
        /\ DOMAIN q = {"heap", "val", "end"}
    BY <1>2, <1>3, <1>6, HeapFinite DEF Done, Gives
  <1>8. Gives(heap, Z \cup {Top.block}, 0, E, r) /\ r.end = "no"
    BY <1>2, <1>4, <1>7, FreeVector
  <1>9. r = [q EXCEPT !.heap[Top.block] = Freed]
    BY <1>2, <1>4, <1>7 DEF freeVector, Then, LiveVector
  <1>10. r.heap = [heap EXCEPT ![Top.block] = Freed]
    BY <1>7, <1>9
  <1>11. DOMAIN r.heap = DOMAIN heap /\ ~r.heap[Top.block].live
    BY <1>2, <1>10 DEF LiveVector, Freed
  <1>12. PICK D : D = Z \cup {Top.block}
    OBVIOUS
  <1>13. \A v \in Vars : ~(IsVector(store[v]) /\ store[v].block \in D)
    BY <1>2, <1>6, <1>12, Found DEF Elsewhere
  <1>14. \A i \in DOMAIN stack : \A b : Points(stack[i], frame, b) => ~r.heap[b].live
    BY <1>1, <1>11, StatementIs, Kinds DEF Points
  <1>15. r.end \in E /\ E \subseteq AnyEnd /\ E \subseteq Harmless /\ \A b \in D : InNoTuple(b)
    BY <1>2, <1>6, <1>8, <1>12, Ends
  <1>16. Gives(heap, D, 0, E, r)
    BY <1>8, <1>12
  <1>17. /\ VInv' /\ NoEffect /\ status' \in E \cup {"running"}
         /\ (r.end = "no" => /\ DOMAIN r.heap = DOMAIN heap
                             /\ \A i \in DOMAIN stack : \A b : Points(stack[i], frame, b) =>
                                        ~r.heap[b].live \/ \E v \in Vars : Points(store[v], frame, b))
              => ~lost'
         /\ (r.end = "no" => \A b \in D : InNoTuple(b)) /\ Dangling = {} => Dangling' = {}
    BY <1>5, <1>13, <1>15, <1>16, PlainStep
  <1>. QED BY <1>11, <1>14, <1>15, <1>17 DEF Tame

LEMMA UseScalarStep == ASSUME VInv, UseScalar PROVE Tame(Harmless) /\ ~lost'
  <1>1. PICK r, D, E : r = Done(heap, Nothing) /\ D = {} /\ E = {"no"}
    OBVIOUS
  <1>2. Execute(r, store, frame) /\ Statement(1) /\ IsScalar(Top)
    BY <1>1 DEF UseScalar
  <1>3. Gives(heap, D, 0, E, r) /\ r.end = "no" /\ r.heap = heap
    BY <1>1, Found, HeapFinite DEF Done, Gives
  <1>4. \A i \in DOMAIN stack : \A b : ~Points(stack[i], frame, b)
    BY <1>2, StatementIs, Kinds DEF Points
  <1>5. r.end \in E /\ E \subseteq AnyEnd /\ E \subseteq Harmless /\ \A b \in D : InNoTuple(b)
        /\ \A v \in Vars : ~(IsVector(store[v]) /\ store[v].block \in D)
    BY <1>1, <1>3, Ends
  <1>6. /\ VInv' /\ NoEffect /\ status' \in E \cup {"running"}
        /\ (r.end = "no" => /\ DOMAIN r.heap = DOMAIN heap
                            /\ \A i \in DOMAIN stack : \A b : Points(stack[i], frame, b) =>
                                       ~r.heap[b].live \/ \E v \in Vars : Points(store[v], frame, b))
             => ~lost'
        /\ (r.end = "no" => \A b \in D : InNoTuple(b)) /\ Dangling = {} => Dangling' = {}
    BY <1>2, <1>3, <1>5, PlainStep
  <1>7. ~lost'
    BY <1>3, <1>4, <1>6
  <1>8. Dangling = {} => Dangling' = {}
    BY <1>5, <1>6
  <1>9. status' \in Harmless \cup {"running"}
    BY <1>5, <1>6
  <1>. QED BY <1>6, <1>7, <1>8, <1>9 DEF Tame

LEMMA CallStatementStep ==
    ASSUME VInv, CallStatement
    PROVE  /\ VInv' /\ NoEffect /\ status' \in {"no", "double_free", "running"} /\ ~lost'
           /\ status' = "double_free" => Wrong
           /\ ~IsTuple(Top) /\ Dangling = {} => Dangling' = {}
  <1>1. Statement(1) /\ Execute(Freed1, store, frame)
    BY DEF CallStatement
  <1>2. PICK r, D, E : /\ r = Freed1 /\ D = BlocksOf(VectorsOf(Top, frame))
                       /\ E = {"no", "double_free"}
    OBVIOUS
  <1>3. /\ Changes(heap, D, E, r)
        /\ \A b : b \in D <=> Points(Top, frame, b)
        /\ \A b \in D : Unowned(b, 1)
        /\ ~IsTuple(Top) => \A b \in D : InNoTuple(b)
        /\ r.end = "no" => \A b \in D : ~r.heap[b].live
        /\ r.end # "no" => Wrong
    BY <1>1, <1>2, OperandIsFreed
  <1>4. Gives(heap, D, 0, E, r) /\ r.end \in E /\ (r.end = "no" => DOMAIN r.heap = DOMAIN heap)
    BY <1>3 DEF Changes, Gives
  <1>5. \A v \in Vars : ~(IsVector(store[v]) /\ store[v].block \in D)
    BY <1>3, Found DEF Unowned, Elsewhere
  <1>6. E \subseteq AnyEnd
    BY <1>2 DEF AnyEnd, Outside, Harmless
  <1>7. Execute(r, store, frame)
    BY <1>1, <1>2
  <1>8. /\ VInv' /\ NoEffect /\ status' \in E \cup {"running"}
        /\ r.end # "no" => status' = r.end /\ ~lost' /\ Dangling' = {}
        /\ r.end = "no" => status' = "running"
        /\ (r.end = "no" => /\ DOMAIN r.heap = DOMAIN heap
                            /\ \A i \in DOMAIN stack : \A b : Points(stack[i], frame, b) =>
                                       ~r.heap[b].live \/ \E v \in Vars : Points(store[v], frame, b))
             => ~lost'
        /\ (r.end = "no" => \A b \in D : InNoTuple(b)) /\ Dangling = {} => Dangling' = {}
    BY <1>4, <1>5, <1>6, <1>7, PlainStep
  <1>9. r.end = "no" => \A i \in DOMAIN stack : \A b : Points(stack[i], frame, b) => ~r.heap[b].live
    BY <1>1, <1>3, StatementIs
  <1>10. ~lost'
    BY <1>4, <1>8, <1>9
  <1>11. ~IsTuple(Top) /\ Dangling = {} => Dangling' = {}
    BY <1>3, <1>8
  <1>12. status' = "double_free" => Wrong
    BY <1>3, <1>8
  <1>13. status' \in {"no", "double_free", "running"}
    BY <1>2, <1>8
  <1>. QED BY <1>8, <1>10, <1>11, <1>12, <1>13

LEMMA AssignIndexStep ==
    ASSUME VInv, NEW v \in Vars, AssignIndex(v)
    PROVE  Tame(Outside) /\ ~lost'
  <1>1. Statement(2) /\ IsVector(store[v]) /\ IsScalar(Below) /\ IsScalar(Top)
    BY DEF AssignIndex
  <1>2. Operands(2)
    <2>1. 2 >= 2
      OBVIOUS
    <2>. QED BY <1>1, <2>1 DEF Statement, Operands
  <1>3. PICK p, i, s : p = store[v] /\ i = Top.val - 1 /\ s = typeCast(Below, store[v].base)
    OBVIOUS
  <1>4. PICK r, D : r = storeArrVal(heap, p, i, s) /\ D = {p.block}
    OBVIOUS
  <1>5. Execute(r, store, frame)
    BY <1>3, <1>4 DEF AssignIndex
  <1>6. p.block \in DOMAIN heap /\ Live(heap, p) /\ \A x \in DOMAIN frame : Elsewhere(p.block, frame[x])
    BY <1>1, <1>3, VariableAt DEF Live
  <1>7. i \in Int /\ HeapOK(heap)
    <2>1. Top.val \in Int
      BY <1>1, <1>2, TopIs, BelowIs
    <2>. QED BY <1>3, <2>1, Found
  <1>8. Changes(heap, D, Outside, r) /\ (r.end = "no" => r.heap[p.block].live)
    BY <1>4, <1>6, <1>7, StoreGives
  <1>9. Gives(heap, D, 0, Outside, r) /\ r.end \in Outside /\ (r.end = "no" => DOMAIN r.heap = DOMAIN heap)
    BY <1>8 DEF Changes, Gives
  <1>10. r.end = "no" => \A u \in Vars : IsVector(store[u]) /\ store[u].block \in D =>
                                r.heap[store[u].block].live
    BY <1>4, <1>8
  <1>11. (\A b \in D : InNoTuple(b)) /\ Outside \subseteq AnyEnd
    BY <1>4, <1>6, Ends DEF InNoTuple
  <1>12. \A j \in DOMAIN stack : \A b : ~Points(stack[j], frame, b)
    <2>1. DOMAIN stack = 1..2 /\ Len(stack) = 2
      BY <1>1, Found DEF Statement
    <2>2. \A j \in DOMAIN stack : j = Len(stack) \/ j = Len(stack) - 1
      BY ONLY <2>1
    <2>. QED BY <1>1, <2>2, Kinds DEF Points, Top, Below
  <1>13. /\ VInv' /\ NoEffect /\ status' \in Outside \cup {"running"}
         /\ (r.end = "no" => /\ DOMAIN r.heap = DOMAIN heap
                             /\ \A j \in DOMAIN stack : \A b : Points(stack[j], frame, b) =>
                                        ~r.heap[b].live \/ \E u \in Vars : Points(store[u], frame, b))
              => ~lost'
         /\ (r.end = "no" => \A b \in D : InNoTuple(b)) /\ Dangling = {} => Dangling' = {}
    BY <1>5, <1>9, <1>10, <1>11, PlainStep
  <1>. QED BY <1>9, <1>11, <1>12, <1>13 DEF Tame

LEMMA CallByReferenceStep ==
    ASSUME VInv, NEW v \in Vars, CallByReference(v)
    PROVE  Tame(Harmless) /\ ~lost'
  <1>1. Statement(0) /\ IsVector(store[v])
    BY DEF CallByReference
  <1>2. PICK p : p = store[v]
    OBVIOUS
  <1>3. p.block \in DOMAIN heap /\ heap[p.block].live /\ HeapOK(heap)
        /\ \A x \in DOMAIN frame : Elsewhere(p.block, frame[x])
    BY <1>1, <1>2, VariableAt, Found
  <1>4. PICK elems \in [1..getArrSize(heap, p) -> Values \cap ValuesOf(p.base)] :
            Execute(Done([heap EXCEPT ![p.block].elems = elems], Nothing), store, frame)
    BY <1>2, <1>3 DEF CallByReference, Live
  <1>5. PICK g, b, D : g = WithElems(heap, b, elems) /\ b = p.block /\ D = {b}
    OBVIOUS
  <1>6. PICK r, E : r = Done(g, Nothing) /\ E = {"no"}
    OBVIOUS
  <1>7. Execute(r, store, frame)
    BY <1>4, <1>5, <1>6 DEF WithElems
  <1>8. Sequence(elems)
    <2>1. getArrSize(heap, p) \in Int
      BY <1>3, ElemsOfBlock
    <2>. QED BY <2>1, IsSequence
  <1>9. Changes(heap, D, E, r) /\ r.heap[b].live
    <2>1. HeapOK(heap) /\ b \in DOMAIN heap /\ g = WithElems(heap, b, elems) /\ r = Done(g, Nothing)
      BY <1>3, <1>5, <1>6
    <2>2. Changes(heap, {b}, {"no"}, r) /\ r.heap[b].live = heap[b].live
      BY ONLY <1>8, <2>1, StoreChanges
    <2>. QED BY <1>3, <1>5, <1>6, <2>2
  <1>10. Gives(heap, D, 0, E, r) /\ r.end \in E /\ (r.end = "no" => DOMAIN r.heap = DOMAIN heap)
    BY <1>9 DEF Changes, Gives
  <1>11. r.end = "no" => \A u \in Vars : IsVector(store[u]) /\ store[u].block \in D =>
                                r.heap[store[u].block].live
    BY <1>5, <1>9
  <1>12. (\A c \in D : InNoTuple(c)) /\ E \subseteq AnyEnd /\ E \subseteq Harmless
    BY <1>3, <1>5, <1>6, Ends DEF InNoTuple
  <1>13. DOMAIN stack = {}
    <2>1. DOMAIN stack = 1..0
      BY <1>1, Found DEF Statement
    <2>. QED BY <2>1
  <1>14. /\ VInv' /\ NoEffect /\ status' \in E \cup {"running"}
         /\ (r.end = "no" => /\ DOMAIN r.heap = DOMAIN heap
                             /\ \A j \in DOMAIN stack : \A c : Points(stack[j], frame, c) =>
                                        ~r.heap[c].live \/ \E u \in Vars : Points(store[u], frame, c))
              => ~lost'
         /\ (r.end = "no" => \A c \in D : InNoTuple(c)) /\ Dangling = {} => Dangling' = {}
    BY <1>7, <1>10, <1>11, <1>12, PlainStep
  <1>. QED BY <1>10, <1>12, <1>13, <1>14 DEF Tame

\* A block that is no vector variable's and no tuple's is no variable's.
LEMMA Unpointed ==
    ASSUME VInv, NEW v \in Vars, NEW b, Elsewhere(b, store), InNoTuple(b)
    PROVE  ~Points(store[v], frame, b)
  <1>1. PICK p : p = store[v]
    OBVIOUS
  <1>2. IsVector(p) => p.block # b
    BY <1>1, Found DEF Elsewhere
  <1>3. CASE IsTuple(p)
    <2>1. PICK F : F = frame[p.struct]
      OBVIOUS
    <2>2. p.struct \in DOMAIN frame /\ FieldsOK(F, heap)
      BY <1>1, <1>3, <2>1, VariableAt
    <2>3. Elsewhere(b, F)
      BY <2>1, <2>2 DEF InNoTuple
    <2>4. \A i \in {1, 2} : IsVector(F[i]) => F[i].block # b
      BY <2>2, <2>3 DEF Elsewhere, FieldsOK
    <2>5. ~IsVector(p)
      BY <1>3, Kinds
    <2>. QED BY <1>1, <2>1, <2>4, <2>5 DEF Points
  <1>4. CASE ~IsTuple(p)
    BY <1>1, <1>2, <1>4 DEF Points
  <1>. QED BY <1>3, <1>4

\* The heap h is the heap, but for new blocks and for the blocks of D, which
\* are no variable's.
Changed(h, D) ==
    /\ HeapOK(h) /\ DOMAIN heap \subseteq DOMAIN h
    /\ \A b \in DOMAIN heap \ D : h[b] = heap[b]
    /\ \A b \in D : Elsewhere(b, store) /\ InNoTuple(b)

\* The frame f has new structs, whose vectors are no variable's.
Widened(f, h) ==
    /\ DOMAIN frame \subseteq DOMAIN f /\ DOMAIN f \subseteq 1..MaxStructs
    /\ \A s \in DOMAIN frame : f[s] = frame[s]
    /\ \A s \in DOMAIN f \ DOMAIN frame :
        /\ FieldsOK(f[s], h)
        /\ \A i \in {1, 2} : IsVector(f[s][i]) => Elsewhere(f[s][i].block, store)

\* What a variable can get: a vector is its own.
NewValue(v, val, h, f) ==
    /\ Variable(val, h, f)
    /\ IsVector(val) => /\ \A u \in Vars \ {v} : IsVector(store[u]) => store[u].block # val.block
                        /\ \A s \in DOMAIN f : Elsewhere(val.block, f[s])

\* A statement that gives the variable v the value val.
LEMMA BindStep ==
    ASSUME VInv, NEW v \in Vars, NEW r, r.end = "no", NEW val, NEW f, NEW D,
           Execute(r, Bind(v, val), f), Changed(r.heap, D), Widened(f, r.heap),
           NewValue(v, val, r.heap, f)
    PROVE  /\ VInv' /\ NoEffect /\ status' = "running"
           /\ /\ store[v] = NotDeclared
              /\ \A b \in DOMAIN r.heap : r.heap[b].live => b \in DOMAIN heap \ D \/ Points(val, f, b)
              /\ \A i \in DOMAIN stack : \A b : Points(stack[i], frame, b) => b \in D \/ Points(val, f, b)
              => ~lost'
           /\ Dangling = {} /\ (\A b : Points(val, f, b) => r.heap[b].live) => Dangling' = {}
  <1>1. PICK h, stk, sto : h = r.heap /\ stk = <<>> /\ sto = Bind(v, val)
    OBVIOUS
  <1>2. /\ HeapOK(h) /\ DOMAIN heap \subseteq DOMAIN h /\ \A b \in DOMAIN heap \ D : h[b] = heap[b]
        /\ \A b \in D : Elsewhere(b, store) /\ InNoTuple(b)
    BY <1>1 DEF Changed
  <1>3. sto = [store EXCEPT ![v] = val] /\ DOMAIN store = Vars
    BY <1>1, Found DEF Bind
  <1>4. sto[v] = val /\ \A u \in Vars \ {v} : sto[u] = store[u]
    BY <1>3
  <1>5. Memory(h, frame, store, stk) /\ DOMAIN stk = {}
    <2>1. \A u \in Vars : IsVector(store[u]) /\ store[u].block \in D => h[store[u].block].live
      BY <1>2, <1>3 DEF Elsewhere
    <2>. QED BY <1>1, <1>2, <2>1, MemoryAfter
  <1>6. Memory(h, f, store, stk)
    <2>1. \A s \in DOMAIN frame : \A i \in {1, 2} : IsVector(frame[s][i]) => Elsewhere(frame[s][i].block, store)
      <3>1. TAKE s \in DOMAIN frame
      <3>2. PICK F : F = frame[s]
        OBVIOUS
      <3>3. FieldsOK(F, heap) /\ Apart(F, store)
        BY <3>2, Found DEF Memory
      <3>. QED BY <3>2, <3>3 DEF FieldsOK, Apart, Elsewhere
    <2>2. \A s \in DOMAIN frame : FieldsOK(frame[s], h)
      BY <1>5 DEF Memory
    <2>3. \A b : Elsewhere(b, stk)
      BY <1>5 DEF Elsewhere
    <2>4. DOMAIN frame \subseteq DOMAIN f /\ DOMAIN f \subseteq 1..MaxStructs
      BY DEF Widened
    <2>5. \A s \in DOMAIN f : /\ FieldsOK(f[s], h)
                              /\ \A i \in {1, 2} : IsVector(f[s][i]) =>
                                    Elsewhere(f[s][i].block, store) /\ Elsewhere(f[s][i].block, stk)
      <3>1. TAKE s \in DOMAIN f
      <3>2. CASE s \in DOMAIN frame
        BY <2>1, <2>2, <2>3, <3>2 DEF Widened
      <3>3. CASE s \notin DOMAIN frame
        BY <1>1, <2>3, <3>1, <3>3 DEF Widened
      <3>. QED BY <3>2, <3>3
    <2>. QED BY <1>5, <2>4, <2>5, FrameAfter
  <1>7. Memory(h, f, sto, stk)
    BY <1>1, <1>3, <1>5, <1>6, Bound DEF NewValue
  <1>8. PICK E : E = {"no"}
    OBVIOUS
  <1>9. E \subseteq AnyEnd /\ r.end \in E
    BY <1>8, Ends
  <1>10. Execute(r, sto, f) /\ Memory(r.heap, f, sto, stk) /\ stk = <<>>
    BY <1>1, <1>7
  <1>11. /\ VInv' /\ NoEffect /\ status' = "running"
         /\ Reached(r.heap, f, sto) => ~lost'
         /\ Intact(r.heap, f, sto) => Dangling' = {}
    BY <1>9, <1>10, ExecuteStep
  <1>12. \A u \in Vars : \A b : Points(store[u], f, b) <=> Points(store[u], frame, b)
    <2>1. TAKE u \in Vars
    <2>2. PICK p : p = store[u]
      OBVIOUS
    <2>3. IsTuple(p) => f[p.struct] = frame[p.struct]
      BY <2>2, VariableAt DEF Widened
    <2>. QED BY <2>2, <2>3 DEF Points
  <1>13. ASSUME store[v] = NotDeclared,
                \A b \in DOMAIN h : h[b].live => b \in DOMAIN heap \ D \/ Points(val, f, b),
                \A i \in DOMAIN stack : \A b : Points(stack[i], frame, b) => b \in D \/ Points(val, f, b)
         PROVE  Reached(h, f, sto)
    <2>1. SUFFICES ASSUME NEW b \in DOMAIN h, h[b].live PROVE \E u \in Vars : Points(sto[u], f, b)
      BY DEF Reached
    <2>2. CASE Points(val, f, b)
      BY <1>4, <2>2
    <2>3. CASE b \in DOMAIN heap \ D /\ ~Points(val, f, b)
      <3>1. \E u \in Vars : Points(store[u], frame, b)
        BY <1>13, <2>3, HeldAlready
      <3>2. PICK u \in Vars : Points(store[u], frame, b)
        BY <3>1
      <3>3. u # v
        BY <1>13, <3>2, Kinds DEF Points
      <3>4. Points(store[u], f, b)
        BY <1>12, <3>2
      <3>. QED BY <1>4, <3>3, <3>4
    <2>. QED BY <1>13, <2>1, <2>2, <2>3
  <1>14. ASSUME Dangling = {}, \A b : Points(val, f, b) => h[b].live
         PROVE  Intact(h, f, sto)
    <2>1. SUFFICES ASSUME NEW u \in Vars, NEW b, Points(sto[u], f, b) PROVE h[b].live
      BY DEF Intact
    <2>2. CASE u = v
      BY <1>4, <1>14, <2>1, <2>2
    <2>3. CASE u # v
      <3>1. Points(store[u], frame, b)
        BY <1>4, <1>12, <2>1, <2>3
      <3>2. b \in DOMAIN heap /\ heap[b].live
        BY <1>14, <3>1, VariablePoints
      <3>3. b \notin D
        BY <1>2, <3>1, Unpointed
      <3>. QED BY <1>2, <3>2, <3>3
    <2>. QED BY <2>2, <2>3
  <1>15. ASSUME store[v] = NotDeclared,
                \A b \in DOMAIN r.heap : r.heap[b].live => b \in DOMAIN heap \ D \/ Points(val, f, b),
                \A i \in DOMAIN stack : \A b : Points(stack[i], frame, b) => b \in D \/ Points(val, f, b)
         PROVE  ~lost'
    BY <1>1, <1>11, <1>13, <1>15
  <1>16. ASSUME Dangling = {}, \A b : Points(val, f, b) => r.heap[b].live
         PROVE  Dangling' = {}
    BY <1>1, <1>11, <1>14, <1>16
  <1>. QED BY <1>11, <1>15, <1>16

\* A vector with the size of its declaration.
LEMMA VectorVarIs ==
    ASSUME NEW p, p = VectorAt(p.base, p.block), NEW size \in Int, NEW val, val = VectorVar(p, size)
    PROVE  /\ IsVector(val) /\ DOMAIN val = {"kind", "base", "block", "size"}
           /\ val.size = size /\ val.block = p.block
  <1>1. PICK b, k : b = p.base /\ k = p.block
    OBVIOUS
  <1>2. DOMAIN p = {"kind", "base", "block"} /\ p.kind = "vector"
    BY <1>1 DEF VectorAt
  <1>3. val = [z \in DOMAIN p \cup {"size"} |-> IF z = "size" THEN size ELSE p[z]]
    BY DEF VectorVar, Put
  <1>4. DOMAIN val = {"kind", "base", "block", "size"}
    BY <1>2, <1>3
  <1>5. val.kind = "vector" /\ val.size = size /\ val.block = p.block
    BY <1>2, <1>3
  <1>. QED BY <1>4, <1>5 DEF IsVector

\* A declaration of a vector.
LEMMA DecStep ==
    ASSUME VInv, NEW v \in Vars, store[v] = NotDeclared, NEW size \in Int, NEW r,
           emitDec(v, r, size), NEW D, NEW k, Makes(heap, D, k, Harmless, r),
           \A b \in D : Elsewhere(b, store) /\ InNoTuple(b),
           \A i \in DOMAIN stack : \A b : Points(stack[i], frame, b) => b \in D
    PROVE  Tame(Harmless) /\ ~lost'
  <1>1. Gives(heap, D, k, Harmless, r) /\ OwnVector(heap, D, r) /\ Tidy(heap, D, r)
    BY DEF Makes
  <1>2. CASE r.end # "no"
    BY <1>1, <1>2, Ends, StopIsTame DEF emitDec, Gives
  <1>3. CASE r.end = "no"
    <2>1. PICK val, h : val = VectorVar(r.val, size) /\ h = r.heap
      OBVIOUS
    <2>2. Execute(r, Bind(v, val), frame)
      BY <1>3, <2>1 DEF emitDec
    <2>3. /\ IsVector(val) /\ DOMAIN val = {"kind", "base", "block", "size"}
          /\ val.size = size /\ val.block = r.val.block
      BY <1>1, <1>3, <2>1, VectorVarIs DEF OwnVector
    <2>4. val.block \in DOMAIN h \ (DOMAIN heap \ D) /\ h[val.block].live
      BY <1>1, <1>3, <2>1, <2>3 DEF OwnVector, Live
    <2>5. Variable(val, h, frame)
      BY <2>3, <2>4 DEF Variable, Live
    <2>6. Elsewhere(val.block, store) /\ InNoTuple(val.block)
      <3>1. CASE val.block \in D
        BY <3>1
      <3>2. CASE val.block \notin DOMAIN heap
        <4>1. 0 \in Nat
          OBVIOUS
        <4>. QED BY <3>2, <4>1, NewBlock DEF Unowned
      <3>. QED BY <2>4, <3>1, <3>2
    <2>7. NewValue(v, val, h, frame)
      BY <2>5, <2>6, Found DEF NewValue, Elsewhere, InNoTuple
    <2>8. Changed(h, D)
      BY <1>1, <1>3, <2>1 DEF Changed, Gives
    <2>9. Widened(frame, h)
      BY Found DEF Widened, Memory
    <2>10. /\ VInv' /\ NoEffect /\ status' = "running"
           /\ /\ store[v] = NotDeclared
              /\ \A b \in DOMAIN r.heap : r.heap[b].live => b \in DOMAIN heap \ D \/ Points(val, frame, b)
              /\ \A i \in DOMAIN stack : \A b : Points(stack[i], frame, b) => b \in D \/ Points(val, frame, b)
              => ~lost'
           /\ Dangling = {} /\ (\A b : Points(val, frame, b) => r.heap[b].live) => Dangling' = {}
      BY <1>3, <2>1, <2>2, <2>7, <2>8, <2>9, BindStep
    <2>11. \A b : Points(val, frame, b) <=> b = val.block
      BY <2>3, Kinds DEF Points
    <2>12. ~lost'
      BY <1>1, <1>3, <2>3, <2>10, <2>11 DEF Tidy
    <2>13. Dangling = {} => Dangling' = {}
      BY <2>1, <2>4, <2>10, <2>11
    <2>. QED BY <2>10, <2>12, <2>13 DEF Tame
  <1>. QED BY <1>2, <1>3

LEMMA VectorDecStep ==
    ASSUME VInv, NEW v \in Vars, emitVectorDec(v) PROVE Tame(Harmless) /\ ~lost'
  <1>1. Statement(1) /\ store[v] = NotDeclared /\ ~IsTuple(Top)
    BY DEF emitVectorDec
  <1>2. PICK size \in {NoSize} \cup 0..MaxSize :
            /\ IsScalar(Top) => size # NoSize
            /\ emitDec(v, DeclaredVector(Top, size), size)
    BY DEF emitVectorDec
  <1>3. PICK r, p : r = DeclaredVector(p, size) /\ p = Top
    OBVIOUS
  <1>4. emitDec(v, r, size) /\ HeapOK(heap) /\ Room(heap, 1) /\ size \in Int
    BY <1>2, <1>3, Found, VectorCodeAssumption DEF NoSize
  <1>5. Usable(heap, p)
    BY <1>1, <1>3, StatementIs, OperandAt
  <1>6. CASE IsScalar(p)
    <2>1. PICK Z : Z = {}
      OBVIOUS
    <2>2. r = scalarToVector(heap, p, size, p.base)
      BY <1>3, <1>6, Kinds DEF DeclaredVector
    <2>3. Makes(heap, {}, 1, Harmless, r)
      BY <1>4, <2>2, ScalarToVector
    <2>4. \A i \in DOMAIN stack : \A b : ~Points(stack[i], frame, b)
      BY <1>1, <1>3, <1>6, StatementIs, Kinds DEF Points
    <2>5. Makes(heap, Z, 1, Harmless, r)
      BY <2>1, <2>3
    <2>6. \A b \in Z : Elsewhere(b, store) /\ InNoTuple(b)
      BY <2>1
    <2>. QED BY <1>1, <1>4, <2>4, <2>5, <2>6, DecStep
  <1>7. CASE IsVector(p)
    <2>1. PICK D : D = {p.block}
      OBVIOUS
    <2>2. LiveVector(heap, p) /\ Elsewhere(p.block, store) /\ InNoTuple(p.block)
      BY <1>1, <1>3, <1>7, StatementIs
    <2>3. ~IsScalar(p)
      BY <1>7, Kinds
    <2>4. Makes(heap, D, 1, Harmless, r)
      <3>1. CASE size = NoSize
        <4>1. r = Done(heap, p)
          BY <1>3, <1>7, <2>3, <3>1 DEF DeclaredVector
        <4>2. Makes(heap, D, 0, {"no"}, r)
          BY <1>4, <2>1, <2>2, <4>1, DoneGives
        <4>3. 0 \in Nat /\ 1 \in Nat /\ 0 <= 1 /\ {"no"} \subseteq Harmless
          BY Ends
        <4>4. Gives(heap, D, 0, {"no"}, r) /\ OwnVector(heap, D, r) /\ Tidy(heap, D, r)
          BY <4>2 DEF Makes
        <4>5. Gives(heap, D, 1, Harmless, r)
          BY <1>4, <4>3, <4>4, Widen
        <4>. QED BY <4>4, <4>5 DEF Makes
      <3>2. CASE size # NoSize /\ ~declVectorSizeCheck(size, getArrSize(heap, p))
        <4>1. r = Ended(heap, "SizeError") /\ "SizeError" \in Harmless
          BY <1>3, <1>7, <2>2, <2>3, <3>2 DEF LiveVector, Harmless, DeclaredVector, Resized
        <4>. QED BY <4>1, EndedGives
      <3>3. CASE size # NoSize /\ declVectorSizeCheck(size, getArrSize(heap, p))
        <4>1. r = transferVecElements(heap, p, size)
          BY <1>3, <1>7, <2>3, <3>3 DEF DeclaredVector, Resized
        <4>2. ~(getArrSize(heap, p) > size)
          <5>1. getArrSize(heap, p) \in Nat
            BY <1>4, <2>2, ElemsOfBlock DEF LiveVector
          <5>. QED BY <1>4, <3>3, <5>1 DEF declVectorSizeCheck
        <4>3. Makes(heap, D, 1, {"no"}, r)
          BY <1>4, <2>1, <2>2, <4>1, <4>2, Transfer
        <4>. QED BY <4>3, Ends DEF Makes, Gives
      <3>. QED BY <3>1, <3>2, <3>3
    <2>5. \A i \in DOMAIN stack : \A b : Points(stack[i], frame, b) => b \in D
      BY <1>1, <1>3, <1>7, <2>1, StatementIs, Kinds DEF Points
    <2>6. \A b \in D : Elsewhere(b, store) /\ InNoTuple(b)
      BY <2>1, <2>2
    <2>. QED BY <1>1, <1>4, <2>4, <2>5, <2>6, DecStep
  <1>. QED BY <1>5, <1>6, <1>7 DEF Usable, LiveVector

\* Nothing waits.
LEMMA NothingWaits ==
    ASSUME VInv, Statement(0) PROVE DOMAIN stack = {}
  <1>1. Len(stack) = 0 /\ DOMAIN stack = 1..0
    BY Found DEF Statement
  <1>. QED BY ONLY <1>1

\* The frame with one struct more.
LEMMA StructIsAdded ==
    ASSUME VInv, CanCreateStruct, NEW fields, NEW h, FieldsOK(fields, h),
           \A i \in {1, 2} : IsVector(fields[i]) => Elsewhere(fields[i].block, store),
           NEW f, f = emitCreateTuple(fields), NEW val, val = TupleAt(FreshStruct)
    PROVE  /\ Widened(f, h) /\ \A v \in Vars : NewValue(v, val, h, f)
           /\ \A b : Points(val, f, b) <=> \E i \in {1, 2} : IsVector(fields[i]) /\ fields[i].block = b
  <1>1. PICK s : s = FreshStruct
    OBVIOUS
  <1>2. s \in 1..MaxStructs \ DOMAIN frame
    BY <1>1, StructIsFresh
  <1>3. f = [z \in DOMAIN frame \cup {s} |-> IF z = s THEN fields ELSE frame[z]]
    BY <1>1 DEF emitCreateTuple, Put
  <1>4. DOMAIN f = DOMAIN frame \cup {s} /\ f[s] = fields /\ \A z \in DOMAIN frame : f[z] = frame[z]
    BY <1>2, <1>3
  <1>5. Widened(f, h)
    BY <1>2, <1>4, Found DEF Widened, Memory
  <1>6. val.struct = s /\ IsTuple(val) /\ ~IsVector(val) /\ val = TupleAt(val.struct)
    BY <1>1 DEF TupleAt, IsTuple, IsVector
  <1>7. \A v \in Vars : NewValue(v, val, h, f)
    BY <1>4, <1>6 DEF NewValue, Variable
  <1>8. \A b : Points(val, f, b) <=> \E i \in {1, 2} : IsVector(fields[i]) /\ fields[i].block = b
    BY <1>4, <1>6 DEF Points
  <1>. QED BY <1>5, <1>7, <1>8

LEMMA DefaultDecStep ==
    ASSUME VInv, NEW v \in Vars, emitDefaultDec(v) PROVE Tame(Harmless) /\ ~lost'
  <1>1. Statement(0) /\ store[v] = NotDeclared
    BY DEF emitDefaultDec
  <1>2. PICK base \in Bases, size \in 0..MaxSize :
            LET r == createVector(heap, base, [i \in 1..size |-> 0])
            IN \/ emitDec(v, r, size)
               \/ /\ CanCreateStruct /\ base = "integer"
                  /\ Execute(r, Bind(v, TupleAt(FreshStruct)),
                             emitCreateTuple(<<ScalarOperand(ScalarOf("integer", 0)), r.val>>))
    BY DEF emitDefaultDec
  <1>3. PICK elems, Z : elems = [i \in 1..size |-> 0] /\ Z = {}
    OBVIOUS
  <1>4. PICK r : r = createVector(heap, base, elems)
    OBVIOUS
  <1>5. size \in Int /\ Sequence(elems)
    <2>1. size \in Int
      BY VectorCodeAssumption
    <2>. QED BY <1>3, <2>1, IsSequence
  <1>6. HeapOK(heap) /\ Room(heap, 1)
    BY Found
  <1>7. /\ Gives(heap, Z, 1, {"no"}, r) /\ OwnVector(heap, Z, r) /\ Tidy(heap, Z, r)
        /\ r.end = "no" /\ r.val.block \notin DOMAIN heap
    BY <1>3, <1>4, <1>5, <1>6, CreateVector
  <1>8. DOMAIN stack = {}
    BY <1>1, NothingWaits
  <1>9. CASE emitDec(v, r, size)
    <2>1. Makes(heap, Z, 1, Harmless, r)
      BY <1>7, Ends DEF Makes, Gives
    <2>2. \A b \in Z : Elsewhere(b, store) /\ InNoTuple(b)
      BY <1>3
    <2>. QED BY <1>1, <1>5, <1>8, <1>9, <2>1, <2>2, DecStep
  <1>10. CASE /\ CanCreateStruct
              /\ Execute(r, Bind(v, TupleAt(FreshStruct)),
                         emitCreateTuple(<<ScalarOperand(ScalarOf("integer", 0)), r.val>>))
    <2>1. PICK x, y : x = ScalarOperand(ScalarOf("integer", 0)) /\ y = r.val
      OBVIOUS
    <2>2. PICK fields, h : fields = <<x, y>> /\ h = r.heap
      OBVIOUS
    <2>3. PICK f, val : f = emitCreateTuple(fields) /\ val = TupleAt(FreshStruct)
      OBVIOUS
    <2>4. Execute(r, Bind(v, val), f)
      BY <1>10, <2>1, <2>2, <2>3
    <2>5. DOMAIN fields = {1, 2} /\ fields[1] = x /\ fields[2] = y
      BY <2>2
    <2>6. IsScalar(x) /\ ~IsVector(x)
      BY <2>1, ScalarIs, Kinds
    <2>7. /\ y = VectorAt(y.base, y.block) /\ IsVector(y) /\ y.block \in DOMAIN h /\ h[y.block].live
          /\ y.block \notin DOMAIN heap
      BY <1>7, <2>1, <2>2 DEF OwnVector, Live, IsVector, VectorAt
    <2>8. FieldsOK(fields, h)
      BY <2>5, <2>6, <2>7 DEF FieldsOK, Field
    <2>9. Elsewhere(y.block, store)
      <3>1. 0 \in Nat
        OBVIOUS
      <3>. QED BY <2>7, <3>1, NewBlock DEF Unowned
    <2>10. \A i \in {1, 2} : IsVector(fields[i]) => Elsewhere(fields[i].block, store)
      BY <2>5, <2>6, <2>9
    <2>11. /\ Widened(f, h) /\ NewValue(v, val, h, f)
           /\ \A b : Points(val, f, b) <=> \E i \in {1, 2} : IsVector(fields[i]) /\ fields[i].block = b
      BY <1>10, <2>3, <2>8, <2>10, StructIsAdded
    <2>12. \A b : Points(val, f, b) <=> b = y.block
      BY <2>5, <2>6, <2>7, <2>11
    <2>13. Changed(h, Z)
      BY <1>3, <1>7, <2>2 DEF Changed, Gives
    <2>14. /\ VInv' /\ NoEffect /\ status' = "running"
           /\ /\ store[v] = NotDeclared
              /\ \A b \in DOMAIN r.heap : r.heap[b].live => b \in DOMAIN heap \ Z \/ Points(val, f, b)
              /\ \A i \in DOMAIN stack : \A b : Points(stack[i], frame, b) => b \in Z \/ Points(val, f, b)
              => ~lost'
           /\ Dangling = {} /\ (\A b : Points(val, f, b) => r.heap[b].live) => Dangling' = {}
      BY <1>7, <2>2, <2>4, <2>11, <2>13, BindStep
    <2>15. \A b \in DOMAIN r.heap : r.heap[b].live => b \in DOMAIN heap \ Z \/ Points(val, f, b)
      BY <1>7, <2>1, <2>12 DEF Tidy
    <2>16. ~lost'
      BY <1>1, <1>8, <2>14, <2>15
    <2>17. Dangling = {} => Dangling' = {}
      BY <2>2, <2>7, <2>12, <2>14
    <2>. QED BY <2>14, <2>16, <2>17 DEF Tame
  <1>11. \/ emitDec(v, r, size)
         \/ /\ CanCreateStruct
            /\ Execute(r, Bind(v, TupleAt(FreshStruct)),
                       emitCreateTuple(<<ScalarOperand(ScalarOf("integer", 0)), r.val>>))
    BY <1>2, <1>3, <1>4
  <1>. QED BY <1>9, <1>10, <1>11

\* Everything is left as it is.
LEMMA NothingChanges ==
    ASSUME VInv, NEW r, r = Done(heap, Nothing), NEW Z, Z = {}
    PROVE  /\ r.end = "no" /\ r.heap = heap /\ Changed(r.heap, Z) /\ Widened(frame, r.heap)
           /\ Dangling = {} => \A b \in DOMAIN heap : heap[b].live
  <1>1. r.end = "no" /\ r.heap = heap
    BY DEF Done
  <1>. QED BY <1>1, Found DEF Changed, Widened, Dangling, Memory

\* What a tuple operand points to.
LEMMA TupleOperand ==
    ASSUME VInv, Statement(1), IsTuple(Top), NEW p, p = Top
    PROVE  /\ p = TupleAt(p.struct) /\ p.struct \in DOMAIN frame /\ FieldsOK(frame[p.struct], heap)
           /\ \A i \in {1, 2} : IsVector(frame[p.struct][i]) =>
                /\ Elsewhere(frame[p.struct][i].block, store)
                /\ frame[p.struct][i].block \in DOMAIN heap
           /\ \A b : Points(p, frame, b) <=>
                \E i \in {1, 2} : IsVector(frame[p.struct][i]) /\ frame[p.struct][i].block = b
           /\ \A b : Points(p, frame, b) => b \in DOMAIN heap
  <1>1. PICK F : F = frame[p.struct]
    OBVIOUS
  <1>2. p = TupleAt(p.struct) /\ p.struct \in DOMAIN frame /\ FieldsOK(F, heap)
    BY <1>1, StatementIs, OperandAt
  <1>3. Apart(F, store)
    BY <1>1, <1>2, Found DEF Memory
  <1>4. \A i \in {1, 2} : IsVector(F[i]) => Elsewhere(F[i].block, store) /\ F[i].block \in DOMAIN heap
    BY <1>2, <1>3, Found, Kinds DEF FieldsOK, Field, Apart, Elsewhere
  <1>5. \A b : Points(p, frame, b) <=> \E i \in {1, 2} : IsVector(F[i]) /\ F[i].block = b
    <2>1. ~IsVector(p) /\ IsTuple(p)
      BY <1>2, Kinds
    <2>. QED BY <1>1, <2>1 DEF Points
  <1>. QED BY <1>1, <1>2, <1>4, <1>5

LEMMA TupleDecStep ==
    ASSUME VInv, NEW v \in Vars, emitTupleDec(v) PROVE Tame(Harmless) /\ ~lost'
  <1>1. /\ Statement(1) /\ store[v] = NotDeclared /\ IsTuple(Top)
        /\ IF IsVariable(Top)
           THEN CanCreateStruct /\ Execute(Done(heap, Nothing), Bind(v, TupleAt(FreshStruct)),
                                           emitCreateTuple(frame[Top.struct]))
           ELSE Execute(Done(heap, Nothing), Bind(v, Top), frame)
    BY DEF emitTupleDec
  <1>2. PICK p, r, Z : p = Top /\ r = Done(heap, Nothing) /\ Z = {}
    OBVIOUS
  <1>3. PICK fields : fields = frame[p.struct]
    OBVIOUS
  <1>4. /\ p = TupleAt(p.struct) /\ p.struct \in DOMAIN frame /\ FieldsOK(fields, heap)
        /\ \A i \in {1, 2} : IsVector(fields[i]) => Elsewhere(fields[i].block, store)
        /\ \A b : Points(p, frame, b) <=> \E i \in {1, 2} : IsVector(fields[i]) /\ fields[i].block = b
        /\ \A b : Points(p, frame, b) => b \in DOMAIN heap
    BY <1>1, <1>2, <1>3, TupleOperand
  <1>5. /\ r.end = "no" /\ r.heap = heap /\ Changed(r.heap, Z) /\ Widened(frame, r.heap)
        /\ Dangling = {} => \A b \in DOMAIN heap : heap[b].live
    BY <1>2, NothingChanges
  <1>6. PICK val, f : /\ Execute(r, Bind(v, val), f) /\ Widened(f, heap) /\ NewValue(v, val, heap, f)
                      /\ \A b : Points(val, f, b) <=> Points(p, frame, b)
    <2>1. CASE IsVariable(p)
      <3>1. PICK val, f : val = TupleAt(FreshStruct) /\ f = emitCreateTuple(fields)
        OBVIOUS
      <3>2. CanCreateStruct /\ Execute(r, Bind(v, val), f)
        BY <1>1, <1>2, <1>3, <2>1, <3>1
      <3>3. /\ Widened(f, heap) /\ NewValue(v, val, heap, f)
            /\ \A b : Points(val, f, b) <=> \E i \in {1, 2} : IsVector(fields[i]) /\ fields[i].block = b
        BY <1>4, <3>1, <3>2, StructIsAdded
      <3>. QED BY <1>4, <3>2, <3>3
    <2>2. CASE ~IsVariable(p)
      <3>1. Execute(r, Bind(v, p), frame)
        BY <1>1, <1>2, <2>2
      <3>2. NewValue(v, p, heap, frame)
        BY <1>4, Kinds DEF NewValue, Variable
      <3>. QED BY <1>5, <3>1, <3>2
    <2>. QED BY <2>1, <2>2
  <1>7. /\ VInv' /\ NoEffect /\ status' = "running"
        /\ /\ store[v] = NotDeclared
           /\ \A b \in DOMAIN r.heap : r.heap[b].live => b \in DOMAIN heap \ Z \/ Points(val, f, b)
           /\ \A i \in DOMAIN stack : \A b : Points(stack[i], frame, b) => b \in Z \/ Points(val, f, b)
           => ~lost'
        /\ Dangling = {} /\ (\A b : Points(val, f, b) => r.heap[b].live) => Dangling' = {}
    BY <1>5, <1>6, BindStep
  <1>8. \A i \in DOMAIN stack : \A b : Points(stack[i], frame, b) => Points(val, f, b)
    BY <1>1, <1>2, <1>6, StatementIs
  <1>9. ~lost'
    BY <1>1, <1>2, <1>5, <1>7, <1>8
  <1>10. Dangling = {} => Dangling' = {}
    BY <1>4, <1>5, <1>6, <1>7
  <1>. QED BY <1>7, <1>9, <1>10 DEF Tame

\* A field is copied.
LEMMA CloneFieldGives ==
    ASSUME NEW h, HeapOK(h), Room(h, 1), NEW p, Field(p, h), NEW r, r = CloneField(h, p), NEW Z, Z = {}
    PROVE  /\ Gives(h, Z, 1, {"no", "use_after_free"}, r)
           /\ r.end = "no" => Field(r.val, r.heap) /\ (IsVector(r.val) => r.val.block \notin DOMAIN h)
           /\ r.end # "no" => IsVector(p) /\ ~Live(h, p)
  <1>1. CASE IsScalar(p)
    <2>1. r = Done(h, p)
      BY <1>1 DEF CloneField
    <2>2. DOMAIN r = {"heap", "val", "end"} /\ r.heap = h /\ r.val = p /\ r.end = "no"
      BY <2>1 DEF Done
    <2>. QED BY <1>1, <2>2, HeapFinite, Kinds DEF Gives, Field
  <1>2. CASE IsVector(p) /\ ~IsScalar(p)
    <2>1. r = cloneVector(h, p) /\ p.block \in DOMAIN h
      BY <1>2 DEF CloneField, Field
    <2>2. /\ Makes(h, {}, 1, AnyEnd, r) /\ r.end \in {"no", "use_after_free"}
          /\ Live(h, p) => r.end = "no"
          /\ r.end = "no" => r.val.block \notin DOMAIN h
      BY <2>1, CloneVector
    <2>3. Gives(h, Z, 1, AnyEnd, r) /\ OwnVector(h, Z, r)
      BY <2>2 DEF Makes
    <2>4. Gives(h, Z, 1, {"no", "use_after_free"}, r)
      BY <2>2, <2>3 DEF Gives
    <2>5. r.end = "no" => Field(r.val, r.heap)
      BY <2>3 DEF OwnVector, Field, IsVector, VectorAt
    <2>. QED BY <1>2, <2>2, <2>4, <2>5
  <1>. QED BY <1>1, <1>2 DEF Field

LEMMA CloneFieldsGives ==
    ASSUME VInv, NEW fields, FieldsOK(fields, heap), NEW r, r = CloneFields(heap, fields), NEW Z, Z = {}
    PROVE  /\ r.end \in {"no", "use_after_free"}
           /\ r.end # "no" => Dangling # {}
           /\ r.end = "no" => /\ Changed(r.heap, Z) /\ FieldsOK(r.val, r.heap)
                              /\ \A i \in {1, 2} : IsVector(r.val[i]) => Elsewhere(r.val[i].block, store)
  <1>1. HeapOK(heap) /\ Room(heap, 1) /\ Room(heap, 2)
    BY Found
  <1>2. PICK p : p = CloneField(heap, fields[1])
    OBVIOUS
  <1>3. Field(fields[1], heap) /\ Field(fields[2], heap)
    BY DEF FieldsOK
  <1>4. /\ Gives(heap, Z, 1, {"no", "use_after_free"}, p)
        /\ p.end = "no" => Field(p.val, p.heap) /\ (IsVector(p.val) => p.val.block \notin DOMAIN heap)
        /\ p.end # "no" => IsVector(fields[1]) /\ ~Live(heap, fields[1])
    BY <1>1, <1>2, <1>3, CloneFieldGives
  <1>5. CASE p.end # "no"
    <2>1. r = p
      BY <1>2, <1>5 DEF CloneFields, Then
    <2>2. fields[1].block \in Dangling
      BY <1>3, <1>4, <1>5, Kinds DEF Field, Live, Dangling
    <2>. QED BY <1>4, <1>5, <2>1, <2>2 DEF Gives
  <1>6. CASE p.end = "no"
    <2>1. PICK g : g = p.heap
      OBVIOUS
    <2>2. /\ HeapOK(g) /\ DOMAIN heap \subseteq DOMAIN g /\ \A b \in DOMAIN heap : g[b] = heap[b]
          /\ Cardinality(DOMAIN g) <= Cardinality(DOMAIN heap) + 1
      BY <1>4, <1>6, <2>1 DEF Gives
    <2>3. Room(g, 1)
      <3>1. PICK n, m : n = Cardinality(DOMAIN g) /\ m = Cardinality(DOMAIN heap)
        OBVIOUS
      <3>2. n \in Nat /\ m \in Nat /\ n <= m + 1 /\ m + 2 <= MaxBlocks
        BY <1>1, <2>2, <3>1, HeapFinite DEF Room
      <3>3. n + 1 <= MaxBlocks
        BY <3>2, VectorMemoryAssumption
      <3>. QED BY <3>1, <3>3 DEF Room
    <2>4. Field(fields[2], g)
      BY <1>3, <2>2 DEF Field
    <2>5. PICK q : q = CloneField(g, fields[2])
      OBVIOUS
    <2>6. /\ Gives(g, Z, 1, {"no", "use_after_free"}, q)
          /\ q.end = "no" => Field(q.val, q.heap) /\ (IsVector(q.val) => q.val.block \notin DOMAIN g)
          /\ q.end # "no" => IsVector(fields[2]) /\ ~Live(g, fields[2])
      BY <2>2, <2>3, <2>4, <2>5, CloneFieldGives
    <2>7. r = IF q.end = "no" THEN Done(q.heap, <<p.val, q.val>>) ELSE q
      BY <1>2, <1>6, <2>1, <2>5 DEF CloneFields, Then
    <2>8. CASE q.end # "no"
      <3>1. fields[2].block \in Dangling
        BY <1>3, <2>2, <2>6, <2>8, Kinds DEF Field, Live, Dangling
      <3>. QED BY <2>6, <2>7, <2>8, <3>1 DEF Gives
    <2>9. CASE q.end = "no"
      <3>1. PICK h, x, y : h = q.heap /\ x = p.val /\ y = q.val
        OBVIOUS
      <3>2. r = Done(h, <<x, y>>)
        BY <2>7, <2>9, <3>1
      <3>3. r.end = "no" /\ r.heap = h /\ r.val = <<x, y>>
        BY <3>2 DEF Done
      <3>4. /\ HeapOK(h) /\ DOMAIN g \subseteq DOMAIN h /\ \A b \in DOMAIN g : h[b] = g[b]
        BY <2>6, <2>9, <3>1 DEF Gives
      <3>5. Changed(h, Z)
        BY <2>2, <3>4 DEF Changed
      <3>6. Field(x, h) /\ Field(y, h)
        BY <1>4, <1>6, <2>1, <2>6, <2>9, <3>1, <3>4 DEF Field
      <3>7. DOMAIN r.val = {1, 2} /\ r.val[1] = x /\ r.val[2] = y
        BY <3>3
      <3>8. \A b : b \notin DOMAIN heap => Elsewhere(b, store)
        <4>1. 0 \in Nat
          OBVIOUS
        <4>. QED BY <4>1, NewBlock DEF Unowned
      <3>9. (IsVector(x) => Elsewhere(x.block, store)) /\ (IsVector(y) => Elsewhere(y.block, store))
        BY <1>4, <1>6, <2>2, <2>6, <2>9, <3>1, <3>8
      <3>10. FieldsOK(r.val, h)
        BY <3>6, <3>7 DEF FieldsOK
      <3>11. \A i \in {1, 2} : IsVector(r.val[i]) => Elsewhere(r.val[i].block, store)
        BY <3>7, <3>9
      <3>. QED BY <3>3, <3>5, <3>10, <3>11
    <2>. QED BY <2>8, <2>9
  <1>. QED BY <1>5, <1>6

LEMMA AssignTupleStep ==
    ASSUME VInv, NEW v \in Vars, AssignTuple(v)
    PROVE  /\ VInv' /\ NoEffect /\ status' \in {"running", "use_after_free"}
           /\ status' = "use_after_free" => Dangling # {}
           /\ stack # <<>> /\ IsTuple(Top)
  <1>1. Statement(1) /\ IsTuple(store[v]) /\ IsTuple(Top)
    BY DEF AssignTuple
  <1>2. PICK p, fields, Z : p = Top /\ fields = frame[p.struct] /\ Z = {}
    OBVIOUS
  <1>3. /\ p = TupleAt(p.struct) /\ p.struct \in DOMAIN frame /\ FieldsOK(fields, heap) /\ stack # <<>>
    BY <1>1, <1>2, TupleOperand, StatementIs
  <1>4. PICK literal \in BOOLEAN :
            IF literal
            THEN /\ CanCreateStruct /\ ~IsVariable(Top)
                 /\ LET r == CloneFields(heap, frame[Top.struct])
                    IN Execute(r, Bind(v, TupleAt(FreshStruct)), emitCreateTuple(r.val))
            ELSE Execute(Done(heap, Nothing), Bind(v, Top), frame)
    BY DEF AssignTuple
  <1>5. CASE literal
    <2>1. PICK r : r = CloneFields(heap, fields)
      OBVIOUS
    <2>2. PICK val, f : val = TupleAt(FreshStruct) /\ f = emitCreateTuple(r.val)
      OBVIOUS
    <2>3. CanCreateStruct /\ Execute(r, Bind(v, val), f)
      BY <1>2, <1>4, <1>5, <2>1, <2>2
    <2>4. /\ r.end \in {"no", "use_after_free"} /\ (r.end # "no" => Dangling # {})
          /\ r.end = "no" => /\ Changed(r.heap, Z) /\ FieldsOK(r.val, r.heap)
                             /\ \A i \in {1, 2} : IsVector(r.val[i]) => Elsewhere(r.val[i].block, store)
      BY <1>2, <1>3, <2>1, CloneFieldsGives
    <2>5. CASE r.end # "no"
      <3>1. Stop(r.end) /\ r.end = "use_after_free"
        BY <2>3, <2>4, <2>5 DEF Execute
      <3>2. r.end \in AnyEnd
        BY <3>1 DEF AnyEnd
      <3>3. Tame(AnyEnd) /\ status' = r.end
        BY <2>5, <3>1, <3>2, StopIsTame
      <3>. QED BY <1>1, <1>3, <2>4, <3>1, <3>3 DEF Tame
    <2>6. CASE r.end = "no"
      <3>1. Widened(f, r.heap) /\ NewValue(v, val, r.heap, f)
        BY <2>2, <2>3, <2>4, <2>6, StructIsAdded
      <3>2. VInv' /\ NoEffect /\ status' = "running"
        BY <2>3, <2>4, <2>6, <3>1, BindStep
      <3>. QED BY <1>1, <1>3, <3>2
    <2>. QED BY <2>5, <2>6
  <1>6. CASE ~literal
    <2>1. PICK r : r = Done(heap, Nothing)
      OBVIOUS
    <2>2. Execute(r, Bind(v, p), frame)
      BY <1>2, <1>4, <1>6, <2>1
    <2>3. r.end = "no" /\ r.heap = heap /\ Changed(r.heap, Z) /\ Widened(frame, r.heap)
      BY <1>2, <2>1, NothingChanges
    <2>4. NewValue(v, p, heap, frame)
      BY <1>3, Kinds DEF NewValue, Variable
    <2>5. VInv' /\ NoEffect /\ status' = "running"
      BY <2>2, <2>3, <2>4, BindStep
    <2>. QED BY <1>1, <1>3, <2>5
  <1>. QED BY <1>5, <1>6

\* The vector that is assigned: that of the operand, or one of its copies.
LEMMA SourceIs ==
    ASSUME VInv, Statement(1), ~IsTuple(Top), NEW size \in Int, NEW base,
           NEW r, r = IF IsScalar(Top) THEN scalarToVector(heap, Top, size, base) ELSE Done(heap, Top)
    PROVE  /\ r.end \in Harmless
           /\ r.end = "no" =>
                /\ HeapOK(r.heap) /\ DOMAIN heap \subseteq DOMAIN r.heap
                /\ \A b \in DOMAIN heap : r.heap[b] = heap[b]
                /\ LiveVector(r.heap, r.val)
                /\ Elsewhere(r.val.block, store) /\ InNoTuple(r.val.block)
                /\ \A b \in DOMAIN r.heap : r.heap[b].live => b \in DOMAIN heap \/ b = r.val.block
                /\ \A i \in DOMAIN stack : \A b : Points(stack[i], frame, b) => b = r.val.block
  <1>1. PICK p, Z : p = Top /\ Z = {}
    OBVIOUS
  <1>2. HeapOK(heap) /\ Room(heap, 1) /\ Usable(heap, p)
    BY <1>1, Found, StatementIs, OperandAt
  <1>3. CASE IsScalar(p)
    <2>1. r = scalarToVector(heap, p, size, base)
      BY <1>1, <1>3
    <2>2. Makes(heap, {}, 1, Harmless, r)
      BY <1>2, <2>1, ScalarToVector
    <2>3. Gives(heap, Z, 1, Harmless, r) /\ OwnVector(heap, Z, r) /\ Tidy(heap, Z, r)
      BY <1>1, <2>2 DEF Makes
    <2>4. \A i \in DOMAIN stack : \A b : ~Points(stack[i], frame, b)
      BY <1>1, <1>3, StatementIs, Kinds DEF Points
    <2>5. ASSUME r.end = "no"
          PROVE  LiveVector(r.heap, r.val) /\ r.val.block \notin DOMAIN heap
      BY <1>1, <2>3, <2>5 DEF OwnVector, LiveVector, IsVector, VectorAt
    <2>6. \A b : b \notin DOMAIN heap => Elsewhere(b, store) /\ InNoTuple(b)
      <3>1. 0 \in Nat
        OBVIOUS
      <3>. QED BY <3>1, NewBlock DEF Unowned
    <2>7. r.end \in Harmless
      BY <2>3 DEF Gives
    <2>8. r.end = "no" => /\ HeapOK(r.heap) /\ DOMAIN heap \subseteq DOMAIN r.heap
                          /\ \A b \in DOMAIN heap : r.heap[b] = heap[b]
      BY <1>1, <2>3 DEF Gives
    <2>9. r.end = "no" => \A b \in DOMAIN r.heap : r.heap[b].live => b \in DOMAIN heap \/ b = r.val.block
      BY <2>3 DEF Tidy
    <2>. QED BY <2>4, <2>5, <2>6, <2>7, <2>8, <2>9
  <1>4. CASE LiveVector(heap, p)
    <2>1. IsVector(p) /\ ~IsScalar(p)
      BY <1>4, Kinds DEF LiveVector
    <2>2. r = Done(heap, p)
      BY <1>1, <2>1
    <2>3. r.end = "no" /\ r.heap = heap /\ r.val = p
      BY <2>2 DEF Done
    <2>4. Elsewhere(p.block, store) /\ InNoTuple(p.block)
      BY <1>1, <2>1, StatementIs
    <2>5. \A i \in DOMAIN stack : \A b : Points(stack[i], frame, b) => b = p.block
      BY <1>1, <2>1, StatementIs, Kinds DEF Points
    <2>. QED BY <1>2, <1>4, <2>3, <2>4, <2>5, Ends
  <1>. QED BY <1>2, <1>3, <1>4 DEF Usable

LEMMA AssignVectorStep ==
    ASSUME VInv, NEW v \in Vars, AssignVector(v)
    PROVE  Tame(Outside) /\ ~lost'
  <1>1. Statement(1) /\ IsVector(store[v]) /\ ~IsTuple(Top) /\ Execute(visitIdAssign(v, Top), store, frame)
    BY DEF AssignVector
  <1>2. PICK t : t = visitIdAssign(v, Top)
    OBVIOUS
  <1>3. PICK r : r = IF IsScalar(Top) THEN scalarToVector(heap, Top, store[v].size, store[v].base)
                     ELSE Done(heap, Top)
    OBVIOUS
  <1>4. store[v].block \in DOMAIN heap /\ heap[store[v].block].live /\ store[v].size \in Int
        /\ InNoTuple(store[v].block) /\ DOMAIN store = Vars
    BY <1>1, VariableAt, Found DEF InNoTuple
  <1>5. PICK h, from, c : h = r.heap /\ from = r.val /\ c = store[v].block
    OBVIOUS
  <1>6. /\ r.end \in Harmless
        /\ r.end = "no" =>
             /\ HeapOK(h) /\ DOMAIN heap \subseteq DOMAIN h /\ \A b \in DOMAIN heap : h[b] = heap[b]
             /\ LiveVector(h, from) /\ Elsewhere(from.block, store) /\ InNoTuple(from.block)
             /\ \A b \in DOMAIN h : h[b].live => b \in DOMAIN heap \/ b = from.block
             /\ \A i \in DOMAIN stack : \A b : Points(stack[i], frame, b) => b = from.block
    BY <1>1, <1>3, <1>4, <1>5, SourceIs
  <1>7. t = IF r.end # "no" THEN r
            ELSE IF store[v].size # NoSize /\ Live(h, from)
                    /\ ~declVectorSizeCheck(store[v].size, getArrSize(h, from))
                 THEN Ended(h, "SizeError") ELSE emitAssignVector(h, v, from)
    BY <1>2, <1>3, <1>5 DEF visitIdAssign, Then
  <1>8. /\ t.end \in Outside
        /\ t.end = "no" =>
             /\ HeapOK(h) /\ DOMAIN heap \subseteq DOMAIN h /\ \A b \in DOMAIN heap : h[b] = heap[b]
             /\ Elsewhere(from.block, store) /\ InNoTuple(from.block)
             /\ \A b \in DOMAIN h : h[b].live => b \in DOMAIN heap \/ b = from.block
             /\ \A i \in DOMAIN stack : \A b : Points(stack[i], frame, b) => b = from.block
             /\ HeapOK(t.heap) /\ DOMAIN t.heap = DOMAIN h
             /\ \A b \in DOMAIN h : t.heap[b].live => h[b].live
             /\ \A b \in DOMAIN h \ {c, from.block} : t.heap[b] = h[b]
             /\ t.heap[c].live /\ ~t.heap[from.block].live
    <2>1. CASE r.end # "no"
      BY <1>6, <1>7, <2>1, Ends
    <2>2. CASE r.end = "no" /\ t = Ended(h, "SizeError")
      BY <2>2 DEF Ended, Outside, Harmless
    <2>3. CASE r.end = "no" /\ t = emitAssignVector(h, v, from)
      <3>1. /\ store[v].block \in DOMAIN h /\ from.block \in DOMAIN h /\ store[v].block # from.block
            /\ h[store[v].block].live /\ Live(h, from) /\ HeapOK(h)
        BY <1>1, <1>4, <1>6, <2>3 DEF LiveVector, Elsewhere
      <3>2. /\ Changes(h, {store[v].block, from.block}, AnyEnd, t)
            /\ t.end = "no" => t.heap[store[v].block].live /\ ~t.heap[from.block].live
            /\ t.end \in {"no", "out_of_bounds"}
        BY <2>3, <3>1, AssignGives
      <3>3. t.end \in Outside
        BY <3>2 DEF Outside, Harmless
      <3>4. t.end = "no" => /\ HeapOK(t.heap) /\ DOMAIN t.heap = DOMAIN h
                            /\ \A b \in DOMAIN h : t.heap[b].live => h[b].live
                            /\ \A b \in DOMAIN h \ {c, from.block} : t.heap[b] = h[b]
        BY <1>5, <3>2 DEF Changes, Gives
      <3>. QED BY <1>5, <1>6, <2>3, <3>2, <3>3, <3>4
    <2>. QED BY <1>7, <2>1, <2>2, <2>3
  <1>9. PICK g, stk : g = t.heap /\ stk = <<>>
    OBVIOUS
  <1>10. t.end = "no" => Memory(g, frame, store, stk)
    <2>1. SUFFICES ASSUME t.end = "no" PROVE Memory(g, frame, store, stk)
      OBVIOUS
    <2>2. PICK D : D = {c, from.block}
      OBVIOUS
    <2>3. /\ HeapOK(g) /\ DOMAIN heap \subseteq DOMAIN g /\ \A b \in DOMAIN heap \ D : g[b] = heap[b]
      BY <1>8, <1>9, <2>1, <2>2
    <2>4. \A u \in Vars : IsVector(store[u]) /\ store[u].block \in D => g[store[u].block].live
      BY <1>4, <1>8, <1>9, <2>1, <2>2 DEF Elsewhere
    <2>. QED BY <1>9, <2>3, <2>4, MemoryAfter
  <1>11. Execute(t, store, frame) /\ t.end \in Outside /\ Outside \subseteq AnyEnd
    BY <1>1, <1>2, <1>8, Ends
  <1>12. /\ VInv' /\ NoEffect /\ status' \in Outside \cup {"running"}
         /\ t.end # "no" => ~lost' /\ Dangling' = {}
         /\ t.end = "no" /\ Reached(t.heap, frame, store) => ~lost'
         /\ t.end = "no" /\ Intact(t.heap, frame, store) => Dangling' = {}
    BY <1>9, <1>10, <1>11, ExecuteStep
  <1>13. ASSUME t.end = "no" PROVE Reached(g, frame, store)
    <2>1. SUFFICES ASSUME NEW b \in DOMAIN g, g[b].live PROVE \E u \in Vars : Points(store[u], frame, b)
      BY DEF Reached
    <2>2. b # from.block /\ h[b].live /\ b \in DOMAIN h
      BY <1>8, <1>9, <1>13, <2>1
    <2>3. b \in DOMAIN heap
      BY <1>8, <1>13, <2>2
    <2>. QED BY <1>8, <1>13, <2>2, <2>3, HeldAlready
  <1>14. ASSUME t.end = "no", Dangling = {} PROVE Intact(g, frame, store)
    <2>1. SUFFICES ASSUME NEW u \in Vars, NEW b, Points(store[u], frame, b) PROVE g[b].live
      BY DEF Intact
    <2>2. b \in DOMAIN heap /\ heap[b].live
      BY <1>14, <2>1, VariablePoints
    <2>3. b # from.block
      BY <1>8, <1>14, <2>1, Unpointed
    <2>4. b = c => g[b].live
      BY <1>8, <1>9, <1>14
    <2>5. b # c => g[b] = h[b] /\ h[b] = heap[b]
      BY <1>8, <1>9, <1>14, <2>2, <2>3
    <2>. QED BY <2>2, <2>4, <2>5
  <1>15. ~lost'
    BY <1>9, <1>12, <1>13
  <1>16. Dangling = {} => Dangling' = {}
    BY <1>9, <1>12, <1>14
  <1>. QED BY <1>12, <1>15, <1>16 DEF Tame

\* A field of a tuple gets a value; what it had is lost.
LEMMA TupAssignStep ==
    ASSUME VInv, NEW v \in Vars, emitTupAssign(v)
    PROVE  VInv' /\ NoEffect /\ status' = "running" /\ (Dangling = {} => Dangling' = {})
  <1>1. Statement(1) /\ IsTuple(store[v]) /\ ~IsTuple(Top)
    BY DEF emitTupAssign
  <1>2. PICK s, p, r, Z : s = store[v].struct /\ p = Top /\ r = Done(heap, Nothing) /\ Z = {}
    OBVIOUS
  <1>3. PICK pos \in DOMAIN frame[s] : Execute(r, store, [frame EXCEPT ![s][pos] = p])
    BY <1>2 DEF emitTupAssign
  <1>4. PICK F, G : F = frame[s] /\ G = [F EXCEPT ![pos] = p]
    OBVIOUS
  <1>5. PICK f : f = [frame EXCEPT ![s] = G]
    OBVIOUS
  <1>6. Execute(r, store, f)
    BY <1>3, <1>4, <1>5
  <1>7. s \in DOMAIN frame /\ FieldsOK(F, heap) /\ Apart(F, store)
    BY <1>1, <1>2, <1>4, VariableAt, Found DEF Memory
  <1>8. /\ DOMAIN f = DOMAIN frame /\ f[s] = G /\ \A x \in DOMAIN frame \ {s} : f[x] = frame[x]
        /\ DOMAIN G = {1, 2} /\ \A i \in {1, 2} : G[i] = IF i = pos THEN p ELSE F[i]
    BY <1>4, <1>5, <1>7 DEF FieldsOK
  <1>9. Usable(heap, p) /\ (IsVector(p) => LiveVector(heap, p) /\ Elsewhere(p.block, store))
    BY <1>1, <1>2, StatementIs, OperandAt
  <1>10. Field(p, heap)
    BY <1>9 DEF Usable, Field, LiveVector
  <1>11. FieldsOK(G, heap)
    BY <1>7, <1>8, <1>10 DEF FieldsOK
  <1>12. \A i \in {1, 2} : IsVector(G[i]) => Elsewhere(G[i].block, store)
    BY <1>7, <1>8, <1>9 DEF FieldsOK, Apart, Elsewhere
  <1>13. r.end = "no" /\ r.heap = heap
    BY <1>2 DEF Done
  <1>14. PICK stk : stk = <<>>
    OBVIOUS
  <1>15. Memory(heap, frame, store, stk) /\ DOMAIN stk = {}
    <2>1. /\ HeapOK(heap) /\ DOMAIN heap \subseteq DOMAIN heap /\ \A b \in DOMAIN heap \ Z : heap[b] = heap[b]
          /\ \A u \in Vars : IsVector(store[u]) /\ store[u].block \in Z => heap[store[u].block].live
      BY <1>2, Found
    <2>. QED BY <1>14, <2>1, MemoryAfter
  <1>16. Memory(heap, f, store, stk)
    <2>1. \A x \in DOMAIN frame : FieldsOK(frame[x], heap) /\
                \A i \in {1, 2} : IsVector(frame[x][i]) => Elsewhere(frame[x][i].block, store)
      <3>1. TAKE x \in DOMAIN frame
      <3>2. PICK X : X = frame[x]
        OBVIOUS
      <3>3. FieldsOK(X, heap) /\ Apart(X, store)
        BY <3>2, Found DEF Memory
      <3>. QED BY <3>2, <3>3 DEF FieldsOK, Apart, Elsewhere
    <2>2. DOMAIN frame \subseteq DOMAIN f /\ DOMAIN f \subseteq 1..MaxStructs
      BY <1>8, Found DEF Memory
    <2>3. \A b : Elsewhere(b, stk)
      BY <1>15 DEF Elsewhere
    <2>4. \A x \in DOMAIN f : /\ FieldsOK(f[x], heap)
                              /\ \A i \in {1, 2} : IsVector(f[x][i]) =>
                                    Elsewhere(f[x][i].block, store) /\ Elsewhere(f[x][i].block, stk)
      <3>1. TAKE x \in DOMAIN f
      <3>2. CASE x = s
        BY <1>8, <1>11, <1>12, <2>3, <3>2
      <3>3. CASE x # s
        BY <1>8, <2>1, <2>3, <3>1, <3>3
      <3>. QED BY <3>2, <3>3
    <2>. QED BY <1>15, <2>2, <2>4, FrameAfter
  <1>17. PICK E : E = {"no"}
    OBVIOUS
  <1>18. E \subseteq AnyEnd /\ r.end \in E /\ Memory(r.heap, f, store, stk)
    BY <1>13, <1>16, <1>17, Ends
  <1>19. /\ VInv' /\ NoEffect /\ status' = "running"
         /\ Intact(r.heap, f, store) => Dangling' = {}
    BY <1>6, <1>13, <1>14, <1>18, ExecuteStep
  <1>20. ASSUME Dangling = {} PROVE Intact(heap, f, store)
    <2>1. SUFFICES ASSUME NEW u \in Vars, NEW b, Points(store[u], f, b) PROVE b \in DOMAIN heap
      BY <1>20 DEF Intact, Dangling
    <2>2. PICK q : q = store[u]
      OBVIOUS
    <2>3. CASE IsTuple(q)
      <3>1. q.struct \in DOMAIN f /\ ~IsVector(q)
        BY <1>8, <2>2, <2>3, VariableAt, Kinds
      <3>2. FieldsOK(f[q.struct], heap)
        BY <1>16, <3>1 DEF Memory
      <3>. QED BY <2>1, <2>2, <3>1, <3>2, Kinds DEF Points, FieldsOK, Field
    <2>4. CASE ~IsTuple(q)
      BY <2>1, <2>2, <2>4, VariableAt DEF Points
    <2>. QED BY <2>3, <2>4
  <1>. QED BY <1>13, <1>19, <1>20

\* The vectors of the variables are allocated in h.
Standing(h) ==
    /\ HeapOK(h) /\ DOMAIN h = DOMAIN heap
    /\ \A u \in Vars : IsVector(store[u]) => h[store[u].block].live

\* One field of the tuple t is unpacked.
LEMMA UnpackFieldGives ==
    ASSUME VInv, NEW t \in Vars, IsTuple(store[t]), NEW own, own = VectorsOf(store[t], frame),
           NEW targets \in [DOMAIN own -> {u \in Vars : IsVector(store[u])}],
           NEW h, Standing(h), NEW i, NEW r, r = UnpackField(h, own, targets, i)
    PROVE  /\ r.end \in AnyEnd
           /\ i \notin DOMAIN own \/ Live(h, own[i]) => r.end \in {"no", "out_of_bounds"}
           /\ r.end = "no" => /\ Standing(r.heap)
                              /\ \A b \in DOMAIN heap : h[b].live =>
                                    r.heap[b].live \/ (i \in DOMAIN own /\ own[i].block = b)
  <1>1. CASE i \notin DOMAIN own
    <2>1. r = Done(h, Nothing)
      BY <1>1 DEF UnpackField
    <2>2. r.end = "no" /\ r.heap = h
      BY <2>1 DEF Done
    <2>. QED BY <2>2, Ends
  <1>2. CASE i \in DOMAIN own
    <2>1. PICK v, from : v = targets[i] /\ from = own[i]
      OBVIOUS
    <2>2. r = emitAssignVector(h, v, from) /\ v \in Vars /\ IsVector(store[v])
      BY <1>2, <2>1 DEF UnpackField
    <2>3. store[t] \in Pointers(store, stack)
      BY Found DEF Pointers, Range
    <2>4. /\ IsVector(from) /\ from.block \in DOMAIN heap
          /\ store[t].struct \in DOMAIN frame /\ i \in {1, 2} /\ from = frame[store[t].struct][i]
      <3>1. PICK p : p = store[t]
        OBVIOUS
      <3>2. p \in Pointers(store, stack) /\ IsTuple(p) /\ own = VectorsOf(p, frame)
        BY <2>3, <3>1
      <3>3. /\ \A j \in DOMAIN own : IsVector(own[j]) /\ own[j].block \in DOMAIN heap
            /\ p.struct \in DOMAIN frame
            /\ DOMAIN own = {j \in {1, 2} : IsVector(frame[p.struct][j])}
            /\ \A j \in DOMAIN own : own[j] = frame[p.struct][j]
        BY <3>2, VectorsAt
      <3>. QED BY <1>2, <2>1, <3>1, <3>3
    <2>5. Elsewhere(from.block, store)
      <3>1. PICK F : F = frame[store[t].struct]
        OBVIOUS
      <3>2. FieldsOK(F, heap) /\ Apart(F, store)
        BY <2>4, <3>1, Found DEF Memory
      <3>. QED BY <2>4, <3>1, <3>2 DEF FieldsOK, Apart, Elsewhere
    <2>6. store[v].block \in DOMAIN h /\ from.block \in DOMAIN h /\ store[v].block # from.block
          /\ h[store[v].block].live /\ HeapOK(h)
      BY <2>2, <2>4, <2>5, VariableAt, Found DEF Standing, Elsewhere
    <2>7. /\ Changes(h, {store[v].block, from.block}, AnyEnd, r)
          /\ r.end = "no" => r.heap[store[v].block].live
          /\ Live(h, from) => r.end \in {"no", "out_of_bounds"}
      BY <2>2, <2>6, AssignGives
    <2>8. r.end \in AnyEnd
      BY <2>7 DEF Changes, Gives
    <2>9. ASSUME r.end = "no"
          PROVE  /\ HeapOK(r.heap) /\ DOMAIN r.heap = DOMAIN h
                 /\ \A b \in DOMAIN h \ {store[v].block, from.block} : r.heap[b] = h[b]
      BY <2>7, <2>9 DEF Changes, Gives
    <2>10. ASSUME r.end = "no" PROVE Standing(r.heap)
      <3>1. ASSUME NEW u \in Vars, IsVector(store[u]) PROVE r.heap[store[u].block].live
        <4>1. store[u].block \in DOMAIN h /\ store[u].block # from.block /\ h[store[u].block].live
          BY <2>5, <3>1, VariableAt, Found DEF Standing, Elsewhere
        <4>2. CASE store[u].block = store[v].block
          BY <2>7, <2>10, <4>2
        <4>3. CASE store[u].block # store[v].block
          BY <2>9, <2>10, <4>1, <4>3
        <4>. QED BY <4>2, <4>3
      <3>. QED BY <2>9, <2>10, <3>1 DEF Standing
    <2>11. ASSUME r.end = "no", NEW b \in DOMAIN heap, h[b].live
           PROVE  r.heap[b].live \/ own[i].block = b
      BY <2>1, <2>7, <2>9, <2>11 DEF Standing
    <2>. QED BY <1>2, <2>1, <2>7, <2>8, <2>10, <2>11
  <1>. QED BY <1>1, <1>2

LEMMA UnpackStep ==
    ASSUME VInv, NEW t \in Vars, Unpack(t)
    PROVE  /\ VInv' /\ NoEffect /\ status' \in AnyEnd \cup {"running"} /\ ~lost'
           /\ status' \in {"use_after_free", "double_free"} => Wrong
  <1>1. Statement(0) /\ IsTuple(store[t])
    BY DEF Unpack
  <1>2. PICK own : own = VectorsOf(store[t], frame)
    OBVIOUS
  <1>3. PICK targets \in [DOMAIN own -> {u \in Vars : IsVector(store[u])}] :
            Execute(IF UnpackField(heap, own, targets, 1).end = "no"
                    THEN UnpackField(UnpackField(heap, own, targets, 1).heap, own, targets, 2)
                    ELSE UnpackField(heap, own, targets, 1), store, frame)
    BY <1>2 DEF Unpack, Then
  <1>4. PICK p : p = UnpackField(heap, own, targets, 1)
    OBVIOUS
  <1>5. PICK r : r = IF p.end = "no" THEN UnpackField(p.heap, own, targets, 2) ELSE p
    OBVIOUS
  <1>6. Execute(r, store, frame)
    BY <1>3, <1>4, <1>5
  <1>7. Standing(heap)
    BY Found, VariableAt DEF Standing
  <1>8. /\ p.end \in AnyEnd
        /\ 1 \notin DOMAIN own \/ Live(heap, own[1]) => p.end \in {"no", "out_of_bounds"}
        /\ p.end = "no" => /\ Standing(p.heap)
                           /\ \A b \in DOMAIN heap : heap[b].live =>
                                p.heap[b].live \/ (1 \in DOMAIN own /\ own[1].block = b)
    BY <1>1, <1>2, <1>4, <1>7, UnpackFieldGives
  <1>9. p.end = "no" =>
            /\ r.end \in AnyEnd
            /\ 2 \notin DOMAIN own \/ Live(p.heap, own[2]) => r.end \in {"no", "out_of_bounds"}
            /\ r.end = "no" => Standing(r.heap)
    <2>1. HAVE p.end = "no"
    <2>2. PICK h : h = p.heap
      OBVIOUS
    <2>3. r = UnpackField(h, own, targets, 2) /\ Standing(h)
      BY <1>5, <1>8, <2>1, <2>2
    <2>4. /\ r.end \in AnyEnd
          /\ 2 \notin DOMAIN own \/ Live(h, own[2]) => r.end \in {"no", "out_of_bounds"}
          /\ r.end = "no" => Standing(r.heap)
      BY <1>1, <1>2, <2>3, UnpackFieldGives
    <2>. QED BY <2>2, <2>4
  <1>10. \A i \in DOMAIN own : own[i].block \in DOMAIN heap
    <2>1. store[t] \in Pointers(store, stack)
      BY Found DEF Pointers, Range
    <2>. QED BY <1>2, <2>1, VectorsAt
  <1>11. ASSUME r.end \in {"use_after_free", "double_free"} PROVE Wrong
    <2>1. CASE p.end # "no"
      <3>1. 1 \in DOMAIN own /\ ~Live(heap, own[1])
        BY <1>5, <1>8, <1>11, <2>1
      <3>. QED BY <1>10, <3>1 DEF Live, Dangling, Wrong
    <2>2. CASE p.end = "no"
      <3>1. 2 \in DOMAIN own /\ ~Live(p.heap, own[2])
        BY <1>9, <1>11, <2>2
      <3>2. CASE ~Live(heap, own[2])
        BY <1>10, <3>1, <3>2 DEF Live, Dangling, Wrong
      <3>3. CASE Live(heap, own[2])
        <4>1. PICK b : b = own[2].block
          OBVIOUS
        <4>2. 1 \in DOMAIN own /\ own[1].block = b /\ b \in DOMAIN heap
          BY <1>8, <1>10, <2>2, <3>1, <3>3, <4>1 DEF Live
        <4>3. PICK A : A = Owners(store, b)
          OBVIOUS
        <4>4. \A e : e \in A <=>
                  \E x \in DOMAIN store : \E i \in DOMAIN VectorsOf(store[x], frame) :
                        e = <<x, i>> /\ VectorsOf(store[x], frame)[i].block = b
          BY <4>3, PlacesOf, OwnersOf
        <4>5. <<t, 1>> \in A /\ <<t, 2>> \in A /\ <<t, 1>> # <<t, 2>>
          BY <1>2, <3>1, <4>1, <4>2, <4>4, Found
        <4>6. ~Owned1(b)
          BY <4>3, <4>5, SharedIsNotOwned
        <4>. QED BY <4>2, <4>6 DEF Wrong
      <3>. QED BY <3>2, <3>3
    <2>. QED BY <2>1, <2>2
  <1>12. r.end \in AnyEnd /\ (r.end = "no" => Standing(r.heap))
    BY <1>5, <1>8, <1>9
  <1>13. PICK stk, E : stk = <<>> /\ E = AnyEnd
    OBVIOUS
  <1>14. Memory(heap, frame, store, stk) /\ DOMAIN stk = {}
    <2>1. PICK Z : Z = {}
      OBVIOUS
    <2>2. /\ HeapOK(heap) /\ DOMAIN heap \subseteq DOMAIN heap /\ \A b \in DOMAIN heap \ Z : heap[b] = heap[b]
          /\ \A u \in Vars : IsVector(store[u]) /\ store[u].block \in Z => heap[store[u].block].live
      BY <2>1, Found
    <2>. QED BY <1>13, <2>2, MemoryAfter
  <1>15. ASSUME r.end = "no" PROVE Memory(r.heap, frame, store, stk)
    <2>1. PICK g : g = r.heap
      OBVIOUS
    <2>2. HeapOK(g) /\ DOMAIN heap \subseteq DOMAIN g
          /\ \A u \in Vars : IsVector(store[u]) /\ heap[store[u].block].live => g[store[u].block].live
      BY <1>12, <1>15, <2>1 DEF Standing
    <2>3. \A i \in DOMAIN stk : IsVector(stk[i]) /\ heap[stk[i].block].live => g[stk[i].block].live
      BY <1>14
    <2>. QED BY <1>14, <2>1, <2>2, <2>3, HeapAfter
  <1>16. r.end \in E /\ E \subseteq AnyEnd
    BY <1>12, <1>13
  <1>17. /\ VInv' /\ NoEffect /\ status' \in E \cup {"running"}
         /\ r.end # "no" => status' = r.end /\ ~lost'
         /\ r.end = "no" => status' = "running"
         /\ r.end = "no" /\ Reached(r.heap, frame, store) => ~lost'
    BY <1>6, <1>13, <1>15, <1>16, ExecuteStep
  <1>18. r.end = "no" => Reached(r.heap, frame, store)
    <2>1. DOMAIN stack = {}
      BY <1>1, NothingWaits
    <2>. QED BY <1>12, <2>1, HeldAlready DEF Reached, Standing
  <1>19. ~lost'
    BY <1>17, <1>18
  <1>20. status' \in {"use_after_free", "double_free"} => Wrong
    BY <1>11, <1>17
  <1>. QED BY <1>13, <1>17, <1>19, <1>20

---------------------------------------------------------------------------
(* The end of a block, and return.                                         *)

\* Everything the variables have is freed.
LEMMA OwnedIsFreed ==
    ASSUME VInv, NEW r, r = visitFreeNode, NEW D, D = BlocksOf(Owned)
    PROVE  /\ Changes(heap, D, {"no", "double_free"}, r)
           /\ \A b : b \in D <=> \E v \in Vars : Points(store[v], frame, b)
           /\ r.end = "no" => \A b \in D : ~r.heap[b].live
           /\ r.end # "no" => Wrong
  <1>1. PICK all : all = AllVectors(store, frame)
    OBVIOUS
  <1>2. /\ \A q : q \in DOMAIN all <=>
                  \E x \in DOMAIN store : \E i \in DOMAIN VectorsOf(store[x], frame) : q = <<x, i>>
        /\ \A x \in DOMAIN store : \A i \in DOMAIN VectorsOf(store[x], frame) :
                  all[<<x, i>>] = VectorsOf(store[x], frame)[i]
    BY <1>1, Entries
  <1>3. r = FreeAll(heap, all) /\ D = BlocksOf(all) /\ HeapOK(heap) /\ DOMAIN store = Vars
    BY <1>1, Found DEF visitFreeNode, Owned
  <1>4. \A v \in Vars : store[v] \in Pointers(store, stack)
    BY <1>3 DEF Pointers, Range
  <1>5. \A v \in Vars : \A b : Points(store[v], frame, b) <=>
                \E i \in DOMAIN VectorsOf(store[v], frame) : VectorsOf(store[v], frame)[i].block = b
    <2>1. TAKE v \in Vars
    <2>2. PICK p : p = store[v]
      OBVIOUS
    <2>3. TwoFields(p, frame)
      BY <1>4, <2>2, VectorsAt
    <2>. QED BY <2>2, <2>3, PointsIff
  <1>6. \A b : b \in D <=> \E v \in Vars : Points(store[v], frame, b)
    <2>1. \A b : b \in D <=> \E q \in DOMAIN all : all[q].block = b
      BY <1>3 DEF BlocksOf
    <2>2. TAKE b
    <2>3. ASSUME NEW q \in DOMAIN all, all[q].block = b PROVE \E v \in Vars : Points(store[v], frame, b)
      <3>1. PICK x \in Vars : \E i \in DOMAIN VectorsOf(store[x], frame) : q = <<x, i>>
        BY <1>2, <1>3, <2>3
      <3>2. PICK i \in DOMAIN VectorsOf(store[x], frame) : q = <<x, i>>
        BY <3>1
      <3>3. VectorsOf(store[x], frame)[i].block = b
        BY <1>2, <1>3, <2>3, <3>2
      <3>. QED BY <1>5, <3>3
    <2>4. ASSUME NEW v \in Vars, Points(store[v], frame, b) PROVE \E q \in DOMAIN all : all[q].block = b
      <3>1. PICK i \in DOMAIN VectorsOf(store[v], frame) : VectorsOf(store[v], frame)[i].block = b
        BY <1>5, <2>4
      <3>2. <<v, i>> \in DOMAIN all /\ all[<<v, i>>].block = b
        BY <1>2, <1>3, <3>1
      <3>. QED BY <3>2
    <2>. QED BY <2>1, <2>3, <2>4
  <1>7. D \subseteq DOMAIN heap
    BY <1>6, VariablePoints
  <1>8. /\ Changes(heap, D, {"no", "double_free"}, r)
        /\ r.end = "no" => \A b \in D : ~r.heap[b].live
        /\ r.end # "no" => \E q \in DOMAIN all :
                              \/ ~Live(heap, all[q])
                              \/ \E s \in DOMAIN all \ {q} : all[s].block = all[q].block
    BY <1>3, <1>7, FreeAllGives
  <1>9. ASSUME r.end # "no" PROVE Wrong
    <2>1. PICK q \in DOMAIN all : \/ ~Live(heap, all[q])
                                  \/ \E s \in DOMAIN all \ {q} : all[s].block = all[q].block
      BY <1>8, <1>9
    <2>2. PICK b : b = all[q].block
      OBVIOUS
    <2>3. b \in DOMAIN heap
      BY <1>3, <1>7, <2>2 DEF BlocksOf
    <2>4. CASE ~Live(heap, all[q])
      BY <2>2, <2>3, <2>4 DEF Live, Dangling, Wrong
    <2>5. CASE \E s \in DOMAIN all \ {q} : all[s].block = all[q].block
      <3>1. PICK s \in DOMAIN all \ {q} : all[s].block = b
        BY <2>2, <2>5
      <3>2. q \in Owners(store, b) /\ s \in Owners(store, b) /\ q # s
        BY <1>1, <2>2, <3>1 DEF Owners
      <3>3. ~Owned1(b)
        BY <3>2, SharedIsNotOwned
      <3>. QED BY <2>3, <3>3 DEF Wrong
    <2>. QED BY <2>1, <2>4, <2>5
  <1>. QED BY <1>6, <1>8, <1>9

\* A place without variables.
LEMMA NoVariablesAre ==
    ASSUME VInv, NEW g, HeapOK(g), NEW f, f = frame, DOMAIN heap \subseteq DOMAIN g, NEW stk, Sequence(stk),
           DOMAIN stk \subseteq DOMAIN stack,
           \A i \in DOMAIN stk : stk[i] = stack[i] /\ Operand(stk[i], g, f),
           NEW sto, sto = NoVariables
    PROVE  /\ Memory(g, f, sto, stk)
           /\ \A v \in Vars : \A b : ~Points(sto[v], f, b)
  <1>1. DOMAIN sto = Vars /\ \A v \in Vars : sto[v] = NotDeclared
    BY DEF NoVariables
  <1>2. ~IsVector(NotDeclared) /\ ~IsTuple(NotDeclared)
    BY DEF IsVector, IsTuple, NotDeclared
  <1>3. Memory(heap, frame, store, stack)
    BY Found
  <1>4. Alone(sto) /\ Apart(sto, stk) /\ \A v \in Vars : Variable(sto[v], g, f)
    BY <1>1, <1>2 DEF Alone, Apart, Variable
  <1>5. Alone(stk)
    <2>1. Alone(stack)
      BY <1>3 DEF Memory
    <2>. QED BY <2>1 DEF Alone
  <1>6. \A s \in DOMAIN f : FieldsOK(f[s], g) /\ Apart(f[s], sto) /\ Apart(f[s], stk)
    <2>1. TAKE s \in DOMAIN f
    <2>2. PICK F : F = f[s]
      OBVIOUS
    <2>3. FieldsOK(F, heap) /\ Apart(F, stack)
      BY <1>3, <2>2 DEF Memory
    <2>4. FieldsOK(F, g)
      BY <2>3 DEF FieldsOK, Field
    <2>5. Apart(F, sto)
      BY <1>1, <1>2 DEF Apart
    <2>6. Apart(F, stk)
      BY <2>3 DEF Apart
    <2>. QED BY <2>2, <2>4, <2>5, <2>6
  <1>7. DOMAIN f \subseteq 1..MaxStructs
    BY <1>3 DEF Memory
  <1>. QED BY <1>1, <1>2, <1>4, <1>5, <1>6, <1>7 DEF Memory, Points

LEMMA EndOfBlockStep ==
    ASSUME VInv, EndOfBlock
    PROVE  /\ VInv' /\ NoEffect /\ status' \in {"running", "double_free"} /\ ~lost'
           /\ status' = "double_free" => Wrong
           /\ Dangling' = {}
  <1>1. Statement(0) /\ Execute(visitFreeNode, NoVariables, frame)
    BY DEF EndOfBlock
  <1>2. PICK r, D : r = visitFreeNode /\ D = BlocksOf(Owned)
    OBVIOUS
  <1>3. /\ Changes(heap, D, {"no", "double_free"}, r)
        /\ \A b : b \in D <=> \E v \in Vars : Points(store[v], frame, b)
        /\ r.end = "no" => \A b \in D : ~r.heap[b].live
        /\ r.end # "no" => Wrong
    BY <1>2, OwnedIsFreed
  <1>4. PICK sto, stk, E : sto = NoVariables /\ stk = <<>> /\ E = {"no", "double_free"}
    OBVIOUS
  <1>5. r.end \in E /\ (r.end = "no" => HeapOK(r.heap) /\ DOMAIN r.heap = DOMAIN heap)
    BY <1>3, <1>4 DEF Changes, Gives
  <1>6. Sequence(stk) /\ DOMAIN stk = {}
    <2>1. <<>> \in Seq({}) /\ DOMAIN <<>> = {}
      OBVIOUS
    <2>. QED BY <1>4, <2>1, SeqIsSequence
  <1>7. ASSUME r.end = "no"
        PROVE  Memory(r.heap, frame, sto, stk) /\ \A v \in Vars : \A b : ~Points(sto[v], frame, b)
    <2>1. PICK g, f : g = r.heap /\ f = frame
      OBVIOUS
    <2>2. HeapOK(g) /\ DOMAIN heap \subseteq DOMAIN g
      BY <1>5, <1>7, <2>1
    <2>3. DOMAIN stk \subseteq DOMAIN stack /\ \A i \in DOMAIN stk : stk[i] = stack[i] /\ Operand(stk[i], g, f)
      BY <1>6
    <2>4. Memory(g, f, sto, stk) /\ \A v \in Vars : \A b : ~Points(sto[v], f, b)
      BY <1>4, <1>6, <2>1, <2>2, <2>3, NoVariablesAre
    <2>. QED BY <2>1, <2>4
  <1>8. E \subseteq AnyEnd /\ Execute(r, sto, frame)
    BY <1>1, <1>2, <1>4 DEF AnyEnd, Outside, Harmless
  <1>9. /\ VInv' /\ NoEffect /\ status' \in E \cup {"running"}
        /\ r.end # "no" => status' = r.end /\ ~lost' /\ Dangling' = {}
        /\ r.end = "no" => status' = "running"
        /\ r.end = "no" /\ Reached(r.heap, frame, sto) => ~lost'
        /\ r.end = "no" /\ Intact(r.heap, frame, sto) => Dangling' = {}
    BY <1>4, <1>5, <1>7, <1>8, ExecuteStep
  <1>10. r.end = "no" => Reached(r.heap, frame, sto)
    <2>1. DOMAIN stack = {}
      BY <1>1, NothingWaits
    <2>. QED BY <1>3, <1>5, <2>1, HeldAlready DEF Reached
  <1>11. r.end = "no" => Intact(r.heap, frame, sto)
    BY <1>7 DEF Intact
  <1>12. ~lost' /\ Dangling' = {}
    BY <1>9, <1>10, <1>11
  <1>13. status' = "double_free" => Wrong
    BY <1>3, <1>9
  <1>14. status' \in {"running", "double_free"}
    BY <1>4, <1>5, <1>9
  <1>. QED BY <1>9, <1>12, <1>13, <1>14

\* The vector that is returned is no variable's, so it is still allocated.
LEMMA ReturnStep ==
    ASSUME VInv, Return
    PROVE  /\ VInv' /\ NoEffect /\ status' \in {"returned", "double_free"} /\ ~lost'
           /\ status' = "double_free" => Wrong
           /\ ~IsTuple(Top) /\ Dangling = {} => Dangling' = {}
           /\ status' = "returned" /\ IsVector(Top) => heap'[stack'[1].block] = heap[Top.block]
           /\ stack # <<>>
  <1>1. /\ Statement(1)
        /\ IF visitFreeNode.end # "no" THEN Stop(visitFreeNode.end)
           ELSE Settle(visitFreeNode.heap, frame, NoVariables, stack, "returned")
    BY DEF Return
  <1>2. PICK r, D : r = visitFreeNode /\ D = BlocksOf(Owned)
    OBVIOUS
  <1>3. /\ Changes(heap, D, {"no", "double_free"}, r)
        /\ \A b : b \in D <=> \E v \in Vars : Points(store[v], frame, b)
        /\ r.end = "no" => \A b \in D : ~r.heap[b].live
        /\ r.end # "no" => Wrong
    BY <1>2, OwnedIsFreed
  <1>4. /\ r.end \in {"no", "double_free"}
        /\ r.end = "no" => /\ HeapOK(r.heap) /\ DOMAIN r.heap = DOMAIN heap
                           /\ \A b \in DOMAIN heap \ D : r.heap[b] = heap[b]
    BY <1>3 DEF Changes, Gives
  <1>5. /\ Top = stack[1] /\ DOMAIN stack = {1} /\ stack # <<>>
        /\ \A b : (\E i \in DOMAIN stack : Points(stack[i], frame, b)) <=> Points(Top, frame, b)
        /\ IsVector(Top) => LiveVector(heap, Top) /\ Elsewhere(Top.block, store) /\ InNoTuple(Top.block)
    BY <1>1, StatementIs
  <1>6. IsVector(Top) => Top.block \in DOMAIN heap \ D /\ heap[Top.block].live
    BY <1>3, <1>5, Unpointed DEF LiveVector, Live
  <1>7. CASE r.end # "no"
    <2>1. Stop(r.end) /\ r.end = "double_free"
      BY <1>1, <1>2, <1>4, <1>7
    <2>2. r.end \in AnyEnd
      BY <2>1 DEF AnyEnd
    <2>3. Tame(AnyEnd) /\ ~lost' /\ status' = r.end
      BY <1>7, <2>1, <2>2, StopIsTame
    <2>. QED BY <1>3, <1>5, <1>7, <2>1, <2>3 DEF Tame
  <1>8. CASE r.end = "no"
    <2>1. PICK g, f, sto, stk, sta : /\ g = r.heap /\ f = frame /\ sto = NoVariables /\ stk = stack
                                     /\ sta = "returned"
      OBVIOUS
    <2>2. Settle(g, f, sto, stk, sta)
      BY <1>1, <1>2, <1>8, <2>1
    <2>3. HeapOK(g) /\ DOMAIN g = DOMAIN heap /\ \A b \in DOMAIN heap \ D : g[b] = heap[b]
      BY <1>4, <1>8, <2>1
    <2>4. \A i \in DOMAIN stk : stk[i] = stack[i] /\ Operand(stk[i], g, f)
      <3>1. TAKE i \in DOMAIN stk
      <3>2. PICK p : p = stk[i]
        OBVIOUS
      <3>3. p = Top /\ Operand(p, heap, frame)
        BY <1>5, <2>1, <3>2, OperandAt
      <3>4. CASE IsVector(p)
        <4>1. LiveVector(heap, p) /\ g[p.block] = heap[p.block] /\ p.block \in DOMAIN heap
          BY <1>5, <1>6, <2>3, <3>3, <3>4
        <4>2. LiveVector(g, p)
          BY <2>3, <4>1 DEF LiveVector, Live
        <4>. QED BY <2>1, <3>2, <4>2 DEF Operand
      <3>5. CASE ~IsVector(p)
        BY <2>1, <3>2, <3>3, <3>5 DEF Operand, LiveVector
      <3>. QED BY <3>4, <3>5
    <2>5. DOMAIN heap \subseteq DOMAIN g /\ Sequence(stk) /\ DOMAIN stk \subseteq DOMAIN stack
          /\ Len(stk) <= Depth
      BY <2>1, <2>3, Found
    <2>6. Memory(g, f, sto, stk) /\ \A v \in Vars : \A b : ~Points(sto[v], f, b)
      BY <2>1, <2>3, <2>4, <2>5, NoVariablesAre
    <2>7. sta \in Status
      BY <2>1 DEF Status
    <2>8. /\ VInv' /\ status' = sta
          /\ lost' => \E b \in DOMAIN g \ Held(f, sto, stk) : g[b].live
          /\ \A n \in DOMAIN heap' : \E b \in Held(f, sto, stk) : heap'[n] = g[b]
          /\ \A i \in DOMAIN stk : Kept(stk[i], g, stack'[i], heap')
      BY ONLY <2>2, <2>5, <2>6, <2>7, SettleKeeps
    <2>9. \A b : b \in Held(f, sto, stk) <=> Points(Top, frame, b)
      <3>1. \A b : b \in Held(f, sto, stk) <=> \E p \in Pointers(sto, stk) : Points(p, f, b)
        BY <2>6, HeldOf DEF Held
      <3>2. \A p : p \in Pointers(sto, stk) <=> (\E v \in Vars : p = sto[v]) \/ p = Top
        <4>1. DOMAIN sto = Vars /\ DOMAIN stk = {1} /\ stk[1] = Top
          BY <1>5, <2>1, <2>6 DEF Memory
        <4>. QED BY <4>1 DEF Pointers, Range
      <3>. QED BY <2>1, <2>6, <3>1, <3>2
    <2>10. ~lost'
      <3>1. SUFFICES ASSUME NEW b \in DOMAIN g, b \notin Held(f, sto, stk), g[b].live PROVE FALSE
        BY <2>8
      <3>2. b \in DOMAIN heap /\ ~Points(Top, frame, b)
        BY <2>3, <2>9, <3>1
      <3>3. \E v \in Vars : Points(store[v], frame, b)
        BY <1>5, <3>2, HeldAlready
      <3>. QED BY <1>3, <1>8, <2>1, <3>1, <3>3
    <2>11. ASSUME ~IsTuple(Top), Dangling = {} PROVE Dangling' = {}
      <3>1. \A b : Points(Top, frame, b) => b \in DOMAIN heap /\ g[b].live
        BY <1>6, <2>3, <2>11 DEF Points
      <3>2. \A n \in DOMAIN heap' : heap'[n].live
        BY <2>8, <2>9, <3>1
      <3>. QED BY <3>2 DEF Dangling
    <2>12. ASSUME IsVector(Top) PROVE heap'[stack'[1].block] = heap[Top.block]
      <3>1. PICK p, q : p = Top /\ q = stack'[1]
        OBVIOUS
      <3>2. Kept(p, g, q, heap')
        BY <1>5, <2>1, <2>8, <3>1
      <3>3. heap'[q.block] = g[p.block]
        BY <2>12, <3>1, <3>2 DEF Kept
      <3>. QED BY <1>6, <2>3, <2>12, <3>1, <3>3
    <2>13. status' = "returned"
      BY <2>1, <2>8
    <2>. QED BY <1>5, <2>8, <2>10, <2>11, <2>12, <2>13 DEF NoEffect
  <1>. QED BY <1>7, <1>8

---------------------------------------------------------------------------
(* Every step.                                                             *)

\* What the properties of VectorCode say of one step.
FreesOnlyFields ==
    /\ Dangling' # {}
    /\ Dangling = {} /\ \A b \in DOMAIN heap : Owned1(b)
    => (stack # <<>> /\ IsTuple(Top)) \/ \E v \in Vars : Unpack(v)

WildOnlyHere == status' \in {"use_after_free", "double_free"} => Wrong \/ TupleEquality

LeaksOnlyHere ==
    lost' => \/ LengthCall \/ FilterNode \/ FormatCall \/ BinaryOp("by") \/ CallFunction
             \/ TupleEquality /\ ~SameFields(frame[Below.struct], frame[Top.struct])
             \/ \E v \in Vars : AssignTuple(v) \/ emitTupAssign(v)

OutsideOnlyHere ==
    status' = "out_of_bounds" =>
        \/ Index \/ BinaryOp("by")
        \/ \E v \in Vars : AssignIndex(v) \/ AssignVector(v) \/ Unpack(v)

OwnCopy == status' = "returned" /\ IsVector(Top) => heap'[stack'[1].block] = heap[Top.block]

StepIsGood ==
    VInv' /\ NoEffect /\ FreesOnlyFields /\ WildOnlyHere /\ LeaksOnlyHere /\ OutsideOnlyHere /\ OwnCopy

\* A step that ends in none of the ways that are told apart.
LEMMA HarmlessIsGood ==
    ASSUME Tame(Harmless), ~lost' \/ LeaksOnlyHere
    PROVE  StepIsGood
  <1>1. status' \notin {"use_after_free", "double_free", "out_of_bounds", "returned"}
    BY DEF Tame, Harmless
  <1>2. FreesOnlyFields
    BY DEF Tame, FreesOnlyFields
  <1>3. LeaksOnlyHere
    BY DEF LeaksOnlyHere
  <1>. QED BY <1>1, <1>2, <1>3 DEF StepIsGood, Tame, WildOnlyHere, OutsideOnlyHere, OwnCopy

\* One that may leave a vector.
LEMMA OutsideIsGood ==
    ASSUME Tame(Outside), ~lost' \/ LeaksOnlyHere, OutsideOnlyHere
    PROVE  StepIsGood
  <1>1. status' \notin {"use_after_free", "double_free", "returned"}
    BY DEF Tame, Outside, Harmless
  <1>2. FreesOnlyFields
    BY DEF Tame, FreesOnlyFields
  <1>3. LeaksOnlyHere
    BY DEF LeaksOnlyHere
  <1>. QED BY <1>1, <1>2, <1>3 DEF StepIsGood, Tame, WildOnlyHere, OwnCopy

\* The expressions that lose nothing and stay inside.
LEMMA PlainExpressions ==
    ASSUME VInv,
           \/ Literal \/ emitVectorLiteral \/ UnaryOp \/ RangeNode
           \/ ReverseCall \/ GeneratorNode \/ TypeCast \/ TupleNode
    PROVE  StepIsGood
  <1>1. Tame(Harmless) /\ ~lost'
    BY LiteralStep, VectorLiteralStep, UnaryOpStep, RangeStep, ReverseStep, GeneratorStep, CastStep,
       TupleNodeStep
  <1>. QED BY <1>1, HarmlessIsGood

\* Those that may lose their operands.
LEMMA LeakyExpressions ==
    ASSUME VInv, LengthCall \/ FormatCall \/ FilterNode
    PROVE  StepIsGood
  <1>1. Tame(Harmless)
    BY LengthStep, FormatStep, FilterNodeStep
  <1>2. LeaksOnlyHere
    BY DEF LeaksOnlyHere
  <1>. QED BY <1>1, <1>2, HarmlessIsGood

LEMMA BinaryOpIsGood ==
    ASSUME VInv, NEW op \in BinaryOps, BinaryOp(op)
    PROVE  StepIsGood
  <1>1. CASE op = "by"
    <2>1. Tame(Outside)
      BY <1>1, BinaryOpStep
    <2>2. BinaryOp("by")
      BY <1>1
    <2>3. LeaksOnlyHere /\ OutsideOnlyHere
      BY <2>2 DEF LeaksOnlyHere, OutsideOnlyHere
    <2>. QED BY <2>1, <2>3, OutsideIsGood
  <1>2. CASE op # "by"
    <2>1. Tame(Harmless) /\ ~lost'
      BY <1>2, BinaryOpStep
    <2>. QED BY <2>1, HarmlessIsGood
  <1>. QED BY <1>1, <1>2

LEMMA OperandsOfVariables ==
    ASSUME VInv, NEW v \in Vars, IdNode(v) \/ TupleAccessNode(v)
    PROVE  StepIsGood
  <1>1. CASE IdNode(v)
    <2>1. Tame(Harmless) /\ ~lost'
      BY <1>1, IdStep
    <2>. QED BY <2>1, HarmlessIsGood
  <1>2. CASE TupleAccessNode(v)
    <2>1. /\ Tame(AnyEnd) /\ ~lost' /\ status' \in {"running", "no_code", "use_after_free"}
          /\ status' = "use_after_free" => Dangling # {}
      BY <1>2, TupleAccessStep
    <2>2. FreesOnlyFields
      BY <2>1 DEF Tame, FreesOnlyFields
    <2>3. WildOnlyHere /\ LeaksOnlyHere /\ OutsideOnlyHere /\ OwnCopy
      BY <2>1 DEF WildOnlyHere, Wrong, LeaksOnlyHere, OutsideOnlyHere, OwnCopy
    <2>. QED BY <2>1, <2>2, <2>3 DEF StepIsGood, Tame
  <1>. QED BY <1>1, <1>2

LEMMA CallsAreGood ==
    ASSUME VInv, CallFunction \/ CallProcedure \/ CallStatement
    PROVE  StepIsGood
  <1>1. CASE CallFunction
    <2>1. Tame(CallEnds)
      BY <1>1, CallFunctionStep
    <2>2. status' \notin {"use_after_free", "double_free", "out_of_bounds", "returned"}
      BY <2>1 DEF Tame, CallEnds
    <2>3. FreesOnlyFields
      BY <2>1 DEF Tame, FreesOnlyFields
    <2>4. WildOnlyHere /\ LeaksOnlyHere /\ OutsideOnlyHere /\ OwnCopy
      BY <1>1, <2>2 DEF WildOnlyHere, LeaksOnlyHere, OutsideOnlyHere, OwnCopy
    <2>. QED BY <2>1, <2>3, <2>4 DEF StepIsGood, Tame
  <1>2. ASSUME CallProcedure \/ CallStatement
        PROVE  /\ VInv' /\ NoEffect /\ ~lost' /\ (status' = "double_free" => Wrong)
               /\ status' \notin {"use_after_free", "out_of_bounds", "returned"}
               /\ ~IsTuple(Top) /\ Dangling = {} => Dangling' = {}
               /\ stack # <<>>
    <2>1. CASE CallProcedure
      <3>1. Statement(1)
        BY <2>1 DEF CallProcedure
      <3>2. /\ VInv' /\ NoEffect /\ status' \in CallEnds \cup {"double_free", "running"} /\ ~lost'
            /\ status' = "double_free" => Wrong
            /\ ~IsTuple(Top) /\ Dangling = {} => Dangling' = {}
        BY <2>1, CallProcedureStep
      <3>3. status' \notin {"use_after_free", "out_of_bounds", "returned"}
        BY <3>2 DEF CallEnds
      <3>4. stack # <<>>
        BY <3>1, StatementIs
      <3>. QED BY <3>2, <3>3, <3>4
    <2>2. CASE CallStatement
      <3>1. Statement(1)
        BY <2>2 DEF CallStatement
      <3>2. /\ VInv' /\ NoEffect /\ status' \in {"no", "double_free", "running"} /\ ~lost'
            /\ status' = "double_free" => Wrong
            /\ ~IsTuple(Top) /\ Dangling = {} => Dangling' = {}
        BY <2>2, CallStatementStep
      <3>3. stack # <<>>
        BY <3>1, StatementIs
      <3>. QED BY <3>2, <3>3
    <2>. QED BY <1>2, <2>1, <2>2
  <1>3. ASSUME CallProcedure \/ CallStatement PROVE StepIsGood
    <2>1. FreesOnlyFields
      BY <1>2, <1>3 DEF FreesOnlyFields
    <2>2. WildOnlyHere /\ LeaksOnlyHere /\ OutsideOnlyHere /\ OwnCopy
      BY <1>2, <1>3 DEF WildOnlyHere, LeaksOnlyHere, OutsideOnlyHere, OwnCopy
    <2>. QED BY <1>2, <1>3, <2>1, <2>2 DEF StepIsGood
  <1>. QED BY <1>1, <1>3

LEMMA TuplesAreGood ==
    ASSUME VInv, TupleEquality \/ \E v \in Vars : AssignTuple(v)
    PROVE  StepIsGood
  <1>1. CASE TupleEquality
    <2>1. /\ VInv' /\ NoEffect /\ status' \in Wild \cup {"running"}
          /\ SameFields(frame[Below.struct], frame[Top.struct]) => ~lost'
      BY <1>1, TupleEqualityStep
    <2>2. status' \notin {"out_of_bounds", "returned"}
      BY <2>1 DEF Wild, Harmless
    <2>3. Operands(2) /\ IsTuple(Top)
      BY <1>1 DEF TupleEquality
    <2>4. stack # <<>>
      <3>1. Len(stack) # 0
        BY <2>3, Found DEF Operands
      <3>. QED BY <3>1
    <2>5. FreesOnlyFields
      BY <2>3, <2>4 DEF FreesOnlyFields
    <2>6. WildOnlyHere /\ LeaksOnlyHere /\ OutsideOnlyHere /\ OwnCopy
      BY <1>1, <2>1, <2>2 DEF WildOnlyHere, LeaksOnlyHere, OutsideOnlyHere, OwnCopy
    <2>. QED BY <2>1, <2>5, <2>6 DEF StepIsGood
  <1>2. CASE \E v \in Vars : AssignTuple(v)
    <2>1. /\ VInv' /\ NoEffect /\ status' \in {"running", "use_after_free"}
          /\ status' = "use_after_free" => Dangling # {}
          /\ stack # <<>> /\ IsTuple(Top)
      BY <1>2, AssignTupleStep
    <2>2. FreesOnlyFields
      BY <2>1 DEF FreesOnlyFields
    <2>3. WildOnlyHere /\ LeaksOnlyHere /\ OutsideOnlyHere /\ OwnCopy
      BY <1>2, <2>1 DEF WildOnlyHere, Wrong, LeaksOnlyHere, OutsideOnlyHere, OwnCopy
    <2>. QED BY <2>1, <2>2, <2>3 DEF StepIsGood
  <1>. QED BY <1>1, <1>2

\* The statements that lose nothing and stay inside.
LEMMA PlainStatements ==
    ASSUME VInv, NEW v \in Vars,
           \/ emitVectorDec(v) \/ emitDefaultDec(v) \/ emitTupleDec(v) \/ CallByReference(v)
           \/ OutStream \/ UseScalar
    PROVE  StepIsGood
  <1>1. Tame(Harmless) /\ ~lost'
    BY VectorDecStep, DefaultDecStep, TupleDecStep, CallByReferenceStep, OutStreamStep, UseScalarStep
  <1>. QED BY <1>1, HarmlessIsGood

LEMMA AssignmentsAreGood ==
    ASSUME VInv, NEW v \in Vars, AssignVector(v) \/ AssignIndex(v) \/ emitTupAssign(v) \/ Unpack(v)
    PROVE  StepIsGood
  <1>1. CASE AssignVector(v) \/ AssignIndex(v)
    <2>1. Tame(Outside) /\ ~lost'
      BY <1>1, AssignVectorStep, AssignIndexStep
    <2>2. OutsideOnlyHere
      BY <1>1 DEF OutsideOnlyHere
    <2>. QED BY <2>1, <2>2, OutsideIsGood
  <1>2. CASE emitTupAssign(v)
    <2>1. VInv' /\ NoEffect /\ status' = "running" /\ (Dangling = {} => Dangling' = {})
      BY <1>2, TupAssignStep
    <2>2. FreesOnlyFields
      BY <2>1 DEF FreesOnlyFields
    <2>3. WildOnlyHere /\ LeaksOnlyHere /\ OutsideOnlyHere /\ OwnCopy
      BY <1>2, <2>1 DEF WildOnlyHere, LeaksOnlyHere, OutsideOnlyHere, OwnCopy
    <2>. QED BY <2>1, <2>2, <2>3 DEF StepIsGood
  <1>3. CASE Unpack(v)
    <2>1. /\ VInv' /\ NoEffect /\ status' \in AnyEnd \cup {"running"} /\ ~lost'
          /\ status' \in {"use_after_free", "double_free"} => Wrong
      BY <1>3, UnpackStep
    <2>2. status' # "returned"
      BY <2>1 DEF AnyEnd, Outside, Harmless
    <2>3. FreesOnlyFields
      BY <1>3 DEF FreesOnlyFields
    <2>4. WildOnlyHere /\ LeaksOnlyHere /\ OutsideOnlyHere /\ OwnCopy
      BY <1>3, <2>1, <2>2 DEF WildOnlyHere, LeaksOnlyHere, OutsideOnlyHere, OwnCopy
    <2>. QED BY <2>1, <2>3, <2>4 DEF StepIsGood
  <1>. QED BY <1>1, <1>2, <1>3

LEMMA EndsAreGood ==
    ASSUME VInv, EndOfBlock \/ Return
    PROVE  StepIsGood
  <1>1. CASE EndOfBlock
    <2>1. /\ VInv' /\ NoEffect /\ status' \in {"running", "double_free"} /\ ~lost'
          /\ status' = "double_free" => Wrong
          /\ Dangling' = {}
      BY <1>1, EndOfBlockStep
    <2>2. FreesOnlyFields
      BY <2>1 DEF FreesOnlyFields
    <2>3. WildOnlyHere /\ LeaksOnlyHere /\ OutsideOnlyHere /\ OwnCopy
      BY <2>1 DEF WildOnlyHere, LeaksOnlyHere, OutsideOnlyHere, OwnCopy
    <2>. QED BY <2>1, <2>2, <2>3 DEF StepIsGood
  <1>2. CASE Return
    <2>1. /\ VInv' /\ NoEffect /\ status' \in {"returned", "double_free"} /\ ~lost'
          /\ status' = "double_free" => Wrong
          /\ ~IsTuple(Top) /\ Dangling = {} => Dangling' = {}
          /\ status' = "returned" /\ IsVector(Top) => heap'[stack'[1].block] = heap[Top.block]
          /\ stack # <<>>
      BY <1>2, ReturnStep
    <2>2. FreesOnlyFields
      BY <2>1 DEF FreesOnlyFields
    <2>3. WildOnlyHere /\ LeaksOnlyHere /\ OutsideOnlyHere
      BY <2>1 DEF WildOnlyHere, LeaksOnlyHere, OutsideOnlyHere
    <2>4. OwnCopy
      BY <2>1 DEF OwnCopy
    <2>. QED BY <2>1, <2>2, <2>3, <2>4 DEF StepIsGood
  <1>. QED BY <1>1, <1>2

\* Every step of a subroutine that has not ended, and the steps after.
LEMMA StepKeeps ==
    ASSUME VInv, Next
    PROVE  StepIsGood \/ UNCHANGED vars
  <1>1. CASE Expression
    <2>1. CASE Index
      <3>1. Tame(Outside) /\ ~lost' /\ OutsideOnlyHere
        BY <2>1, IndexStep DEF OutsideOnlyHere
      <3>. QED BY <3>1, OutsideIsGood
    <2>2. CASE \E op \in BinaryOps : BinaryOp(op)
      BY <2>2, BinaryOpIsGood
    <2>3. CASE \E v \in Vars : IdNode(v) \/ TupleAccessNode(v)
      BY <2>3, OperandsOfVariables
    <2>4. CASE \/ Literal \/ emitVectorLiteral \/ UnaryOp \/ RangeNode
               \/ ReverseCall \/ GeneratorNode \/ TypeCast \/ TupleNode
      BY <2>4, PlainExpressions
    <2>5. CASE LengthCall \/ FormatCall \/ FilterNode
      BY <2>5, LeakyExpressions
    <2>6. CASE CallFunction \/ CallProcedure
      BY <2>6, CallsAreGood
    <2>7. CASE TupleEquality
      BY <2>7, TuplesAreGood
    <2>. QED BY <1>1, <2>1, <2>2, <2>3, <2>4, <2>5, <2>6, <2>7 DEF Expression
  <1>2. ASSUME NEW v \in Vars, emitVectorDec(v) \/ emitDefaultDec(v) \/ emitTupleDec(v) \/ Assignment(v)
        PROVE  StepIsGood
    <2>1. CASE emitVectorDec(v) \/ emitDefaultDec(v) \/ emitTupleDec(v) \/ CallByReference(v)
      BY <2>1, PlainStatements
    <2>2. CASE AssignVector(v) \/ AssignIndex(v) \/ emitTupAssign(v) \/ Unpack(v)
      BY <2>2, AssignmentsAreGood
    <2>3. CASE AssignTuple(v)
      BY <2>3, TuplesAreGood
    <2>. QED BY <1>2, <2>1, <2>2, <2>3 DEF Assignment
  <1>3. CASE OutStream \/ UseScalar
    <2>1. Tame(Harmless) /\ ~lost'
      BY <1>3, OutStreamStep, UseScalarStep
    <2>. QED BY <2>1, HarmlessIsGood
  <1>4. CASE CallStatement
    BY <1>4, CallsAreGood
  <1>5. CASE EndOfBlock \/ Return
    BY <1>5, EndsAreGood
  <1>6. CASE Exited
    BY <1>6 DEF Exited
  <1>. QED BY <1>1, <1>2, <1>3, <1>4, <1>5, <1>6 DEF Next

LEMMA VInvInit == ASSUME Init PROVE VInv
  <1>1. /\ Memory(heap, frame, store, stack) /\ DOMAIN heap = {} /\ Len(stack) = 0
        /\ HeldStructs(Pointers(store, stack)) = DOMAIN frame
        /\ Held(frame, store, stack) = DOMAIN heap
        /\ \A p \in Pointers(store, stack) : p.kind \in {"none", "scalar", "vector", "tuple"}
    BY EmptyMemory DEF Init
  <1>2. Cardinality(DOMAIN heap) = 0
    BY <1>1, FS_EmptySet
  <1>3. DOMAIN store = Vars /\ DOMAIN stack = {}
    BY DEF Init
  <1>4. status \in Status /\ lost \in BOOLEAN
    BY DEF Init, Status
  <1>5. TypeOK
    BY <1>1, <1>3, <1>4, VectorCodeAssumption DEF TypeOK, Held
  <1>. QED BY <1>1, <1>2, <1>3, <1>5, VectorCodeAssumption DEF VInv

LEMMA VInvStutters == ASSUME VInv, UNCHANGED vars PROVE VInv'
  BY DEF VInv, TypeOK, vars

---------------------------------------------------------------------------
(* The theorems.                                                           *)

(***************************************************************************)
(* What the code emitted for a subroutine makes of the heap, the frame,    *)
(* the variables and the operands.  Everything in the heap is pointed to,  *)
(* and everything that is pointed to is in the heap.                       *)
(***************************************************************************)
THEOREM TypeCorrect == Spec => []TypeOK
  <1>1. VInv /\ [Next]_vars => VInv'
    BY StepKeeps, VInvStutters DEF StepIsGood
  <1>2. VInv => TypeOK
    BY DEF VInv
  <1>. QED BY <1>1, <1>2, VInvInit, PTL DEF Spec

(***************************************************************************)
(* The vector of a variable is allocated, and nothing else points to it:   *)
(* no operation of the back end frees a variable's vector, or makes        *)
(* another variable, an operand or a tuple share it.                       *)
(***************************************************************************)
THEOREM VectorsHaveOneOwner == Spec => []VariablesOwnTheirVectors
  <1>1. VInv /\ [Next]_vars => VInv'
    BY StepKeeps, VInvStutters DEF StepIsGood
  <1>2. VInv => VariablesOwnTheirVectors
    BY VariableIsOwned DEF VariablesOwnTheirVectors
  <1>. QED BY <1>1, <1>2, VInvInit, PTL DEF Spec

(***************************************************************************)
(* Evaluating an expression leaves every vector variable as it was,        *)
(* whatever operands its operations consume and free.                      *)
(***************************************************************************)
THEOREM ExpressionsAreValues == Spec => ExpressionsHaveNoEffect
  <1>1. VInv /\ [Next]_vars => VInv'
    BY StepKeeps, VInvStutters DEF StepIsGood
  <1>2. VInv /\ [Next]_vars =>
            [stack' # <<>> /\ status' = "running" =>
                \A v \in Vars : IsVector(store[v]) =>
                    IsVector(store'[v]) /\ heap'[store'[v].block] = heap[store[v].block]]_vars
    BY StepKeeps DEF StepIsGood, NoEffect
  <1>. QED BY <1>1, <1>2, VInvInit, PTL DEF Spec, ExpressionsHaveNoEffect

(***************************************************************************)
(* While every vector has one owner and none was freed, only comparing,    *)
(* unpacking, passing or returning a tuple frees a vector that something   *)
(* still points to.                                                        *)
(***************************************************************************)
THEOREM OthersFreeNothingInUse == Spec => OnlyFieldsAreFreedInUse
  <1>1. VInv /\ [Next]_vars => VInv'
    BY StepKeeps, VInvStutters DEF StepIsGood
  <1>2. VInv /\ [Next]_vars =>
            [/\ Dangling' # {}
             /\ Dangling = {} /\ \A b \in DOMAIN heap : Owned1(b)
             => (stack # <<>> /\ IsTuple(Top)) \/ \E v \in Vars : Unpack(v)]_vars
    BY StepKeeps DEF StepIsGood, FreesOnlyFields
  <1>. QED BY <1>1, <1>2, VInvInit, PTL DEF Spec, OnlyFieldsAreFreedInUse

(***************************************************************************)
(* Freed memory is used, and memory is freed twice, only after a tuple's   *)
(* vector was freed or shared, or by the comparison of tuples.             *)
(***************************************************************************)
THEOREM OnlyTuplesGoWild == Spec => WildOnlyThroughTuples
  <1>1. VInv /\ [Next]_vars => VInv'
    BY StepKeeps, VInvStutters DEF StepIsGood
  <1>2. VInv /\ [Next]_vars =>
            [status' \in {"use_after_free", "double_free"} =>
                \/ Dangling # {} \/ \E b \in DOMAIN heap : ~Owned1(b)
                \/ TupleEquality]_vars
    BY StepKeeps DEF StepIsGood, WildOnlyHere, Wrong
  <1>. QED BY <1>1, <1>2, VInvInit, PTL DEF Spec, WildOnlyThroughTuples

(***************************************************************************)
(* All operations but the listed ones free what they consume: only these   *)
(* leave memory that nothing points to.                                    *)
(***************************************************************************)
THEOREM OthersFreeWhatTheyConsume == Spec => OnlyTheseLeak
  <1>1. VInv /\ [Next]_vars => VInv'
    BY StepKeeps, VInvStutters DEF StepIsGood
  <1>2. VInv /\ [Next]_vars =>
            [lost' => \/ LengthCall \/ FilterNode \/ FormatCall \/ BinaryOp("by") \/ CallFunction
                      \/ TupleEquality /\ ~SameFields(frame[Below.struct], frame[Top.struct])
                      \/ \E v \in Vars : AssignTuple(v) \/ emitTupAssign(v)]_vars
    BY StepKeeps DEF StepIsGood, LeaksOnlyHere
  <1>. QED BY <1>1, <1>2, VInvInit, PTL DEF Spec, OnlyTheseLeak

(***************************************************************************)
(* An element outside a vector is read or written only by an index, a      *)
(* stride, an assignment of vectors or an unpacking.                       *)
(***************************************************************************)
THEOREM OthersStayInside == Spec => OutOfBoundsFromThese
  <1>1. VInv /\ [Next]_vars => VInv'
    BY StepKeeps, VInvStutters DEF StepIsGood
  <1>2. VInv /\ [Next]_vars =>
            [status' = "out_of_bounds" =>
                \/ Index \/ BinaryOp("by")
                \/ \E v \in Vars : AssignIndex(v) \/ AssignVector(v) \/ Unpack(v)]_vars
    BY StepKeeps DEF StepIsGood, OutsideOnlyHere
  <1>. QED BY <1>1, <1>2, VInvInit, PTL DEF Spec, OutOfBoundsFromThese

(***************************************************************************)
(* Return frees what the variables have, and the vector it returns is none *)
(* of it.                                                                  *)
(***************************************************************************)
THEOREM ReturnedVectorIsLeft == Spec => ReturnsItsOwnCopy
  <1>1. VInv /\ [Next]_vars => VInv'
    BY StepKeeps, VInvStutters DEF StepIsGood
  <1>2. VInv /\ [Next]_vars =>
            [status' = "returned" /\ IsVector(Top) =>
                heap'[stack'[1].block] = heap[Top.block]]_vars
    BY StepKeeps DEF StepIsGood, OwnCopy
  <1>. QED BY <1>1, <1>2, VInvInit, PTL DEF Spec, ReturnsItsOwnCopy

=============================================================================
