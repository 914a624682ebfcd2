--------------------------- MODULE InStreamProofs ---------------------------
(***************************************************************************)
(* Proofs about InStream, for every size of the buffer, every input and    *)
(* whatever length malloc leaves at its end: no input that fits leaves the *)
(* array, and each read is one of the abstract stream.                     *)
(***************************************************************************)
EXTENDS InStream, SequenceTheorems, WellFoundedInduction, TLAPS

Text == Seq(Stream!Char)

---------------------------------------------------------------------------
(* Values and the texts they are scanned from.                             *)

LEMMA Least ==
    ASSUME NEW n \in Nat, NEW m \in Nat, n <= m, NEW S, m \in S
    PROVE  \E k \in n..m : k \in S /\ \A j \in n..(k - 1) : j \notin S
<1>. DEFINE T == {k \in Nat : k \in n..m /\ k \in S}
<1>1. T # {} /\ T \subseteq Nat
  OBVIOUS
<1>2. \E k \in T : \A j \in T : ~(<<j, k>> \in OpToRel(<, Nat))
  BY <1>1, NatLessThanWellFounded, WFMin
<1>3. PICK k \in T : \A j \in T : ~(j < k)
  BY <1>2 DEF OpToRel
<1>4. \A j \in n..(k - 1) : j \notin S
  BY <1>3
<1>. QED
  BY <1>3, <1>4

\* RunEnd is the end of a run of characters of C, and only one number is.
IsRunEnd(text, n, C, k) ==
    /\ k \in n..Len(text)
    /\ \A i \in (n + 1)..k : text[i] \in C
    /\ k = Len(text) \/ text[k + 1] \notin C

LEMMA RunEndIs ==
    ASSUME NEW text \in Text, NEW n \in 0..Len(text), NEW C
    PROVE  IsRunEnd(text, n, C, Stream!RunEnd(text, n, C))
<1>. DEFINE S == {k \in Nat : k = Len(text) \/ text[k + 1] \notin C}
<1>1. Len(text) \in Nat /\ n \in Nat /\ n <= Len(text)
  BY DEF Text
<1>2. PICK k \in n..Len(text) : k \in S /\ \A j \in n..(k - 1) : j \notin S
  <2>1. Len(text) \in S
    BY <1>1
  <2>. HIDE DEF S
  <2>. QED
    BY <1>1, <2>1, Least
<1>3. \A i \in (n + 1)..k : text[i] \in C
  <2>. SUFFICES ASSUME NEW i \in (n + 1)..k PROVE text[i] \in C
    OBVIOUS
  <2>1. i - 1 \in n..(k - 1) /\ i - 1 \in Nat /\ (i - 1) + 1 = i
    BY <1>1
  <2>2. i - 1 \notin S
    BY <1>2, <2>1
  <2>. QED
    BY <2>1, <2>2
<1>4. \E e \in n..Len(text) :
        (\A i \in (n + 1)..e : text[i] \in C) /\ (e = Len(text) \/ text[e + 1] \notin C)
  BY <1>2, <1>3
<1>. QED
  BY <1>4 DEF Stream!RunEnd, IsRunEnd

LEMMA RunEndUnique ==
    ASSUME NEW text \in Text, NEW n \in 0..Len(text), NEW C, NEW k, IsRunEnd(text, n, C, k)
    PROVE  Stream!RunEnd(text, n, C) = k
<1>. DEFINE r == Stream!RunEnd(text, n, C)
<1>1. IsRunEnd(text, n, C, r)
  BY RunEndIs
<1>. HIDE DEF r
<1>2. Len(text) \in Nat
  BY DEF Text
<1>3. ~(r < k)
  <2>1. r < k => r + 1 \in (n + 1)..k /\ r # Len(text)
    BY <1>1, <1>2 DEF IsRunEnd
  <2>. QED
    BY <1>1, <2>1 DEF IsRunEnd
<1>4. ~(k < r)
  <2>1. k < r => k + 1 \in (n + 1)..r /\ k # Len(text)
    BY <1>1, <1>2 DEF IsRunEnd
  <2>. QED
    BY <1>1, <2>1 DEF IsRunEnd
<1>5. r = k
  BY <1>1, <1>2, <1>3, <1>4 DEF IsRunEnd
<1>. QED
  BY <1>5 DEF r

IsPrefix(p, text) == Len(p) <= Len(text) /\ \A i \in 1..Len(p) : p[i] = text[i]

Shorter(a, b) == IF a <= b THEN a ELSE b

\* A run that goes on behind the end of a prefix ends with the prefix.
LEMMA RunEndPrefix ==
    ASSUME NEW text \in Text, NEW p \in Text, IsPrefix(p, text), NEW n \in 0..Len(p), NEW C
    PROVE  Stream!RunEnd(p, n, C) = Shorter(Stream!RunEnd(text, n, C), Len(p))
<1>. DEFINE r == Stream!RunEnd(text, n, C)
<1>1. Len(text) \in Nat /\ Len(p) \in Nat /\ n \in 0..Len(text)
  BY DEF Text, IsPrefix
<1>2. IsRunEnd(text, n, C, r)
  BY <1>1, RunEndIs
<1>. HIDE DEF r
<1>3. IsRunEnd(p, n, C, Shorter(r, Len(p)))
  BY <1>1, <1>2 DEF IsRunEnd, IsPrefix, Shorter
<1>4. Stream!RunEnd(p, n, C) = Shorter(r, Len(p))
  BY <1>3, RunEndUnique
<1>. QED
  BY <1>4 DEF r

---------------------------------------------------------------------------
(* A value is found again in every prefix that holds it.                   *)

LEMMA SpacesIs ==
    ASSUME NEW text \in Text
    PROVE  Stream!Spaces(text) \in 0..Len(text)
<1>1. 0 \in 0..Len(text)
  BY DEF Text
<1>. QED
  BY <1>1, RunEndIs DEF Stream!Spaces, IsRunEnd

LEMMA SpacesPrefix ==
    ASSUME NEW text \in Text, NEW p \in Text, IsPrefix(p, text)
    PROVE  Stream!Spaces(p) = Shorter(Stream!Spaces(text), Len(p))
<1>1. 0 \in 0..Len(p)
  BY DEF Text
<1>. QED
  BY <1>1, RunEndPrefix DEF Stream!Spaces

LEMMA RunScanned ==
    ASSUME NEW text \in Text, NEW C
    PROVE  /\ Stream!AsRun(text, C) \in 0..Len(text)
           /\ Stream!AsRun(text, C) > 0 => text[Stream!AsRun(text, C)] \in C
<1>. DEFINE f == Stream!Spaces(text)
            t == Stream!RunEnd(text, f, C)
<1>1. f \in 0..Len(text) /\ Len(text) \in Nat
  BY SpacesIs DEF Text
<1>2. IsRunEnd(text, f, C, t)
  BY <1>1, RunEndIs
<1>3. Stream!AsRun(text, C) = IF t > f THEN t ELSE 0
  BY DEF Stream!AsRun
<1>. HIDE DEF f, t
<1>. QED
  BY <1>1, <1>2, <1>3 DEF IsRunEnd

LEMMA RunPrefix ==
    ASSUME NEW text \in Text, NEW p \in Text, IsPrefix(p, text), NEW C,
           Stream!AsRun(text, C) <= Len(p)
    PROVE  Stream!AsRun(p, C) = Stream!AsRun(text, C)
<1>. DEFINE f  == Stream!Spaces(text)
            t  == Stream!RunEnd(text, f, C)
            fp == Stream!Spaces(p)
            tp == Stream!RunEnd(p, fp, C)
<1>1. f \in 0..Len(text) /\ fp \in 0..Len(p) /\ Len(text) \in Nat /\ Len(p) \in Nat
  BY SpacesIs DEF Text
<1>2. fp = Shorter(f, Len(p))
  BY SpacesPrefix
<1>3. t \in f..Len(text) /\ tp \in fp..Len(p)
  BY <1>1, RunEndIs DEF IsRunEnd
<1>4. fp = f => tp = Shorter(t, Len(p))
  BY <1>1, RunEndPrefix
<1>5. /\ Stream!AsRun(text, C) = IF t > f THEN t ELSE 0
      /\ Stream!AsRun(p, C) = IF tp > fp THEN tp ELSE 0
  BY DEF Stream!AsRun
<1>. HIDE DEF f, t, fp, tp
<1>. QED
  BY <1>1, <1>2, <1>3, <1>4, <1>5 DEF Shorter

\* The parts of a real number: the end of its whole part, of its point, and
\* of its digits.
RealParts(text, f, w, d, t) ==
    /\ f = Stream!Spaces(text)
    /\ w = Stream!RunEnd(text, f, {Digit})
    /\ d = IF w < Len(text) /\ text[w + 1] = Dot THEN w + 1 ELSE w
    /\ t = IF d > w THEN Stream!RunEnd(text, d, {Digit}) ELSE w

LEMMA RealPartsAre ==
    ASSUME NEW text \in Text
    PROVE  \E f, w, d, t :
              /\ RealParts(text, f, w, d, t)
              /\ f \in 0..Len(text) /\ w \in f..Len(text) /\ d \in w..Len(text) /\ t \in d..Len(text)
              /\ w > f => text[w] = Digit
              /\ t > d => text[t] = Digit
              /\ d > w => d = w + 1 /\ text[d] = Dot
              /\ Stream!AsReal(text) = IF w > f \/ t > d THEN t ELSE 0
<1>. DEFINE f == Stream!Spaces(text)
            w == Stream!RunEnd(text, f, {Digit})
            d == IF w < Len(text) /\ text[w + 1] = Dot THEN w + 1 ELSE w
            t == IF d > w THEN Stream!RunEnd(text, d, {Digit}) ELSE w
<1>1. f \in 0..Len(text) /\ Len(text) \in Nat
  BY SpacesIs DEF Text
<1>2. IsRunEnd(text, f, {Digit}, w)
  BY <1>1, RunEndIs
<1>3. w \in f..Len(text) /\ (w > f => text[w] = Digit)
  <2>. HIDE DEF f, w
  <2>. QED
    BY <1>1, <1>2 DEF IsRunEnd
<1>4. d \in w..Len(text) /\ (d > w => d = w + 1 /\ text[d] = Dot)
  <2>. HIDE DEF f, w
  <2>. QED
    BY <1>1, <1>3
<1>5. d > w => IsRunEnd(text, d, {Digit}, t)
  <2>1. d \in 0..Len(text)
    <3>. HIDE DEF f, w, d
    <3>. QED
      BY <1>1, <1>3, <1>4
  <2>2. IsRunEnd(text, d, {Digit}, Stream!RunEnd(text, d, {Digit}))
    BY <2>1, RunEndIs
  <2>. QED
    BY <2>2
<1>6. ~(d > w) => t = w
  OBVIOUS
<1>7. Stream!AsReal(text) = IF w > f \/ t > d THEN t ELSE 0
  BY DEF Stream!AsReal
<1>8. RealParts(text, f, w, d, t)
  BY DEF RealParts
<1>. HIDE DEF f, w, d, t
<1>9. t \in d..Len(text) /\ (t > d => text[t] = Digit)
  BY <1>1, <1>3, <1>4, <1>5, <1>6 DEF IsRunEnd
<1>. QED
  BY <1>1, <1>3, <1>4, <1>7, <1>8, <1>9

LEMMA RealScanned ==
    ASSUME NEW text \in Text
    PROVE  /\ Stream!AsReal(text) \in 0..Len(text)
           /\ Stream!AsReal(text) > 0 => text[Stream!AsReal(text)] \in {Digit, Dot}
<1>1. PICK f, w, d, t :
              /\ f \in 0..Len(text) /\ w \in f..Len(text) /\ d \in w..Len(text) /\ t \in d..Len(text)
              /\ w > f => text[w] = Digit
              /\ t > d => text[t] = Digit
              /\ d > w => d = w + 1 /\ text[d] = Dot
              /\ Stream!AsReal(text) = IF w > f \/ t > d THEN t ELSE 0
  BY RealPartsAre
<1>2. Len(text) \in Nat
  BY DEF Text
<1>. QED
  BY <1>1, <1>2

LEMMA RealPrefix ==
    ASSUME NEW text \in Text, NEW p \in Text, IsPrefix(p, text),
           Stream!AsReal(text) <= Len(p)
    PROVE  Stream!AsReal(p) = Stream!AsReal(text)
<1>0. Len(text) \in Nat /\ Len(p) \in Nat /\ Len(p) <= Len(text)
  BY DEF Text, IsPrefix
<1>1. PICK f, w, d, t :
              /\ RealParts(text, f, w, d, t)
              /\ f \in 0..Len(text) /\ w \in f..Len(text) /\ d \in w..Len(text) /\ t \in d..Len(text)
              /\ Stream!AsReal(text) = IF w > f \/ t > d THEN t ELSE 0
  BY RealPartsAre
<1>2. PICK fp, wp, dp, tp :
              /\ RealParts(p, fp, wp, dp, tp)
              /\ fp \in 0..Len(p) /\ wp \in fp..Len(p) /\ dp \in wp..Len(p) /\ tp \in dp..Len(p)
              /\ Stream!AsReal(p) = IF wp > fp \/ tp > dp THEN tp ELSE 0
  BY RealPartsAre
<1>3. fp = Shorter(f, Len(p))
  BY <1>1, <1>2, SpacesPrefix DEF RealParts
<1>4. fp = f => wp = Shorter(w, Len(p))
  BY <1>1, <1>2, RunEndPrefix DEF RealParts
<1>5. CASE f > Len(p)
  BY <1>0, <1>1, <1>2, <1>3, <1>5 DEF Shorter
<1>6. CASE f <= Len(p) /\ w > Len(p)
  BY <1>0, <1>1, <1>2, <1>3, <1>4, <1>6 DEF Shorter
<1>7. CASE f <= Len(p) /\ w = Len(p)
  <2>1. fp = f /\ wp = w /\ dp = w /\ tp = w
    BY <1>0, <1>1, <1>2, <1>3, <1>4, <1>7 DEF Shorter
  <2>. QED
    BY <1>0, <1>1, <1>2, <1>7, <2>1
<1>8. CASE f <= Len(p) /\ w < Len(p)
  <2>1. fp = f /\ wp = w
    BY <1>0, <1>1, <1>3, <1>4, <1>8 DEF Shorter
  <2>2. w + 1 \in 1..Len(p) /\ p[w + 1] = text[w + 1]
    BY <1>0, <1>1, <1>8 DEF IsPrefix
  <2>3. dp = d /\ d \in 0..Len(p)
    BY <1>0, <1>1, <1>2, <1>8, <2>1, <2>2 DEF RealParts
  <2>4. tp = Shorter(t, Len(p))
    <3>1. CASE d > w
      BY <1>1, <1>2, <2>1, <2>3, <3>1, RunEndPrefix DEF RealParts
    <3>2. CASE ~(d > w)
      BY <1>0, <1>1, <1>2, <1>8, <2>1, <2>3, <3>2 DEF RealParts, Shorter
    <3>. QED
      BY <3>1, <3>2
  <2>. QED
    BY <1>0, <1>1, <1>2, <1>8, <2>1, <2>3, <2>4 DEF Shorter
<1>. QED
  BY <1>0, <1>1, <1>5, <1>6, <1>7, <1>8

LEMMA ScannedIs ==
    ASSUME NEW text \in Text, NEW t \in Stream!ReadType
    PROVE  /\ Stream!Scanned(text, t) \in 0..Len(text)
           /\ t # "character" /\ Stream!Scanned(text, t) > 0
              => text[Stream!Scanned(text, t)] # Space
<1>1. CASE t = "integer"
  BY <1>1, RunScanned, InStreamAssumption DEF Stream!Scanned, Stream!AsInteger
<1>2. CASE t = "boolean"
  BY <1>2, RunScanned, InStreamAssumption DEF Stream!Scanned, Stream!AsBoolean
<1>3. CASE t = "real"
  BY <1>3, RealScanned, InStreamAssumption DEF Stream!Scanned
<1>4. CASE t = "character"
  BY <1>4 DEF Stream!Scanned, Stream!AsCharacter, Text
<1>. QED
  BY <1>1, <1>2, <1>3, <1>4 DEF Stream!ReadType

LEMMA ScannedPrefix ==
    ASSUME NEW text \in Text, NEW p \in Text, IsPrefix(p, text), NEW t \in Stream!ReadType,
           Stream!Scanned(text, t) <= Len(p)
    PROVE  Stream!Scanned(p, t) = Stream!Scanned(text, t)
<1>1. CASE t = "integer"
  BY <1>1, RunPrefix DEF Stream!Scanned, Stream!AsInteger
<1>2. CASE t = "boolean"
  BY <1>2, RunPrefix DEF Stream!Scanned, Stream!AsBoolean
<1>3. CASE t = "real"
  BY <1>3, RealPrefix DEF Stream!Scanned
<1>4. CASE t = "character"
  BY <1>4 DEF Stream!Scanned, Stream!AsCharacter, Text, IsPrefix
<1>. QED
  BY <1>1, <1>2, <1>3, <1>4 DEF Stream!ReadType

\* Spaces behind a text change nothing but for characters.
LEMMA ScannedPadded ==
    ASSUME NEW text \in Text, NEW p \in Text, IsPrefix(p, text),
           \A i \in (Len(p) + 1)..Len(text) : text[i] = Space,
           NEW t \in Stream!ReadType, t # "character" \/ Len(p) > 0
    PROVE  Stream!Scanned(p, t) = Stream!Scanned(text, t)
<1>. DEFINE n == Stream!Scanned(text, t)
<1>1. n \in 0..Len(text) /\ Len(text) \in Nat /\ Len(p) \in Nat
  BY ScannedIs DEF Text
<1>2. n <= Len(p)
  <2>1. CASE t = "character"
    BY <1>1, <2>1 DEF Stream!Scanned, Stream!AsCharacter
  <2>2. CASE t # "character"
    <3>1. n > 0 => text[n] # Space
      BY <2>2, ScannedIs
    <3>. HIDE DEF n
    <3>. QED
      BY <1>1, <3>1
  <2>. QED
    BY <2>1, <2>2
<1>. QED
  BY <1>2, ScannedPrefix

---------------------------------------------------------------------------
(* The inductive invariant.                                                *)

ReadInv == pc \in {"fill", "scan", "refill"} => type \in Stream!ReadType

\* Until the buffer is filled a second time it holds what was taken.
MemInv == taken <= BufferSize => \A o \in Offset :
    mem[o] = IF o < taken THEN input[o + 1] ELSE IF o < BufferSize THEN Space ELSE NUL

\* Nothing was read so far.
Untouched == taken = 0 /\ consumed = 0 /\ ptr = 0 /\ len = 0 /\ pc \in {"idle", "fill"}

\* The buffer was filled and there is more: the length is what is left of it,
\* and the pointer stands at what is unread.
OneBuffer ==
    /\ taken = BufferSize /\ taken < Len(input)
    /\ \/ pc = "overrun"
       \/ /\ len = BufferSize - consumed
          /\ ptr = consumed \/ consumed = BufferSize
          /\ pc \in {"scan", "refill"} => consumed < BufferSize
          /\ pc = "refill" => len < BufferSize

\* All of the input is in the buffer.
WholeInput ==
    /\ taken = Len(input) /\ pc # "overrun"
    /\ consumed < taken => ptr = consumed
    /\ consumed = taken => ptr >= taken \/ FillsBuffer

PosInv == taken <= BufferSize => Untouched \/ OneBuffer \/ WholeInput

IInv == TypeOK /\ ReadInv /\ MemInv /\ PosInv

---------------------------------------------------------------------------
(* The string at the pointer.                                              *)

LEMMA InputIs ==
    ASSUME TypeOK
    PROVE  /\ input \in Text /\ Len(input) \in Nat
           /\ BufferSize \in Nat \ {0} /\ taken \in 0..Len(input) /\ consumed \in 0..taken
           /\ ptr \in 0..BufferSize /\ len \in Int
           /\ \A i \in 1..Len(input) : input[i] \in Stream!Char
BY InStreamAssumption DEF TypeOK, Text, Offset

LEMMA StringIs ==
    ASSUME TypeOK, Terminated
    PROVE  \E e \in ptr..BufferSize :
              /\ StringAt = [i \in 1..(e - ptr) |-> mem[ptr + i - 1]]
              /\ StringAt \in Text /\ Len(StringAt) = e - ptr
              /\ mem[e] = NUL /\ \A o \in ptr..(e - 1) : mem[o] # NUL
<1>. DEFINE S == {o \in Offset : mem[o] = NUL}
            End(e) == mem[e] = NUL /\ \A o \in ptr..(e - 1) : mem[o] # NUL
            e == CHOOSE o \in ptr..BufferSize : End(o)
<1>1. /\ BufferSize \in Nat /\ ptr \in Nat /\ ptr <= BufferSize
      /\ mem \in [Offset -> Stream!Char \cup {NUL}]
  BY InStreamAssumption DEF TypeOK, Offset
<1>2. PICK m \in ptr..BufferSize : m \in S
  BY <1>1 DEF Terminated, Offset
<1>3. m \in Nat /\ ptr <= m /\ m <= BufferSize
  BY <1>1, <1>2
<1>4. PICK k \in ptr..m : k \in S /\ \A j \in ptr..(k - 1) : j \notin S
  <2>. HIDE DEF S
  <2>. QED
    BY <1>1, <1>2, <1>3, Least
<1>5. k \in ptr..BufferSize /\ End(k)
  BY <1>1, <1>3, <1>4 DEF Offset
<1>6. e \in ptr..BufferSize /\ End(e)
  <2>. HIDE DEF End
  <2>. QED
    BY <1>5
<1>7. StringAt = [i \in 1..(e - ptr) |-> mem[ptr + i - 1]]
  BY DEF StringAt
<1>. HIDE DEF e
<1>8. e - ptr \in Nat
  BY <1>1, <1>6
<1>9. \A i \in 1..(e - ptr) : mem[ptr + i - 1] \in Stream!Char
  <2>. SUFFICES ASSUME NEW i \in 1..(e - ptr) PROVE mem[ptr + i - 1] \in Stream!Char
    OBVIOUS
  <2>1. ptr + i - 1 \in ptr..(e - 1) /\ ptr + i - 1 \in Offset
    BY <1>1, <1>6 DEF Offset
  <2>. QED
    BY <1>1, <1>6, <2>1
<1>10. StringAt \in Text /\ Len(StringAt) = e - ptr
  BY <1>7, <1>8, <1>9 DEF Text
<1>. QED
  BY <1>6, <1>7, <1>10

\* Until the buffer is filled a second time the string at the pointer is what
\* was taken, and spaces behind it.
LEMMA Buffered ==
    ASSUME TypeOK, MemInv, taken <= BufferSize
    PROVE  /\ Terminated
           /\ StringAt \in Text /\ Len(StringAt) = BufferSize - ptr
           /\ \A i \in 1..(BufferSize - ptr) :
                 StringAt[i] = IF ptr + i <= taken THEN input[ptr + i] ELSE Space
<1>1. /\ BufferSize \in Nat \ {0} /\ ptr \in 0..BufferSize /\ taken \in Nat
      /\ taken <= Len(input) /\ Len(input) \in Nat
      /\ \A i \in 1..Len(input) : input[i] \in Stream!Char
  BY InputIs
<1>2. /\ Offset = 0..BufferSize
      /\ \A o \in Offset :
           mem[o] = IF o < taken THEN input[o + 1] ELSE IF o < BufferSize THEN Space ELSE NUL
  BY DEF MemInv, Offset
<1>3. mem[BufferSize] = NUL
  BY <1>1, <1>2
<1>4. \A o \in Offset : o < BufferSize => mem[o] # NUL
  <2>1. Space \in Stream!Char /\ NUL \notin Stream!Char
    BY InStreamAssumption DEF Stream!Char
  <2>2. \A o \in Offset : o < taken => o + 1 \in 1..Len(input)
    BY <1>1, <1>2
  <2>. QED
    BY <1>1, <1>2, <2>1, <2>2
<1>5. Terminated
  BY <1>1, <1>3 DEF Terminated
<1>6. PICK e \in ptr..BufferSize :
              /\ StringAt = [i \in 1..(e - ptr) |-> mem[ptr + i - 1]]
              /\ StringAt \in Text /\ Len(StringAt) = e - ptr
              /\ mem[e] = NUL
  BY <1>5, StringIs
<1>7. e = BufferSize
  BY <1>1, <1>2, <1>4, <1>6
<1>8. \A i \in 1..(BufferSize - ptr) :
        StringAt[i] = IF ptr + i <= taken THEN input[ptr + i] ELSE Space
  <2>. SUFFICES ASSUME NEW i \in 1..(BufferSize - ptr)
                PROVE  StringAt[i] = IF ptr + i <= taken THEN input[ptr + i] ELSE Space
    OBVIOUS
  <2>1. StringAt[i] = mem[ptr + i - 1]
    BY <1>6, <1>7
  <2>2. /\ ptr + i - 1 \in Offset /\ ptr + i - 1 < BufferSize /\ (ptr + i - 1) + 1 = ptr + i
        /\ ptr + i - 1 < taken <=> ptr + i <= taken
    BY <1>1, <1>2
  <2>. QED
    BY <1>2, <2>1, <2>2
<1>. QED
  BY <1>5, <1>6, <1>7, <1>8

LEMMA BytesIs ==
    ASSUME TypeOK, Terminated, type \in Stream!ReadType
    PROVE  Bytes \in Nat /\ ptr + Bytes <= BufferSize /\ StringAt \in Text /\ Bytes <= Len(StringAt)
<1>1. PICK e \in ptr..BufferSize : StringAt \in Text /\ Len(StringAt) = e - ptr
  BY StringIs
<1>2. Bytes \in 0..Len(StringAt)
  BY <1>1, ScannedIs DEF Bytes
<1>. QED
  BY <1>1, <1>2, InputIs

---------------------------------------------------------------------------
(* Every step keeps the invariant.                                         *)

LEMMA InitInv == Init => IInv
<1>. SUFFICES ASSUME Init PROVE IInv
  OBVIOUS
<1>1. /\ input \in Inputs /\ Len(input) \in Nat /\ BufferSize \in Nat \ {0}
      /\ Offset = 0..BufferSize
  BY InStreamAssumption DEF Init, Offset
<1>2. mem \in [Offset -> Stream!Char \cup {NUL}]
  BY DEF Init, EmptyBuffer, Stream!Char
<1>3. TypeOK
  BY <1>1, <1>2 DEF Init, TypeOK
<1>4. MemInv
  BY <1>1 DEF Init, MemInv, EmptyBuffer
<1>5. ReadInv /\ PosInv
  BY DEF Init, ReadInv, PosInv, Untouched
<1>. QED
  BY <1>3, <1>4, <1>5 DEF IInv

LEMMA StartReadInv == IInv /\ StartRead => IInv'
<1>. SUFFICES ASSUME IInv, StartRead PROVE IInv'
  OBVIOUS
<1>. USE DEF IInv, StartRead
<1>1. TypeOK'
  BY DEF TypeOK
<1>2. ReadInv' /\ MemInv'
  BY DEF ReadInv, MemInv
<1>3. PosInv'
  <2>. SUFFICES ASSUME taken <= BufferSize PROVE Untouched' \/ OneBuffer' \/ WholeInput'
    BY DEF PosInv
  <2>1. FillsBuffer' = FillsBuffer
    BY DEF FillsBuffer
  <2>2. CASE Untouched
    BY <2>2 DEF Untouched
  <2>3. CASE OneBuffer
    BY <2>3, InputIs DEF OneBuffer
  <2>4. CASE WholeInput
    BY <2>1, <2>4 DEF WholeInput
  <2>. QED
    BY <2>2, <2>3, <2>4 DEF PosInv
<1>. QED
  BY <1>1, <1>2, <1>3

LEMMA WriteIs ==
    ASSUME TypeOK, NEW at \in Int, NEW n \in Nat \ {0}, taken + n <= Len(input), Write(at, n)
    PROVE  /\ mem' \in [Offset -> Stream!Char \cup {NUL}]
           /\ taken' \in 0..Len(input) /\ taken <= taken'
           /\ Overruns(at, n) => taken' = taken /\ mem' = mem
           /\ ~Overruns(at, n) =>
                /\ taken' = taken + n
                /\ mem' = [o \in Offset |-> IF o \in at..(at + n - 1)
                                            THEN input[taken + 1 + o - at] ELSE mem[o]]
<1>1. /\ taken \in Nat /\ taken <= Len(input) /\ Len(input) \in Nat
      /\ \A i \in 1..Len(input) : input[i] \in Stream!Char
      /\ mem \in [Offset -> Stream!Char \cup {NUL}]
  BY InputIs DEF TypeOK
<1>2. CASE Overruns(at, n)
  BY <1>1, <1>2 DEF Write, Overruns
<1>3. CASE ~Overruns(at, n)
  <2>1. /\ taken' = taken + n
        /\ mem' = [o \in Offset |-> IF o \in at..(at + n - 1)
                                    THEN input[taken + 1 + o - at] ELSE mem[o]]
    BY <1>3 DEF Write, Overruns
  <2>2. \A o \in Offset : o \in at..(at + n - 1) => taken + 1 + o - at \in 1..Len(input)
    BY <1>1 DEF Offset
  <2>3. mem' \in [Offset -> Stream!Char \cup {NUL}]
    BY <1>1, <2>1, <2>2
  <2>. QED
    BY <1>1, <1>3, <2>1, <2>3
<1>. QED
  BY <1>2, <1>3

LEMMA FillBufferInv == IInv /\ FillBuffer => IInv'
<1>. SUFFICES ASSUME IInv, FillBuffer PROVE IInv'
  OBVIOUS
<1>. DEFINE n == IF Len(input) - taken < BufferSize THEN Len(input) - taken ELSE BufferSize
<1>1. /\ input \in Text /\ Len(input) \in Nat /\ BufferSize \in Nat \ {0}
      /\ taken \in 0..Len(input) /\ consumed \in 0..taken /\ ptr \in 0..BufferSize /\ len \in Int
  BY InputIs DEF IInv
<1>2. /\ pc = "fill" /\ UNCHANGED <<input, ptr, state, value, type, consumed>>
      /\ IF n = 0
         THEN len' \in Garbage /\ pc' = "scan" /\ UNCHANGED <<mem, taken>>
         ELSE /\ Write(ptr, n) /\ len' = n
              /\ pc' = IF Overruns(ptr, n) THEN "overrun" ELSE "scan"
  BY DEF FillBuffer
<1>3. n \in Nat /\ taken + n <= Len(input) /\ (n = 0 <=> taken = Len(input))
      /\ n <= BufferSize /\ (n # BufferSize => taken + n = Len(input))
  BY <1>1
<1>. HIDE DEF n
<1>4. n # 0 => /\ mem' \in [Offset -> Stream!Char \cup {NUL}]
               /\ taken' \in 0..Len(input) /\ taken <= taken'
               /\ Overruns(ptr, n) => taken' = taken /\ mem' = mem
               /\ ~Overruns(ptr, n) =>
                    /\ taken' = taken + n
                    /\ mem' = [o \in Offset |-> IF o \in ptr..(ptr + n - 1)
                                                THEN input[taken + 1 + o - ptr] ELSE mem[o]]
  BY <1>1, <1>2, <1>3, WriteIs DEF IInv
<1>5. TypeOK'
  <2>1. len' \in Int
    <3>1. CASE n = 0
      BY <1>2, <3>1, InStreamAssumption
    <3>2. CASE n # 0
      BY <1>2, <1>3, <3>2
    <3>. QED
      BY <3>1, <3>2
  <2>2. mem' \in [Offset -> Stream!Char \cup {NUL}] /\ taken' \in 0..Len(input) /\ taken <= taken'
    BY <1>1, <1>2, <1>4 DEF IInv, TypeOK
  <2>3. pc' \in {"scan", "overrun"}
    BY <1>2
  <2>. QED
    BY <1>1, <1>2, <2>1, <2>2, <2>3 DEF IInv, TypeOK
<1>6. ReadInv'
  BY <1>2 DEF IInv, ReadInv
<1>7. FillsBuffer' = FillsBuffer
  BY <1>2 DEF FillsBuffer
<1>8. MemInv' /\ PosInv'
  <2>. SUFFICES ASSUME taken' <= BufferSize
                PROVE  MemInv' /\ (Untouched' \/ OneBuffer' \/ WholeInput')
    BY DEF MemInv, PosInv
  <2>1. taken <= BufferSize
    BY <1>1, <1>2, <1>4
  <2>2. CASE n = 0
    <3>1. MemInv'
      BY <1>2, <2>2 DEF IInv, MemInv
    <3>2. WholeInput'
      BY <1>1, <1>2, <1>3, <1>7, <2>1, <2>2 DEF IInv, PosInv, Untouched, OneBuffer, WholeInput
    <3>. QED
      BY <3>1, <3>2
  <2>3. CASE n # 0 /\ taken = 0
    <3>1. ptr = 0 /\ consumed = 0
      BY <1>1, <1>2, <1>3, <2>1, <2>3 DEF IInv, PosInv, Untouched, OneBuffer, WholeInput
    <3>2. ~Overruns(ptr, n)
      BY <1>1, <1>3, <2>3, <3>1 DEF Overruns, Offset
    <3>3. /\ taken' = n /\ pc' = "scan" /\ len' = n
          /\ mem' = [o \in Offset |-> IF o \in 0..(n - 1) THEN input[1 + o] ELSE mem[o]]
      <4>1. \A o \in Offset : taken + 1 + o - ptr = 1 + o /\ ptr + n - 1 = n - 1
        BY <1>1, <1>3, <2>3, <3>1 DEF Offset
      <4>2. ptr..(ptr + n - 1) = 0..(n - 1)
        BY <1>1, <1>3, <3>1
      <4>. QED
        BY <1>1, <1>2, <1>3, <1>4, <2>3, <3>1, <3>2, <4>1, <4>2
    <3>4. MemInv'
      <4>. SUFFICES ASSUME NEW o \in Offset
                    PROVE  mem'[o] = IF o < taken' THEN input[o + 1]
                                     ELSE IF o < BufferSize THEN Space ELSE NUL
        BY <1>2 DEF MemInv
      <4>1. mem[o] = IF o < BufferSize THEN Space ELSE NUL
        BY <2>1, <2>3 DEF IInv, MemInv, Offset
      <4>2. o \in 0..(n - 1) <=> o < n
        BY <1>1, <1>3 DEF Offset
      <4>3. o + 1 = 1 + o
        BY DEF Offset
      <4>. QED
        BY <3>3, <4>1, <4>2, <4>3
    <3>5. OneBuffer' \/ WholeInput'
      <4>1. CASE n = Len(input)
        BY <1>1, <1>2, <1>3, <2>3, <3>1, <3>3, <4>1 DEF WholeInput
      <4>2. CASE n # Len(input)
        BY <1>1, <1>2, <1>3, <2>3, <3>1, <3>3, <4>2 DEF OneBuffer
      <4>. QED
        BY <4>1, <4>2
    <3>. QED
      BY <3>4, <3>5
  <2>4. CASE n # 0 /\ taken # 0
    <3>1. taken = BufferSize /\ taken < Len(input)
      BY <1>1, <1>2, <1>3, <2>1, <2>4 DEF IInv, PosInv, Untouched, OneBuffer, WholeInput
    <3>2. Overruns(ptr, n)
      BY <1>1, <1>3, <1>4, <2>4, <3>1
    <3>3. taken' = taken /\ mem' = mem /\ pc' = "overrun"
      BY <1>2, <1>4, <2>4, <3>2
    <3>4. MemInv'
      BY <1>2, <3>3 DEF IInv, MemInv
    <3>5. OneBuffer'
      BY <1>2, <3>1, <3>3 DEF OneBuffer
    <3>. QED
      BY <3>4, <3>5
  <2>. QED
    BY <2>2, <2>3, <2>4
<1>. QED
  BY <1>5, <1>6, <1>8 DEF IInv

LEMMA RefillInv == IInv /\ Refill => IInv'
<1>. SUFFICES ASSUME IInv, Refill PROVE IInv'
  OBVIOUS
<1>1. /\ input \in Text /\ Len(input) \in Nat /\ BufferSize \in Nat \ {0}
      /\ taken \in 0..Len(input) /\ consumed \in 0..taken /\ ptr \in 0..BufferSize /\ len \in Int
  BY InputIs DEF IInv
<1>2. /\ pc = "refill" /\ len' = len + 1 /\ UNCHANGED <<input, ptr, state, value, type, consumed>>
  BY DEF Refill
<1>3. CASE AtEnd
  <2>1. pc' = pc /\ UNCHANGED <<mem, taken>>
    BY <1>3 DEF Refill
  <2>2. TypeOK' /\ ReadInv' /\ MemInv'
    BY <1>1, <1>2, <2>1 DEF IInv, TypeOK, ReadInv, MemInv
  <2>3. FillsBuffer' = FillsBuffer
    BY <1>2 DEF FillsBuffer
  <2>4. PosInv'
    <3>. SUFFICES ASSUME taken <= BufferSize PROVE WholeInput'
      BY <2>1 DEF PosInv
    <3>1. WholeInput
      BY <1>1, <1>2, <1>3 DEF IInv, PosInv, Untouched, OneBuffer, AtEnd
    <3>. QED
      BY <1>2, <2>1, <2>3, <3>1 DEF WholeInput
  <2>. QED
    BY <2>2, <2>4 DEF IInv
<1>4. CASE ~AtEnd
  <2>1. Write(ptr + len, 1) /\ pc' = IF Overruns(ptr + len, 1) THEN "overrun" ELSE pc
    BY <1>4 DEF Refill
  <2>2. taken < Len(input)
    BY <1>1, <1>4 DEF AtEnd
  <2>3. /\ mem' \in [Offset -> Stream!Char \cup {NUL}]
        /\ taken' \in 0..Len(input) /\ taken <= taken'
        /\ Overruns(ptr + len, 1) => taken' = taken /\ mem' = mem
        /\ ~Overruns(ptr + len, 1) => taken' = taken + 1
    <3>1. ptr + len \in Int /\ taken + 1 <= Len(input)
      BY <1>1, <2>2
    <3>. QED
      BY <2>1, <3>1, WriteIs DEF IInv
  <2>4. TypeOK'
    BY <1>1, <1>2, <2>1, <2>3 DEF IInv, TypeOK
  <2>5. ReadInv'
    BY <1>2, <2>1 DEF IInv, ReadInv
  <2>6. MemInv' /\ PosInv'
    <3>. SUFFICES ASSUME taken' <= BufferSize PROVE MemInv' /\ OneBuffer'
      BY DEF MemInv, PosInv
    <3>1. taken = BufferSize
      BY <1>1, <1>2, <2>2, <2>3 DEF IInv, PosInv, Untouched, OneBuffer, WholeInput
    <3>2. Overruns(ptr + len, 1)
      BY <1>1, <2>3, <3>1
    <3>3. taken' = taken /\ mem' = mem /\ pc' = "overrun"
      BY <2>1, <2>3, <3>2
    <3>4. MemInv'
      BY <1>2, <3>3 DEF IInv, MemInv
    <3>. QED
      BY <1>2, <2>2, <3>1, <3>3, <3>4 DEF OneBuffer
  <2>. QED
    BY <2>4, <2>5, <2>6 DEF IInv
<1>. QED
  BY <1>3, <1>4

LEMMA SucceedInv ==
    ASSUME IInv, pc \in {"scan", "refill"}, Terminated, Bytes > 0, Succeed(Bytes),
           UNCHANGED <<input, taken, mem>>
    PROVE  IInv'
<1>. DEFINE b == Bytes
<1>1. /\ input \in Text /\ Len(input) \in Nat /\ BufferSize \in Nat \ {0}
      /\ taken \in 0..Len(input) /\ consumed \in 0..taken /\ ptr \in 0..BufferSize /\ len \in Int
      /\ type \in Stream!ReadType
  BY InputIs DEF IInv, ReadInv
<1>2. b \in Nat \ {0} /\ ptr + b <= BufferSize /\ StringAt \in Text /\ b <= Len(StringAt)
  BY <1>1, BytesIs DEF IInv
<1>3. /\ value' = SubSeq(StringAt, 1, b)
      /\ ptr' = IF b = BufferSize THEN ptr ELSE ptr + b
      /\ len' = len - b /\ state' \in 0..2 /\ pc' = "idle" /\ type' = "none"
      /\ consumed' = IF consumed + b > taken THEN taken ELSE consumed + b
      /\ input' = input /\ taken' = taken /\ mem' = mem
  BY <1>1, <1>2 DEF Succeed, Moved
<1>4. FillsBuffer' = FillsBuffer
  BY DEF FillsBuffer
<1>5. b = Stream!Scanned(StringAt, type)
  BY DEF Bytes
<1>. HIDE DEF b
<1>6. TypeOK'
  <2>1. value' \in Seq(Stream!Char)
    BY <1>2, <1>3 DEF Text
  <2>2. ptr' \in Offset /\ consumed' \in 0..taken /\ len' \in Int
    BY <1>1, <1>2, <1>3 DEF Offset
  <2>. QED
    BY <1>3, <2>1, <2>2 DEF IInv, TypeOK
<1>7. ReadInv' /\ MemInv'
  BY <1>3 DEF IInv, ReadInv, MemInv
<1>8. PosInv'
  <2>. SUFFICES ASSUME taken <= BufferSize PROVE OneBuffer' \/ WholeInput'
    BY <1>3 DEF PosInv
  <2>1. CASE OneBuffer
    <3>1. taken = BufferSize /\ taken < Len(input) /\ len = BufferSize - consumed
          /\ consumed < BufferSize /\ ptr = consumed
      BY <1>1, <2>1 DEF OneBuffer
    <3>2. consumed' = consumed + b
      BY <1>1, <1>2, <1>3, <3>1
    <3>. QED
      BY <1>1, <1>2, <1>3, <3>1, <3>2 DEF OneBuffer
  <2>2. CASE WholeInput /\ consumed + b < taken
    <3>1. ptr = consumed /\ b # BufferSize /\ consumed' = consumed + b
      BY <1>1, <1>2, <1>3, <2>2 DEF WholeInput
    <3>. QED
      BY <1>1, <1>2, <1>3, <2>2, <3>1 DEF WholeInput
  <2>3. CASE WholeInput /\ consumed + b >= taken /\ consumed < taken
    <3>1. ptr = consumed /\ consumed' = taken /\ taken = Len(input)
      BY <1>1, <1>2, <1>3, <2>3 DEF WholeInput
    <3>2. b = BufferSize => FillsBuffer
      <4>. SUFFICES ASSUME b = BufferSize PROVE FillsBuffer
        OBVIOUS
      <4>1. ptr = 0 /\ consumed = 0 /\ Len(input) > 0
        BY <1>1, <1>2, <2>3, <3>1
      <4>2. /\ Len(StringAt) = BufferSize
            /\ \A i \in 1..BufferSize : StringAt[i] = IF i <= taken THEN input[i] ELSE Space
        BY <1>1, <4>1, Buffered DEF IInv
      <4>3. IsPrefix(input, StringAt)
            /\ \A i \in (Len(input) + 1)..Len(StringAt) : StringAt[i] = Space
        BY <1>1, <3>1, <4>2 DEF IsPrefix
      <4>4. Stream!Scanned(input, type) = BufferSize
        BY <1>1, <1>2, <1>5, <4>1, <4>3, ScannedPadded
      <4>. QED
        BY <1>1, <4>4 DEF FillsBuffer
    <3>. QED
      BY <1>1, <1>2, <1>3, <1>4, <2>3, <3>1, <3>2 DEF WholeInput
  <2>4. CASE WholeInput /\ consumed = taken
    <3>1. consumed' = taken /\ ptr' >= ptr
      BY <1>1, <1>2, <1>3, <2>4
    <3>2. ptr' \in Int
      BY <1>1, <1>2, <1>3
    <3>. QED
      BY <1>1, <1>3, <1>4, <2>4, <3>1, <3>2 DEF WholeInput
  <2>. QED
    BY <1>1, <1>2, <2>1, <2>2, <2>3, <2>4 DEF IInv, PosInv, Untouched
<1>. QED
  BY <1>6, <1>7, <1>8 DEF IInv

LEMMA FailInv ==
    ASSUME IInv, pc \in {"scan", "refill"}, Fail, UNCHANGED <<input, taken, mem>>
    PROVE  IInv'
<1>1. /\ UNCHANGED <<input, taken, mem, ptr, len, consumed>> /\ value' = <<>>
      /\ state' = 1 /\ pc' = "idle" /\ type' = "none"
  BY DEF Fail
<1>2. TypeOK' /\ ReadInv' /\ MemInv'
  BY <1>1 DEF IInv, TypeOK, ReadInv, MemInv
<1>3. FillsBuffer' = FillsBuffer
  BY <1>1 DEF FillsBuffer
<1>4. PosInv'
  BY <1>1, <1>3, InputIs DEF IInv, PosInv, Untouched, OneBuffer, WholeInput
<1>. QED
  BY <1>2, <1>4 DEF IInv

\* A scan that leaves the array has an input that filled the buffer twice.
LEMMA OverreadInv ==
    ASSUME IInv, ~Terminated, Overread, UNCHANGED <<input, taken, mem>>
    PROVE  IInv'
<1>1. UNCHANGED <<input, taken, mem, ptr, len, state, value, type, consumed>> /\ pc' = "overrun"
  BY DEF Overread
<1>2. ~(taken <= BufferSize)
  BY Buffered DEF IInv
<1>3. TypeOK' /\ ReadInv'
  BY <1>1 DEF IInv, TypeOK, ReadInv
<1>4. MemInv' /\ PosInv'
  BY <1>1, <1>2 DEF MemInv, PosInv
<1>. QED
  BY <1>3, <1>4 DEF IInv

LEMMA ScanInv == IInv /\ Scan => IInv'
<1>. SUFFICES ASSUME IInv, Scan PROVE IInv'
  OBVIOUS
<1>1. pc = "scan" /\ UNCHANGED <<input, taken, mem>>
  BY DEF Scan
<1>2. CASE ~Terminated
  BY <1>1, <1>2, OverreadInv DEF Scan
<1>3. CASE Terminated /\ Bytes > 0
  BY <1>1, <1>3, SucceedInv DEF Scan
<1>4. CASE Terminated /\ ~(Bytes > 0) /\ len < BufferSize
  <2>1. pc' = "refill" /\ UNCHANGED <<input, taken, mem, ptr, len, state, value, type, consumed>>
    BY <1>1, <1>4 DEF Scan
  <2>2. TypeOK' /\ ReadInv' /\ MemInv'
    BY <1>1, <2>1 DEF IInv, TypeOK, ReadInv, MemInv
  <2>3. FillsBuffer' = FillsBuffer
    BY <2>1 DEF FillsBuffer
  <2>4. PosInv'
    BY <1>1, <1>4, <2>1, <2>3 DEF IInv, PosInv, Untouched, OneBuffer, WholeInput
  <2>. QED
    BY <2>2, <2>4 DEF IInv
<1>5. CASE Terminated /\ ~(Bytes > 0) /\ ~(len < BufferSize)
  BY <1>1, <1>5, FailInv DEF Scan
<1>. QED
  BY <1>2, <1>3, <1>4, <1>5

LEMMA ScanAgainInv == IInv /\ ScanAgain => IInv'
<1>. SUFFICES ASSUME IInv, ScanAgain PROVE IInv'
  OBVIOUS
<1>1. pc = "refill" /\ UNCHANGED <<input, taken, mem>>
  BY DEF ScanAgain
<1>2. CASE ~Terminated
  BY <1>1, <1>2, OverreadInv DEF ScanAgain
<1>3. CASE Terminated /\ Bytes > 0
  BY <1>1, <1>3, SucceedInv DEF ScanAgain
<1>4. CASE Terminated /\ ~(Bytes > 0)
  BY <1>1, <1>4, FailInv DEF ScanAgain
<1>. QED
  BY <1>2, <1>3, <1>4

LEMMA NextInv == IInv /\ [Next]_vars => IInv'
<1>. SUFFICES ASSUME IInv, [Next]_vars PROVE IInv'
  OBVIOUS
<1>1. CASE UNCHANGED vars
  <2>1. FillsBuffer' = FillsBuffer
    BY <1>1 DEF vars, FillsBuffer
  <2>2. TypeOK' /\ ReadInv' /\ MemInv'
    BY <1>1 DEF vars, IInv, TypeOK, ReadInv, MemInv
  <2>3. PosInv'
    BY <1>1, <2>1 DEF vars, IInv, PosInv, Untouched, OneBuffer, WholeInput
  <2>. QED
    BY <2>2, <2>3 DEF IInv
<1>2. CASE StartRead
  BY <1>2, StartReadInv
<1>3. CASE FillBuffer
  BY <1>3, FillBufferInv
<1>4. CASE Scan
  BY <1>4, ScanInv
<1>5. CASE Refill
  BY <1>5, RefillInv
<1>6. CASE ScanAgain
  BY <1>6, ScanAgainInv
<1>. QED
  BY <1>1, <1>2, <1>3, <1>4, <1>5, <1>6 DEF Next, Step

THEOREM Invariance == Spec => []IInv
<1>. QED
  BY InitInv, NextInv, PTL DEF Spec

---------------------------------------------------------------------------
(* What the invariant gives.                                               *)

\* Every variable the code keeps for standard input has its type: the pointer
\* stays inside the array createInStreamBuffer makes and the state is one of
\* the three stream_state() may return.
THEOREM TypeCorrect == Spec => []TypeOK
<1>1. IInv => TypeOK
  BY DEF IInv
<1>. QED
  BY <1>1, Invariance, PTL

\* No read writes or scans outside the array while the input is no longer
\* than it (StreamFunctions.cpp, inStream).
THEOREM NoOverrun == Spec => []OverrunOnlyLongInputs
<1>1. IInv => OverrunOnlyLongInputs
  <2>. SUFFICES ASSUME IInv, pc = "overrun", ~(Len(input) > BufferSize) PROVE FALSE
    BY DEF OverrunOnlyLongInputs
  <2>1. taken <= BufferSize
    BY InputIs DEF IInv
  <2>. QED
    BY <2>1, InputIs DEF IInv, PosInv, Untouched, OneBuffer, WholeInput
<1>. QED
  BY <1>1, Invariance, PTL

---------------------------------------------------------------------------
(* A scan of the buffer is a read of the stream.                           *)

Exempt ==
    \/ ptr + Stream!Scanned(Unread, type) > BufferSize
    \/ consumed = Len(input) /\ (type = "character" \/ FillsBuffer)
    \/ taken > BufferSize

LEMMA UnreadIs ==
    ASSUME TypeOK
    PROVE  /\ Unread \in Text /\ Len(Unread) = Len(input) - consumed
           /\ \A i \in 1..(Len(input) - consumed) : Unread[i] = input[consumed + i]
<1>1. /\ input \in Text /\ Len(input) \in Nat /\ consumed \in 0..Len(input)
  BY InputIs
<1>. QED
  BY <1>1 DEF Unread, Text

\* The string at the pointer and the unread input start with the same value,
\* and it ends inside both.
LEMMA SameValue ==
    ASSUME IInv, pc \in {"scan", "refill"}, ~Exempt
    PROVE  /\ Stream!Scanned(Unread, type) = Bytes
           /\ Bytes <= Len(Unread) /\ consumed + Bytes <= taken
           /\ \A i \in 1..Bytes : Unread[i] = StringAt[i]
<1>. DEFINE n == Stream!Scanned(Unread, type)
            b == Bytes
<1>1. /\ input \in Text /\ Len(input) \in Nat /\ BufferSize \in Nat \ {0}
      /\ taken \in 0..Len(input) /\ consumed \in 0..taken /\ ptr \in 0..BufferSize /\ len \in Int
      /\ type \in Stream!ReadType
  BY InputIs DEF IInv, ReadInv
<1>2. taken <= BufferSize
  BY <1>1 DEF Exempt
<1>3. /\ StringAt \in Text /\ Len(StringAt) = BufferSize - ptr
      /\ \A i \in 1..(BufferSize - ptr) :
            StringAt[i] = IF ptr + i <= taken THEN input[ptr + i] ELSE Space
  BY <1>2, Buffered DEF IInv
<1>4. /\ Unread \in Text /\ Len(Unread) = Len(input) - consumed
      /\ \A i \in 1..(Len(input) - consumed) : Unread[i] = input[consumed + i]
  BY UnreadIs DEF IInv
<1>5. n \in 0..Len(Unread) /\ b \in 0..Len(StringAt)
  BY <1>1, <1>3, <1>4, ScannedIs DEF Bytes
<1>6. b = Stream!Scanned(StringAt, type)
  BY DEF Bytes
<1>7. ptr + n <= BufferSize
  BY <1>1, <1>5 DEF Exempt
<1>8. ~(consumed = Len(input) /\ (type = "character" \/ FillsBuffer))
  BY DEF Exempt
<1>9. /\ n = b /\ b <= Len(Unread) /\ consumed + b <= taken
      /\ \A i \in 1..b : Unread[i] = StringAt[i]
  <2>. HIDE DEF n, b
  <2>1. CASE OneBuffer
    <3>1. taken = BufferSize /\ taken < Len(input) /\ ptr = consumed /\ consumed < BufferSize
      BY <1>1, <2>1 DEF OneBuffer
    <3>2. /\ \A i \in 1..Len(StringAt) : StringAt[i] = Unread[i]
          /\ Len(StringAt) <= Len(Unread)
      BY <1>1, <1>3, <1>4, <3>1
    <3>3. IsPrefix(StringAt, Unread) /\ n <= Len(StringAt)
      BY <1>3, <1>7, <1>1, <1>5, <3>2 DEF IsPrefix
    <3>4. Stream!Scanned(StringAt, type) = Stream!Scanned(Unread, type)
      BY <1>1, <1>3, <1>4, <3>3, ScannedPrefix DEF n
    <3>. QED
      BY <1>1, <1>3, <1>4, <1>5, <1>6, <3>1, <3>2, <3>4 DEF n
  <2>2. CASE WholeInput
    <3>1. taken = Len(input) /\ (consumed < taken => ptr = consumed)
      BY <2>2 DEF WholeInput
    <3>2. consumed = taken => ptr >= taken /\ type # "character"
      BY <1>8, <2>2 DEF WholeInput
    <3>3. Len(Unread) <= Len(StringAt)
      BY <1>1, <1>2, <1>3, <1>4, <3>1, <3>2
    <3>4. IsPrefix(Unread, StringAt)
      <4>1. CASE consumed = taken
        BY <1>1, <1>3, <1>4, <3>1, <3>3, <4>1 DEF IsPrefix
      <4>2. CASE consumed < taken
        <5>. SUFFICES ASSUME NEW i \in 1..Len(Unread) PROVE Unread[i] = StringAt[i]
          BY <3>3 DEF IsPrefix
        <5>1. i \in 1..(Len(input) - consumed) /\ i \in 1..(BufferSize - ptr)
          BY <1>1, <1>3, <1>4, <3>3
        <5>2. ptr + i = consumed + i /\ ptr + i <= taken
          BY <1>1, <3>1, <4>2, <5>1
        <5>. QED
          BY <1>3, <1>4, <5>1, <5>2
      <4>. QED
        BY <1>1, <4>1, <4>2
    <3>5. \A i \in (Len(Unread) + 1)..Len(StringAt) : StringAt[i] = Space
      <4>. SUFFICES ASSUME NEW i \in (Len(Unread) + 1)..Len(StringAt) PROVE StringAt[i] = Space
        OBVIOUS
      <4>1. i \in 1..(BufferSize - ptr) /\ i > Len(input) - consumed
        BY <1>1, <1>3, <1>4
      <4>2. ~(ptr + i <= taken)
        BY <1>1, <3>1, <3>2, <4>1
      <4>. QED
        BY <1>3, <4>1, <4>2
    <3>6. type # "character" \/ Len(Unread) > 0
      BY <1>1, <1>4, <3>1, <3>2
    <3>7. Stream!Scanned(Unread, type) = Stream!Scanned(StringAt, type)
      BY <1>1, <1>3, <1>4, <3>4, <3>5, <3>6, ScannedPadded
    <3>8. n = b
      BY <1>6, <3>7 DEF n
    <3>. QED
      BY <1>1, <1>3, <1>4, <1>5, <3>1, <3>4, <3>8 DEF IsPrefix
  <2>. QED
    BY <1>1, <1>2, <2>1, <2>2 DEF IInv, PosInv, Untouched
<1>. QED
  BY <1>9

LEMMA SucceedReads ==
    ASSUME IInv, pc \in {"scan", "refill"}, ~Exempt, Bytes > 0, Succeed(Bytes),
           UNCHANGED <<input, taken, mem>>
    PROVE  Stream!Read(type)
<1>. DEFINE b == Bytes
<1>1. /\ Stream!Scanned(Unread, type) = b
      /\ b <= Len(Unread) /\ consumed + b <= taken
      /\ \A i \in 1..b : Unread[i] = StringAt[i]
  BY SameValue
<1>2. /\ Len(input) \in Nat /\ taken \in 0..Len(input) /\ consumed \in 0..taken
  BY InputIs DEF IInv
<1>3. b \in Nat \ {0} /\ StringAt \in Text /\ b <= Len(StringAt)
  <2>1. Terminated /\ type \in Stream!ReadType
    BY InputIs, Buffered DEF IInv, ReadInv, Exempt
  <2>. QED
    BY <2>1, BytesIs DEF IInv
<1>4. value' = SubSeq(StringAt, 1, b) /\ state' \in {0, 2} /\ input' = input
      /\ consumed' = IF consumed + b > taken THEN taken ELSE consumed + b
  BY DEF Succeed
<1>. HIDE DEF b
<1>5. Unread \in Text /\ Len(Unread) = Len(input) - consumed
  BY UnreadIs DEF IInv
<1>6. SubSeq(StringAt, 1, b) = SubSeq(Unread, 1, b)
  BY <1>1, <1>3, <1>5, SubSeqProperties DEF Text
<1>7. consumed' = consumed + b
  BY <1>1, <1>2, <1>3, <1>4
<1>8. Unread' = SubSeq(Unread, b + 1, Len(Unread))
  <2>1. Unread' = SubSeq(input, consumed + b + 1, Len(input))
    BY <1>4, <1>7 DEF Unread
  <2>2. input \in Text
    BY InputIs DEF IInv
  <2>3. SubSeq(SubSeq(input, consumed + 1, Len(input)), b + 1, Len(input) - consumed)
          = SubSeq(input, consumed + b + 1, Len(input))
    BY <1>1, <1>2, <1>3, <2>2 DEF Text
  <2>. QED
    BY <1>5, <2>1, <2>3 DEF Unread
<1>. QED
  BY <1>1, <1>3, <1>4, <1>6, <1>8 DEF Stream!Read

LEMMA FailReads ==
    ASSUME IInv, pc \in {"scan", "refill"}, ~Exempt, ~(Bytes > 0), Fail,
           UNCHANGED <<input, taken, mem>>
    PROVE  Stream!Read(type)
<1>1. Terminated /\ type \in Stream!ReadType
  BY InputIs, Buffered DEF IInv, ReadInv, Exempt
<1>2. Bytes = 0
  BY <1>1, BytesIs DEF IInv
<1>3. Stream!Scanned(Unread, type) = 0
  BY <1>2, SameValue
<1>4. value' = <<>> /\ state' = 1 /\ UNCHANGED Unread
  BY DEF Fail, Unread
<1>. QED
  BY <1>3, <1>4 DEF Stream!Read

\* Each read of the emitted code is a read of the text, but where a value
\* reaches beyond the array and where the buffer holds something else than
\* what was taken.
THEOREM ReadsAreOfTheStream == Spec => ReadsTheStream
<1>. DEFINE Visible == <<input, consumed, value, state>>
            Allowed ==
              \/ /\ type \in Stream!ReadType
                 /\ Stream!Read(type) \/ ptr + Stream!Scanned(Unread, type) > BufferSize
              \/ consumed = Len(input) /\ (type = "character" \/ FillsBuffer)
              \/ taken > BufferSize
<1>1. ASSUME IInv, [Next]_vars PROVE Allowed \/ UNCHANGED Visible
  <2>. USE <1>1
  <2>1. CASE UNCHANGED vars
    BY <2>1 DEF vars
  <2>2. CASE StartRead
    BY <2>2 DEF StartRead
  <2>3. CASE FillBuffer
    BY <2>3 DEF FillBuffer
  <2>4. CASE Refill
    BY <2>4 DEF Refill
  <2>5. CASE Scan \/ ScanAgain
    <3>1. pc \in {"scan", "refill"} /\ type \in Stream!ReadType /\ UNCHANGED <<input, taken, mem>>
      BY <2>5 DEF Scan, ScanAgain, IInv, ReadInv
    <3>2. CASE Exempt
      BY <3>1, <3>2 DEF Exempt
    <3>3. CASE ~Exempt /\ UNCHANGED Visible
      BY <3>3
    <3>4. CASE ~Exempt /\ Bytes > 0 /\ Succeed(Bytes)
      BY <3>1, <3>4, SucceedReads
    <3>5. CASE ~Exempt /\ ~(Bytes > 0) /\ Fail
      BY <3>1, <3>5, FailReads
    <3>. QED
      <4>1. \/ UNCHANGED Visible
            \/ Bytes > 0 /\ Succeed(Bytes)
            \/ ~(Bytes > 0) /\ Fail
        BY <2>5, <3>1 DEF Scan, ScanAgain, Overread
      <4>. QED
        BY <3>2, <3>3, <3>4, <3>5, <4>1
  <2>. QED
    BY <1>1, <2>1, <2>2, <2>3, <2>4, <2>5 DEF Next, Step
<1>2. ASSUME IInv, [Next]_vars PROVE [Allowed]_Visible
  BY <1>1, <1>2
<1>. QED
  BY <1>2, Invariance, PTL DEF Spec, ReadsTheStream

=============================================================================
