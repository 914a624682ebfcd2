------------------------------ MODULE InStream ------------------------------
(***************************************************************************)
(* The code inStream emits for a read (StreamFunctions.cpp): the global    *)
(* buffer, the pointer into it that only moves forward, the number of      *)
(* bytes left in it and the two refills, with scanf, sscanf and            *)
(* checkStdin (StreamPolling.c) as their callees.                          *)
(*                                                                         *)
(* Memory is the array createInStreamBuffer makes; a write or a scan that  *)
(* leaves it ends the program, whatever the build has behind the array.    *)
(* The buffer's 512 bytes are BufferSize.                                  *)
(***************************************************************************)
EXTENDS Integers, Sequences

CONSTANTS
    Digit, Space, Dot, TF, Other,   \* the kinds of character
    NUL,            \* the terminator of the array
    BufferSize,     \* 512 in the code
    Inputs,         \* the texts standard input may hold
    Garbage,        \* what a freshly allocated integer may hold
    MaxBelow        \* bound: how far below zero the length may be at a read

VARIABLES
    input,      \* what standard input holds
    taken,      \* how much of it scanf has taken
    mem,        \* instream_buffer_512_string
    ptr,        \* instream_buffer_512, as an offset into mem
    len,        \* instream_buffer_512_len
    state,      \* stream_state_g_int
    value,      \* what the last read stored, <<>> for zero
    pc,         \* where the read is
    type,       \* the type it reads
    consumed    \* the bytes of the input successful reads have taken; no code reads it

vars == <<input, taken, mem, ptr, len, state, value, pc, type, consumed>>

Unread == SubSeq(input, consumed + 1, Len(input))

Stream == INSTANCE InputStream WITH unread <- Unread

ASSUME InStreamAssumption ==
    /\ Space \notin {Digit, Dot, TF}
    /\ BufferSize \in Nat \ {0} /\ Inputs \subseteq Seq(Stream!Char)
    /\ NUL \notin Stream!Char /\ Garbage \subseteq Int /\ MaxBelow \in Nat

Offset == 0..BufferSize

---------------------------------------------------------------------------
\* Mutant: the size of the array without its terminator.
EmptyBufferUnterminated == [o \in Offset |-> Space]

EmptyBuffer == [o \in Offset |-> IF o = BufferSize THEN NUL ELSE Space]

Init ==
    /\ input \in Inputs /\ taken = 0 /\ consumed = 0
    /\ mem = EmptyBuffer /\ ptr = 0 /\ len = 0
    /\ state = 0 /\ value = <<>> /\ pc = "idle" /\ type = "none"

AtEnd == taken = Len(input)

\* The string at the pointer; Terminated says that there is one.
Terminated == \E o \in ptr..BufferSize : mem[o] = NUL

StringAt ==
    LET end == CHOOSE o \in ptr..BufferSize : mem[o] = NUL /\ \A p \in ptr..(o - 1) : mem[p] # NUL
    IN [i \in 1..(end - ptr) |-> mem[ptr + i - 1]]

\* scanf writes the next n bytes of the input at an offset.
Write(at, n) ==
    IF at + n - 1 \in Offset
    THEN /\ mem' = [o \in Offset |-> IF o \in at..(at + n - 1) THEN input[taken + 1 + o - at] ELSE mem[o]]
         /\ taken' = taken + n
    ELSE UNCHANGED <<mem, taken>>

Overruns(at, n) == at + n - 1 \notin Offset

---------------------------------------------------------------------------
(* The steps of a read.                                                    *)

StartRead ==
    /\ pc = "idle" /\ len >= -MaxBelow
    /\ type' \in Stream!ReadType
    /\ pc' = IF len = 0 THEN "fill" ELSE "scan"
    /\ UNCHANGED <<input, taken, mem, ptr, len, state, value, consumed>>

\* At the end of the input scanf stores no count.
FillBuffer ==
    /\ pc = "fill"
    /\ LET n == IF Len(input) - taken < BufferSize THEN Len(input) - taken ELSE BufferSize
       IN IF n = 0
          THEN len' \in Garbage /\ pc' = "scan" /\ UNCHANGED <<mem, taken>>
          ELSE /\ Write(ptr, n) /\ len' = n
               /\ pc' = IF Overruns(ptr, n) THEN "overrun" ELSE "scan"
    /\ UNCHANGED <<input, ptr, state, value, type, consumed>>

Bytes == Stream!Scanned(StringAt, type)

\* Mutant: the pointer moves on to the character behind the value.
MovedOneOn(bytes) == IF bytes = BufferSize THEN 0 ELSE bytes + 1

Moved(bytes) == IF bytes = BufferSize THEN 0 ELSE bytes

Succeed(bytes) ==
    /\ value' = SubSeq(StringAt, 1, bytes)
    /\ ptr' = ptr + Moved(bytes)
    /\ len' = len - bytes
    /\ state' = IF AtEnd THEN 2 ELSE 0
    /\ consumed' = IF consumed + bytes > taken THEN taken ELSE consumed + bytes
    /\ pc' = "idle" /\ type' = "none"

\* Mutant: the result of sscanf stays in the state.
FailWithResult ==
    /\ value' = <<>> /\ pc' = "idle" /\ type' = "none"
    /\ state' = IF Stream!Spaces(StringAt) = Len(StringAt) THEN -1 ELSE 0
    /\ UNCHANGED <<ptr, len, consumed>>

Fail ==
    /\ value' = <<>> /\ state' = 1 /\ pc' = "idle" /\ type' = "none"
    /\ UNCHANGED <<ptr, len, consumed>>

Overread == pc' = "overrun" /\ UNCHANGED <<ptr, len, state, value, type, consumed>>

Scan ==
    /\ pc = "scan"
    /\ IF ~Terminated THEN Overread
       ELSE IF Bytes > 0 THEN Succeed(Bytes)
       ELSE IF len < BufferSize
       THEN pc' = "refill" /\ UNCHANGED <<ptr, len, state, value, type, consumed>>
       ELSE Fail
    /\ UNCHANGED <<input, taken, mem>>

\* Mutant: the length grows by what was read.
RefillWhatIsThere ==
    /\ pc = "refill" /\ len < BufferSize
    /\ IF AtEnd THEN UNCHANGED <<mem, taken, len, pc>>
       ELSE /\ Write(ptr + len, 1) /\ len' = len + 1
            /\ pc' = IF Overruns(ptr + len, 1) THEN "overrun" ELSE pc
    /\ UNCHANGED <<input, ptr, state, value, type, consumed>>

\* The length grows whether or not scanf had a character.
Refill ==
    /\ pc = "refill" /\ len < BufferSize
    /\ IF AtEnd THEN pc' = pc /\ UNCHANGED <<mem, taken>>
       ELSE Write(ptr + len, 1) /\ pc' = IF Overruns(ptr + len, 1) THEN "overrun" ELSE pc
    /\ len' = len + 1
    /\ UNCHANGED <<input, ptr, state, value, type, consumed>>

ScanAgain ==
    /\ pc = "refill" /\ len >= BufferSize
    /\ IF ~Terminated THEN Overread ELSE IF Bytes > 0 THEN Succeed(Bytes) ELSE Fail
    /\ UNCHANGED <<input, taken, mem>>

Step == FillBuffer \/ Scan \/ Refill \/ ScanAgain

Next == StartRead \/ Step

Spec == Init /\ [][Next]_vars
FairSpec == Spec /\ WF_vars(Step)

---------------------------------------------------------------------------
(* Properties.                                                             *)

TypeOK ==
    /\ input \in Inputs /\ taken \in 0..Len(input) /\ consumed \in 0..taken
    /\ mem \in [Offset -> Stream!Char \cup {NUL}] /\ ptr \in Offset /\ len \in Int
    /\ state \in 0..2 /\ value \in Seq(Stream!Char)
    /\ pc \in {"idle", "fill", "scan", "refill", "overrun"}
    /\ type \in Stream!ReadType \cup {"none"}

\* The array is left, by a write or by a scan, only when the input is longer
\* than the buffer: the pointer, the length and the terminator agree however
\* reads succeed and fail, and whatever length the end of the input leaves.
OverrunOnlyLongInputs == pc = "overrun" => Len(input) > BufferSize

\* The input is one value that fills the buffer.
FillsBuffer == \E t \in Stream!ReadType : Stream!Scanned(input, t) = BufferSize

\* Every read takes the value of its type the unread input starts with, or
\* fails and takes nothing (a boolean read too, of which the comment at
\* tests/testfiles/team tests/regr-ivory-tower-1/inp1.in:8 says "should fail BUT
\* consume": the code moves no pointer when sscanf finds no value), but for
\* these: a value that does not end inside the
\* array is cut at its end, or not found; behind the end of the input the
\* array's spaces are read as characters, and a value that filled the buffer
\* is read again; and a buffer that was filled twice still holds what it held
\* before.
ReadsTheStream ==
    [][\/ /\ type \in Stream!ReadType
          /\ Stream!Read(type) \/ ptr + Stream!Scanned(Unread, type) > BufferSize
       \/ consumed = Len(input) /\ (type = "character" \/ FillsBuffer)
       \/ taken > BufferSize]_<<input, consumed, value, state>>

\* A read that was started ends: the loop that waits for a full buffer does
\* not wait for input that never comes.
ReadsEnd == pc \in {"fill", "scan", "refill"} ~> pc \in {"idle", "overrun"}

=============================================================================
