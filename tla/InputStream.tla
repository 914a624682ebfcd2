---------------------------- MODULE InputStream ----------------------------
(***************************************************************************)
(* What a program expects of its input: one text that is read from left to *)
(* right.  A read takes the longest value of its type that the unread text *)
(* starts with.  A read that finds none takes nothing: that is what the    *)
(* generated code makes of it, for every type, and nothing specifies it.   *)
(* One test has a comment against it: of a boolean read of "X",            *)
(* "should fail BUT consume and leave stream empty" (tests/testfiles/team  *)
(* tests/regr-ivory-tower-1/inp1.in:8), in a file whose first line is      *)
(* "unsure if boolean is right or not".  What it wants to be printed, F00, *)
(* it gets either way, because the reads of numbers behind it find none in *)
(* "X" and none in an empty input.  What a value looks like is what sscanf *)
(* takes for the formats of BackEnd.cpp.                                   *)
(***************************************************************************)
EXTENDS Naturals, Sequences

CONSTANTS Digit, Space, Dot, TF, Other      \* the kinds of character

Char == {Digit, Space, Dot, TF, Other}
ReadType == {"integer", "real", "character", "boolean"}

VARIABLES
    unread,     \* the text that is left
    value,      \* what the last read stored, <<>> for the zero of a failed one
    state       \* what stream_state() returns

---------------------------------------------------------------------------
(* The value a text starts with, as the number of characters it takes with *)
(* the space before it; 0 for none.                                        *)

\* The end of the characters of C that follow the first n.
RunEnd(text, n, C) ==
    CHOOSE k \in n..Len(text) :
        /\ \A i \in (n + 1)..k : text[i] \in C
        /\ k = Len(text) \/ text[k + 1] \notin C

Spaces(text) == RunEnd(text, 0, {Space})

\* Spaces, then at least one character of C.
AsRun(text, C) ==
    LET from == Spaces(text)
        to   == RunEnd(text, from, C)
    IN IF to > from THEN to ELSE 0

AsInteger(text) == AsRun(text, {Digit})

AsReal(text) ==
    LET from  == Spaces(text)
        whole == RunEnd(text, from, {Digit})
        point == IF whole < Len(text) /\ text[whole + 1] = Dot THEN whole + 1 ELSE whole
        to    == IF point > whole THEN RunEnd(text, point, {Digit}) ELSE whole
    IN IF whole > from \/ to > point THEN to ELSE 0

\* Any number of the letters T and F are one boolean.
AsBoolean(text) == AsRun(text, {TF})

AsCharacter(text) == IF text = <<>> THEN 0 ELSE 1

Scanned(text, type) ==
    CASE type = "integer"   -> AsInteger(text)
      [] type = "real"      -> AsReal(text)
      [] type = "boolean"   -> AsBoolean(text)
      [] type = "character" -> AsCharacter(text)

---------------------------------------------------------------------------
Init == unread \in Seq(Char) /\ value = <<>> /\ state = 0

Read(type) ==
    LET n == Scanned(unread, type)
    IN IF n = 0
       THEN value' = <<>> /\ state' = 1 /\ UNCHANGED unread
       ELSE /\ value' = SubSeq(unread, 1, n)
            /\ unread' = SubSeq(unread, n + 1, Len(unread))
            /\ state' \in {0, 2}

Next == \E type \in ReadType : Read(type)

Spec == Init /\ [][Next]_<<unread, value, state>>

=============================================================================
