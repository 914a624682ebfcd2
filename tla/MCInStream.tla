----------------------------- MODULE MCInStream -----------------------------
EXTENDS InStream

\* Numbers and words, up to two characters longer than the buffer.
Texts ==
    UNION {[1..n -> {Digit, Space, Dot}] \cup [1..n -> {Space, TF, Other}] : n \in 0..(BufferSize + 2)}

\* Too short, in range and too long.
Allocated == {-1, 0, 1, BufferSize, BufferSize + 1}

=============================================================================
