CONSTANTS
    Digit = Digit
    Space = Space
    Dot = Dot
    TF = TF
    Other = Other
    NUL = NUL
    BufferSize = 3
    Inputs <- Texts
    Garbage <- Allocated
    MaxBelow = 4
SPECIFICATION FairSpec
INVARIANTS TypeOK OverrunOnlyLongInputs
PROPERTIES ReadsTheStream ReadsEnd
CHECK_DEADLOCK FALSE
