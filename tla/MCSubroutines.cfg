CONSTANTS
    Names = {main, f}
    Main = main
    Variables = {v, w, c}
    Mutables = {v, w}
    Tuples = {v}
    NoVariable = no_variable
    Integer = integer
    Boolean = boolean
    MaxNodes = 4
    MaxCalls = 1
    MaxParams = 2
SPECIFICATION Spec
INVARIANTS
    LegalIsAccepted
    CallsFit
    VarArgumentsAreExclusive
