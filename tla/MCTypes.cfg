CONSTANTS
    WordSize = 8
    MaxStats = 3
    MaxOperations = 1
    Literals = {"integer", "boolean"}
    DeclTypes <- Declared
    CastBases = {"integer"}
    BinaryOps = {"+", "<", "and", "||"}
    ReturnBases = {"integer"}
SPECIFICATION Spec
CHECK_DEADLOCK FALSE
INVARIANTS AcceptedCompiles EmittedAsInferred
PROPERTIES VerdictAsDeclared TypesOnlyWiden
