CONSTANTS
    WordSize = 8
    MaxStats = 2
    MaxOperations = 1
    Literals = {"integer", "boolean"}
    DeclTypes <- Declared
    CastBases = {"integer"}
    BinaryOps = {"+", "<", "==", "and", "||", "**"}
    ReturnBases = {"integer", "real"}
SPECIFICATION Spec
CHECK_DEADLOCK FALSE
INVARIANTS PromotesTheExpression
