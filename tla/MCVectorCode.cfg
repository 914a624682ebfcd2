CONSTANTS
    WordSize = 4
    MaxBlocks = 6
    MaxLive = 2
    Vars = {x, y}
    Bases = {"integer"}
    MaxSize = 2
    Depth = 2
    ValueBound = 1
    MaxStructs = 2
SPECIFICATION Spec
INVARIANTS TypeOK VariablesOwnTheirVectors
PROPERTIES
    ExpressionsHaveNoEffect OnlyFieldsAreFreedInUse
    WildOnlyThroughTuples OnlyTheseLeak OutOfBoundsFromThese ReturnsItsOwnCopy
SYMMETRY Symmetry
