CONSTANTS
    WordSize = 4
    MaxBlocks = 6
    MaxLive = 2
    Vars = {x, y}
    Bases = {"integer"}
    MaxSize = 1
    Depth = 2
    ValueBound = 1
    MaxStructs = 2
SPECIFICATION Spec
INVARIANT ReturnedIsACopy
