CONSTANTS
    MaxBlocks = 3
    MaxStats = 5
    LeafKinds = {"decl", "break", "return"}
    LoopKinds = {"pre_loop"}
    ReturnTypes = {TRUE}
    Routines = {"function"}
    DeclText = "first"
SPECIFICATION Spec
INVARIANTS
    FreeReachesOuterScopes
