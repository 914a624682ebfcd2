CONSTANTS
    MaxBlocks = 3
    MaxStats = 5
    LeafKinds = {"decl", "plain", "break", "continue", "return"}
    LoopKinds = {"inf_loop", "iter_loop"}
    ReturnTypes = {TRUE, FALSE}
    Routines = {"function", "procedure", "main"}
    DeclText = "sound"
SPECIFICATION Spec
INVARIANTS
    NoWildFree
    CodeGenNeverThrows
    ReturnReleases
    OnlyRunningDomains
PROPERTIES
    BlocksRelease
