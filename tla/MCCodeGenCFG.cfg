CONSTANTS
    MaxBlocks = 4
    MaxStats = 4
    LeafKinds = {"plain", "break", "continue", "return"}
    LoopKinds = {"inf_loop", "post_loop", "iter_loop"}
    ReturnTypes = {TRUE, FALSE}
    Releases = TRUE
    Text = "separate"
SPECIFICATION Spec
INVARIANTS
    BlocksEndInOneTerminator
    StackBalanced
    SamePaths
PROPERTIES
    ImplementsProgram
