CONSTANTS
    MaxBlocks = 3
    MaxStats = 4
    LeafKinds = {"plain", "break", "return"}
    LoopKinds = {"inf_loop"}
    ReturnTypes = {FALSE}
    Releases = FALSE
    Text = "any"
SPECIFICATION Spec
INVARIANTS
    BlocksEndInOneTerminator
