CONSTANTS
    MaxBlocks = 4
    MaxStats = 4
    LeafKinds = {"plain", "break", "continue", "return"}
    LoopKinds = {"inf_loop", "pre_loop", "post_loop"}
    ReturnTypes = {TRUE, FALSE}
SPECIFICATION FairSpec
INVARIANTS
    TypeOK
    NoFallOff
    PrunedIsUnreachable
    TerminalCondNeverPassed
    BreakHasTarget
    WalksComputeFunctions
PROPERTIES
    PassesTerminate
