CONSTANTS
    ArenaSize = 30
    U32Max = 30
    NumWorkers = 2
    MinChunk = 6
    Growth = 1
    MaxChurchNat = 3
    Shapes <- MixedShapes
    InitialNets <- GridNets
    Strategies = {"any"}
    Modes = {"lenient", "strict", "coordinator_free", "remote", "deferred"}
    HybridModes = {FALSE, TRUE}
    MaxRounds = 2
    MaxInteractions = 12
SPECIFICATION Spec
INVARIANTS
    FundamentalProperty
    InteractionCountInvariant
    MergedNetWellFormed
    IdsConfined
    SkippedRoundHadNoRedex
    RoundsMakeProgress
CHECK_DEADLOCK FALSE
