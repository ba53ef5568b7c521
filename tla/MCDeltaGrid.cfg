CONSTANTS
    ArenaSize = 30
    U32Max = 999
    NumWorkers = 2
    MinChunk = 12
    Growth = 1
    CidSpace = 268435456
    Shapes <- AllShapes
    InitialNets <- ShapedNets
    RoundCaps = {1, 6}
    MaxInteractions = 8
SPECIFICATION Spec
CHECK_DEADLOCK FALSE
INVARIANTS
    ActiveRedexesExact
    GraphMatchesWorkers
    PendingPromotedNextRound
    ConvergedIsNormal
    StopsByItself
