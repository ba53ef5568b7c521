CONSTANTS
    ArenaSize = 160
    U32Max = 999
    NumWorkers = 2
    MinChunk = 24
    Growth = 0
    MaxChurchNat = 3
    Jobs <- ZeroLeading
    LambdaJobs <- NoLambdaJobs
    MaxReadbackDepth = 40
    MaxBetaSteps = 12
    InitialNets = {}
    Strategies = {"contiguous"}
    Modes = {}
    HybridModes = {FALSE}
    MaxRounds = 4
    MaxInteractions = 60
SPECIFICATION ComputeSpec
INVARIANT
    NeverWrong
CHECK_DEADLOCK FALSE
