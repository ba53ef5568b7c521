CONSTANTS
    ArenaSize = 300
    U32Max = 999
    NumWorkers = 2
    MinChunk = 40
    Growth = 0
    MaxChurchNat = 3
    Jobs <- PowersOfOne
    LambdaJobs <- NoLambdaJobs
    MaxReadbackDepth = 40
    MaxBetaSteps = 12
    InitialNets = {}
    Strategies = {"contiguous"}
    Modes = {}
    HybridModes = {FALSE}
    MaxRounds = 4
    MaxInteractions = 60
SPECIFICATION ComputeSpec
INVARIANT
    GridAnswersAsSequential
CHECK_DEADLOCK FALSE
