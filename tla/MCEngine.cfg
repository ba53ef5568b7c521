CONSTANTS
    ArenaSize = 12
    U32Max = 999
    MaxFree = 3
    MaxChurchNat = 3
    PairSymbols <- AllPairs
    ThirdSymbols <- AnyThird
    InitialNets <- EngineNets
SPECIFICATION Spec
INVARIANTS
    UntangledNetKeptWellFormed
    FreeListSound
    NoLostRedex
    InterfacePreserved
CHECK_DEADLOCK FALSE
