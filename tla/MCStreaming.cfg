CONSTANTS
    ArenaSize = 9
    U32Max = 999
    NumWorkers = 2
    MinChunk = 9
    Growth = 1
    Lifetimes = {1, 2, 999}
    Shapes <- SmallShapes
    Streams <- SmallStreams
SPECIFICATION Spec
CHECK_DEADLOCK FALSE
INVARIANTS
    StreamedNetIsTheNet
    PartitionsQueueRedexes
    OneChunkStricter
