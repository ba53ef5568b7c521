CONSTANTS
    MinWorkers = 2
    MaxRound = 1
    MaxFaults = 1
SPECIFICATION Spec
PROPERTIES
    ImplementsBSP
    TimeoutOfThisRound
    CollectEnds
    WorkersStop
CHECK_DEADLOCK FALSE
