CONSTANTS
    w1 = w1
    w2 = w2
    w3 = w3
    a = a
    b = b
    Peers = {w1, w2, w3}
    Joiners = {w2, w3}
    Leavers = {}
    Faulty = {w2}
    Atoms = {a}
    Configs <- LiveConfigs
    MaxRounds = 2
    MaxWorkerId = 3
SPECIFICATION FairSpec
PROPERTIES
    CoordinatorReturns
    PeersReleased
    ImplementsBSP
CHECK_DEADLOCK FALSE
