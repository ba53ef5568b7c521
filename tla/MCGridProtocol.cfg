CONSTANTS
    w1 = w1
    w2 = w2
    w3 = w3
    a = a
    b = b
    Peers = {w1, w2, w3}
    Joiners = {w3}
    Leavers = {w1}
    Faulty = {w2}
    Atoms = {a, b}
    Configs <- CohortConfigs
    MaxRounds = 2
    MaxWorkerId = 4
SPECIFICATION Spec
INVARIANTS
    TypeOK
    IdentityTravelsWithStream
    BarrierBetweenRounds
    NetWholeUnlessWithheld
    JoinAckHonest
PROPERTIES
    IdsNeverReused
    ImplementsBSP
CHECK_DEADLOCK FALSE
