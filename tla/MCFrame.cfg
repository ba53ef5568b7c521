CONSTANTS
    Frames = 3
    HeaderSize = 2
    MaxEncoded = 2
    MaxPayloadSize = 2
    Threshold = 2
    MaxDamage = 1
    MaxDrops = 2
SPECIFICATION Spec
INVARIANTS
    OnlyWhatWasSent
    NoSilentSkip
PROPERTIES
    AllArrive
CHECK_DEADLOCK FALSE
