SPECIFICATION Spec
CONSTANTS
    HEADER = 20
    TAIL = 21
    Modulus = 17
    Commands = {2, 3, 4}
    WIFI_CONFIG_EVENT = 4
    Sources <- MCSources
    Target = 1
    None = None
    Sendable <- MCFrames
    Junk <- MCJunk
    Values <- MCValues
    MaxFrames = 3
INVARIANTS
    TypeOK
    FramesArrive
    ValidIsIntact
PROPERTY
    RemainderIsRedacted
