SPECIFICATION Spec
CONSTANTS
    PongWait = 20
    WriteWait = 3
    MaxDelay = 1
    MaxPongs = 2
INVARIANTS
    KeepAliveTypeOK
    DroppedMeansOutage
    VanishedIsNoticed
    PumpsEnd
