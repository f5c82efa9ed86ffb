\* A server that may stay silent and a thread that may not be created.
CONSTANTS
    MayHang = TRUE
    SpawnMayFail = TRUE
SPECIFICATION Spec
INVARIANTS
    PadLifetime
    LateEvents
    NoOrphanApp
    ReleasedAtExit
    IInv
PROPERTIES
    StopsStreaming
    HoldEnds
    ImplementsLifecycle
