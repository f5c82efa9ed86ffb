\* A server that accepts a connection and stays silent.
CONSTANTS
    MayHang = TRUE
    SpawnMayFail = FALSE
SPECIFICATION Spec
PROPERTY HoldQuits
