CONSTANTS
    MayHang = FALSE
    SpawnMayFail = FALSE
SPECIFICATION Spec
INVARIANT LaunchAccepted
