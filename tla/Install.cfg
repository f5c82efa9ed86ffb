\* Any two tools, one after the other.
CONSTANTS
    Tools = { "install_net", "install_app", "reinstall", "update_app" }
    MaxRuns = 2
    Faults = TRUE
SPECIFICATION Spec
INVARIANTS
    IInv
    SuccessLeavesBytes
    RerunRepairs
PROPERTY IdentityKept
