\* A clean reinstall that meets no failure.
CONSTANTS
    Tools = { "reinstall" }
    MaxRuns = 1
    Faults = FALSE
SPECIFICATION Spec
INVARIANT SuccessIsComplete
