CONSTANTS
    MaxLaunches = 2
    KeyMatches = TRUE
SPECIFICATION Spec
INVARIANT PairedStatusIsCurrent
