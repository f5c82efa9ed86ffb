CONSTANTS
    MaxLaunches = 3
    KeyMatches = TRUE
SPECIFICATION UserSpec
INVARIANTS
    ReadyIsKnown
    PairedByOwnPin
    NoNeedlessPairing
    UserIInv
PROPERTIES
    PairingSucceeds
    NeverRefused
