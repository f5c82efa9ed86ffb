\* Crashes at every step and writes that may fail; four identities are enough
\* for three spoilt or crashed launches before a good one.
CONSTANTS
    Identities = { i1, i2, i3, i4 }
    None = None
SPECIFICATION Spec
INVARIANTS
    LoadedMatches
    RemembersAcrossLaunches
    IInv
PROPERTY MatchIsKept
