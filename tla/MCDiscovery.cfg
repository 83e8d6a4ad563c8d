\* Two nodes, a hub that moves once, and a clipd that is started again and again.
SPECIFICATION FairSpec
CONSTANTS
    Names = {n1, n2}
    Flags <- MCFlags
    CacheTTL = 2
    FirstDelay = 1
    MaxDelay = 3
    DialTimeout = 1
    MaxMoves = 1
    None = None
    Localhost = Localhost
INVARIANTS
    FoundUnlessMisled
    RecoversWithinCap
    OneLookupSuffices
PROPERTIES
    ConnectsInTheEnd
