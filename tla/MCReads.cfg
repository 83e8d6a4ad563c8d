\* Readers, and the contract, against a hub that restarts and whose statements may
\* fail.
SPECIFICATION ReadsSpec
CONSTANTS
    Payloads = {p1, p2}
    Null = Null
    MaxHistory = 1
    TTLs = {1}
    Persistent = TRUE
    DiskFaults = TRUE
    MaxSeq = 2
    MaxClock = 1
    MaxRuns = 2
    Limits = {0, 5}
    DefaultLimit = 1
    MaxLimit = 2
SYMMETRY PayloadSymmetry
INVARIANTS
    WalkMissesNothing
    LookUpFindsHeld
    PageLagsByInflight
PROPERTIES
    HubMeetsContract
