\* A hub with a store: two contents, a history of two, two starts.
SPECIFICATION Spec
CONSTANTS
    Payloads = {p1, p2}
    Null = Null
    MaxHistory = 2
    TTLs = {1}
    Persistent = TRUE
    DiskFaults = FALSE
    MaxSeq = 3
    MaxClock = 2
    MaxRuns = 2
SYMMETRY PayloadSymmetry
INVARIANTS
    HubInv
    CurrentIsNewest
    CurrentUnlessEmpty
    AckedDurable
    ClearedStaysCleared
    WindowSurvivesRestart
PROPERTIES
    NewSeqAboveAcked
    PersistInOrder
