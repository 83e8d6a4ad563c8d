\* One process, one stream, and clients that do as they please.
SPECIFICATION LifeFairSpec
CONSTANTS
    Payloads = {p1}
    Null = Null
    MaxHistory = 2
    TTLs = {1}
    Persistent = TRUE
    DiskFaults = FALSE
    MaxSeq = 2
    MaxClock = 1
    MaxRuns = 2
    Streams = {s1}
INVARIANTS
    StoreOutlivesPuts
PROPERTIES
    CleanExitKeepsAll
    SignalEndsProcess
    DeadStreamIsForgotten
\* The last process has ended.
CHECK_DEADLOCK FALSE
