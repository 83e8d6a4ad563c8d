\* A clip that the client cannot read, with smaller ones around it.
SPECIFICATION StreamFairSpec
CONSTANTS
    Payloads = {p1, p2}
    Null = Null
    MaxHistory = 3
    TTLs = {1}
    Persistent = FALSE
    DiskFaults = FALSE
    MaxSeq = 3
    MaxClock = 0
    MaxRuns = 1
    Clients = {c1}
    QueueCap = 2
    Oversized = {p2}
PROPERTY
    ReconnectCatchesUp
