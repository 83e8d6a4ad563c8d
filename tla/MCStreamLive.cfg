\* One client, which may stop reading and cannot read p2, and a hub without a store.
SPECIFICATION StreamFairSpec
CONSTANTS
    Payloads = {p1, p2}
    Null = Null
    MaxHistory = 2
    TTLs = {1}
    Persistent = FALSE
    DiskFaults = FALSE
    MaxSeq = 3
    MaxClock = 0
    MaxRuns = 1
    Clients = {c1}
    QueueCap = 1
    Oversized = {p2}
PROPERTIES
    SlowClientBlocksNoPut
    EveryClipArrives
    ReconnectCatchesUpUnblocked
