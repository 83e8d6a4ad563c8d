\* One client over any number of connections, and a hub that restarts.
SPECIFICATION StreamSpec
CONSTANTS
    Payloads = {p1, p2}
    Null = Null
    MaxHistory = 2
    TTLs = {1}
    Persistent = TRUE
    DiskFaults = FALSE
    MaxSeq = 3
    MaxClock = 0
    MaxRuns = 2
    Clients = {c1}
    QueueCap = 1
    Oversized = {}
SYMMETRY PayloadSymmetry
VIEW StreamView
INVARIANTS
    StreamInv
    ReceivedInOrder
    NoSilentGap
