\* Progress of the publish pipeline and of expiry, with a store whose statements may
\* fail.
SPECIFICATION FairSpec
CONSTANTS
    Payloads = {p1}
    Null = Null
    MaxHistory = 1
    TTLs = {1}
    Persistent = TRUE
    DiskFaults = TRUE
    MaxSeq = 2
    MaxClock = 2
    MaxRuns = 2
PROPERTIES
    EveryPutIsPublished
    ExpiredIsDropped
