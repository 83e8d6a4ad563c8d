\* Two machines, one of them copied on; puts and streams fail again and again.
SPECIFICATION AgentFairSpec
CONSTANTS
    Nodes = {a, b}
    Others = {}
    Contents = {c1, c2}
    Empty = Empty
    Before = {Empty}
    Reads <- Faithful
    Copiers = {a}
    Sensitive = {}
    ClearOnBlock = FALSE
    Disturbances = {"put", "stream"}
    MaxCopies = 2
    MaxClips = 2
    MaxRestarts = 0
PROPERTIES
    CopyReachesHub
    ReachedMachinesAgree
