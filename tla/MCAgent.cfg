\* An agent that nobody may copy on, or somebody, with clear-on-block; everything
\* may go wrong.
SPECIFICATION AgentSpec
CONSTANTS
    Nodes = {a}
    Others = {o}
    Contents = {c1, c2}
    Empty = Empty
    Before = {c1, Empty}
    Reads <- Faithful
    Copiers = {a}
    Sensitive = {c2}
    ClearOnBlock = TRUE
    Disturbances = {"put", "late", "get", "stream", "clipboard", "pause", "erase", "restart"}
    MaxCopies = 2
    MaxClips = 2
    MaxRestarts = 1
INVARIANTS
    AgentInv
    SilentInv
    KnownWasShared
    StaleStaysLocal
    ReceiverStaysSilent
