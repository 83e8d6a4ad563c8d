\* Two machines that are copied on once or twice in all, nothing goes wrong.
\* All ends when everything is sent and applied.
SPECIFICATION AgentFairSpec
CONSTANTS
    Nodes = {a, b}
    Others = {}
    Contents = {c1, c2}
    Empty = Empty
    Before = {Empty}
    Reads <- Faithful
    Copiers = {a, b}
    Sensitive = {}
    ClearOnBlock = FALSE
    Disturbances = {}
    MaxCopies = 2
    MaxClips = 2
    MaxRestarts = 0
PROPERTIES
    LastWriteWins
CHECK_DEADLOCK FALSE
