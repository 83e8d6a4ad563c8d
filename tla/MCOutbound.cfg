\* One machine, two policies, two applications, three contents.
SPECIFICATION OutSpec
CONSTANTS
    Raw = {"term", "keepass", "keepassxc", "KeePassXC", "org.keepassxc", "/usr/bin/keepassxc", " ", ""}
    Word = {"term", "keepass", "keepassxc", "org.keepassxc", "/usr/bin/keepassxc"}
    Blank = ""
    Norm <- MCNorm
    Within <- MCWithin
    MimeTypes <- MCMimeTypes
    Textual <- MCTextual
    Parse <- MCParse
    Fingerprints = {"keepass"}
    MaxContentSize = 5
    Framing = 1
    Me = m
    Nodes = {m}
    Contents <- MCContents
    Empty = Empty
    Before <- MCBefore
    Reads <- MCReads
    Policies <- MCPolicies
    Apps <- MCApps
    Foreign <- MCForeign
    MaxCopies = 2
    MaxSwitches = 1
    MaxClips = 3
    MaxOthers = 1
    MaxMishaps = 2
INVARIANTS
    IgnoredContextKeptLocal
    FilteredKeptLocal
    BlockedStaysLocal
    
    OneCopyOneClip
\* All ends when everything is copied, put and decided.
CHECK_DEADLOCK FALSE
