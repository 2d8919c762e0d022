SPECIFICATION FairSpec
CONSTANTS
    Node = {"n1", "n2"}
    NoNode = "none"
    VirtualNodes = 2
    HashSpace = 8
    Hash <- MCHash
    Key = {"k5"}
    Value = {"v1"}
    KeyHash <- MCKeyHash
    UnsentKeys = {}
    RejectedValues = {"empty"}
    NoKey = "nokey"
    NoValue = "nil"
    InitialMembers = {"n1"}
    UnparsedMeta = {}
    Unaddressed = {}
    LiveListing = TRUE
    Evicting = FALSE
    MaxRequests = 1
    MaxStops = 0
    MaxSuspicions = 0
    MaxDrops = 0
PROPERTIES
    JoinHandsOver
\* With the bounds spent nothing is left to happen.
CHECK_DEADLOCK FALSE
