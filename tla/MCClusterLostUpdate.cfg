SPECIFICATION FairSpec
CONSTANTS
    Node = {"n1", "n2"}
    NoNode = "none"
    VirtualNodes = 2
    HashSpace = 8
    Hash <- MCHash
    Key = {"k5"}
    Value = {"v1", "v2"}
    KeyHash <- MCKeyHash
    UnsentKeys = {}
    RejectedValues = {"empty"}
    NoKey = "nokey"
    NoValue = "nil"
    InitialMembers = {"n1"}
    UnparsedMeta = {}
    Unaddressed = {}
    LiveListing = TRUE
    Evicting = FALSE
    MaxRequests = 2
    MaxStops = 0
    MaxSuspicions = 0
    MaxDrops = 0
PROPERTIES
    DeletesWhatItSent
\* With the bounds spent nothing is left to happen.
CHECK_DEADLOCK FALSE
