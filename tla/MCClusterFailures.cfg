SPECIFICATION FairSpec
CONSTANTS
    Node = {"n1", "n2"}
    NoNode = "none"
    VirtualNodes = 2
    HashSpace = 8
    Hash <- MCHash
    Key = {"k5"}
    Value = {"v1"}
    KeyHash <- MCKeyHash
    UnsentKeys = {}
    RejectedValues = {"empty"}
    NoKey = "nokey"
    NoValue = "nil"
    InitialMembers = {"n1"}
    UnparsedMeta = {"n1"}
    Unaddressed = {}
    LiveListing = FALSE
    Evicting = TRUE
    MaxRequests = 2
    MaxStops = 1
    MaxSuspicions = 1
    MaxDrops = 1
INVARIANTS
    ClusterInv
PROPERTIES
    HandlerReturns
    RequestsEnd
\* With the bounds spent nothing is left to happen.
CHECK_DEADLOCK FALSE
