SPECIFICATION Spec
CONSTANTS
    Node = {"n1", "n2", "n3"}
    NoNode = "none"
    VirtualNodes = 2
    HashSpace = 8
    Hash <- MCHash
    Key = {"k0", "k1", "k5", "k7"}
    Value = {"v1", "empty"}
    KeyHash <- MCKeyHash
    UnsentKeys = {}
    RejectedValues = {"empty"}
    NoKey = "nokey"
    NoValue = "nil"
    InitialMembers = {"n1", "n2"}
    UnparsedMeta = {}
    Unaddressed = {"n3"}
    LiveListing = TRUE
    Evicting = FALSE
    MaxRequests = 1
    MaxStops = 0
    MaxSuspicions = 1
    MaxDrops = 1
INVARIANTS
    TypeOK
    PoolTracksRing
    KeySurvivesRebalancing
    SentToCloserNode
PROPERTIES
    CompletedScanHandsOver
\* With the bounds spent nothing is left to happen.
CHECK_DEADLOCK FALSE
