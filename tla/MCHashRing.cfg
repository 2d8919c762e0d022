SPECIFICATION Spec
CONSTANTS
    Node = {"n1", "n2", "n3"}
    NoNode = "none"
    VirtualNodes = 2
    HashSpace = 7
    Hash <- MCHash
    Caller = {"events"}
    CallsOf <- MCEvents
    OwnName = "n1"
    Reader = {"r1"}
    TornName = "torn"
INVARIANTS
    TypeOK
    RingSorted
    LookupFollowsPlacement
    QuietLookupsAreRight
    StrayLookupsHaveACause
    LatestJoinWinsTies
PROPERTIES
    MinimalMovement
\* A fault ends the process.
CHECK_DEADLOCK FALSE
