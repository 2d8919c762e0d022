SPECIFICATION Spec
CONSTANTS
    Node = {"n1", "n2", "n3"}
    NoNode = "none"
    VirtualNodes = 2
    HashSpace = 7
    Hash <- MCHash
    Caller = {"main", "events"}
    CallsOf <- MCBoot
    OwnName = "n1"
    Reader = {}
    TornName = "torn"
INVARIANTS
    AddedNodesStay
\* All names may have been added.
CHECK_DEADLOCK FALSE
