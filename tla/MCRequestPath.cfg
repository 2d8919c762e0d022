SPECIFICATION FairPathSpec
CONSTANTS
    Node = {"n1"}
    Caller = {"c1", "c2"}
    Handler = {"c1"}
    MaxEntries = 2
    Self = "n0"
    Key = {"k"}
    Value = {"v", "empty", "huge"}
    EmptyValue = "empty"
    HugeValue = "huge"
    NoKey = "nokey"
    NoValue = "nil"
INVARIANTS
    PathTypeOK
    DialsOnce
    PooledConnectionsWork
    GetTellsWhatOwnerHeld
    FailuresHaveACause
PROPERTIES
    NoneLeftOpen
    RefusedRequestsChangeNothing
    CallsReturn
    RequestsAreAnswered
