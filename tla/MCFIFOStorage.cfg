SPECIFICATION FairSpec
CONSTANTS
    Key = {"k1", "k2", "k3"}
    Value = {"empty", "short", "long"}
    NoValue = "nil"
    NoKey = "nokey"
    Size <- MCSize
    Limits <- MCLimits
    Thread = {"t1", "t2"}
    NoThread = "none"
INVARIANTS
    TypeOK
    KeysAgree
    SizeIsExact
PROPERTIES
    ImplementsCache
    OperationsEnd
\* A fault ends the process.
CHECK_DEADLOCK FALSE
