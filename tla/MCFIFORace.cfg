SPECIFICATION FairSpec
CONSTANTS
    Key = {"k1", "k2"}
    Value = {"empty", "short", "long"}
    NoValue = "nil"
    NoKey = "nokey"
    Size <- MCSize
    Limits <- MCBothSigns
    Thread = {"t1", "t2"}
    NoThread = "none"
INVARIANTS
    ReadsNeedNoLock
\* A fault ends the process.
CHECK_DEADLOCK FALSE
