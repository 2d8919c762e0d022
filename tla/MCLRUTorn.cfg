SPECIFICATION FairSpec
CONSTANTS
    Key = {"k1", "k2"}
    Value = {"short", "long"}
    NoValue = "nil"
    NoKey = "nokey"
    Size <- MCSize
    Limits <- MCLimits
    Reader = {"r1"}
    PromoCap = 2
INVARIANTS
    ReadsAreConsistent
