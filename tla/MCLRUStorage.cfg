SPECIFICATION FairSpec
CONSTANTS
    Key = {"k1", "k2", "k3"}
    Value = {"short", "long"}
    NoValue = "nil"
    NoKey = "nokey"
    Size <- MCSize
    Limits <- MCLimits
    Reader = {"r1"}
    PromoCap = 1
INVARIANTS
    TypeOK
    ListMatchesMap
    SizeIsExact
PROPERTIES
    ImplementsCache
    PromoterGoesOn
