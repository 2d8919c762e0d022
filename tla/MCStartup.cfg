SPECIFICATION FairSpec
CONSTANTS
    Proc = {"a", "b"}
    Input <- MCInput
    Again <- MCAgain
    MaxStarts = 2
    Default <- MCDefault
    Word = 16
    MaxPort = 7
    AddressLength = 3
    MetaMaxSize = 39
    Malformed = Malformed
    Unset = Unset
    Rejected = Rejected
INVARIANTS
    TypeOK
    ListensWhereTold
    MistakesStayPrivate
    ServingNodesAreReached
PROPERTIES
    StartEnds
\* A process that serves or has gone takes no further step.
CHECK_DEADLOCK FALSE
