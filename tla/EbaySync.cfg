SPECIFICATION Spec
CONSTANTS
    r1 = r1
    r2 = r2
    r3 = r3
    c1 = c1
    c2 = c2
    c3 = c3
    Request <- MCRequest
    Kinds = {"one", "auto"}
    Caps = {0}
    NoLog = NoLog
    Conv <- MCMembers
    Types <- MCTypes
    TypeOf <- MCTypeOf
    Rank <- MCRank
    PageSize = 1
    CommitEvery = 2
    Overlap = 1
    Delay = 1
    MaxTime = 3
    MaxMessages = 3
    MaxDeaths = 1
VIEW View
SYMMETRY Symmetry
CHECK_DEADLOCK FALSE
INVARIANTS
    TypeOK
    NothingLost
PROPERTY
    InOrder
