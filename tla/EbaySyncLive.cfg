SPECIFICATION FairSpec
CONSTANTS
    r1 = r1
    r2 = r2
    r3 = r3
    c1 = c1
    c2 = c2
    c3 = c3
    Request <- MCRequest
    Kinds = {"one", "all"}
    Caps = {0}
    NoLog = NoLog
    Conv <- MCOneConv
    Types <- MCOneType
    TypeOf <- MCTypeOf
    Rank <- MCRank
    PageSize = 1
    CommitEvery = 2
    Overlap = 1
    Delay = 1
    MaxTime = 1
    MaxMessages = 1
    MaxDeaths = 0
CHECK_DEADLOCK FALSE
PROPERTY
    LogReleased
