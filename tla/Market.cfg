\* The parts that deal with eBay and its records.
CONSTANTS
    None = None
    Nil = None
    Absent = None
    Clerk = {w1, w2}
    Forms <- NewEntries
    Edits <- EntryEdits
    Sheets <- ExcelSheets
    Threshold = 3
    MaxEntries = 2
    MaxEdits = 3
    Thread = {"thread"}
    Buyer = {"buyer"}
    MaxLines = 2
    s1 = s1
    s2 = s2
    m1 = m1
    m2 = m2
    w1 = w1
    w2 = w2
    x1 = x1
    x2 = x2
    y1 = y1
    y2 = y2
    Caller = {w1, w2}
    Day = {0, 1}
    Names = {"best_offer", "unknown"}
    Limits = {0}
    DefaultLimit = 2
    MaxCalls = 2
    Unset = None
    User = {1}
    Email = {"a"}
    Password = {"p", "q"}
    Worker = {w1, w2}
    MaxTokens = 2
    Days = 1
    AccountId = {1}
    Seller = {"ann", "bob"}
    Handler = {w1, w2}
    MaxGrants = 2
    Life = 1
    Horizon = 1
    Null = None
    Conversation = {"c1", "c2"}
    ItemRef = {"x", "y"}
    Service = {"sync", "view"}
    Viewer = {"view"}
    MaxRetries = 2
    MaxSyncs = 1
    Accounts <- AccountNames
    Process = {1, 2}
    Payload <- SoldOrders
    PageSize = 1
    MaxPages = 3
    MaxAttempts = 2
    MaxOrders = 2
    MaxChanges = 1
    MaxMarks = 1
    NoValue = None
    Shop = {"a", "b"}
    Orders <- OrderList
    Facts <- OrderFacts
    Inquiry = {"c1", "c3"}
    About <- Topics
    PageLimit = 1
    MaxTries = 2
    Lag = 1
    Overlap = 1
    Near = 2
    LastClock = 2
    MaxFailures = 1
    Void = None
SPECIFICATION Spec
CONSTRAINT Followed
CHECK_DEADLOCK FALSE
INVARIANTS
    TypeOK
    VerdictTruth
    TokensOfSeller
    QuotaKept
    
    
    EntriesExplained
    OrdersInStep
    
    OffersLinked
    
    RepliesLand
