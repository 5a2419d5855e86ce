\* An admin's totals against the score they should reach.
CONSTANTS
    ann = ann
    bob = bob
    Nobody = Nobody
    Agents = {ann, bob}
    Req = {r1, r2, r3}
    Form <- Forms
    Sunday = {2}
    Totals = {}
    Carries = {}
    Policies <- LeavePolicies
    Metric = {"attendance"}
    Weight <- LeaveWeight
    Weights = {}
    Scores = {}
    Shares = {}
    Category = {"posting", "chat"}
    Subtask = {"posting other", "chat other"}
    SubSubtask = {kid1, kid2}
    Home <- TaskHome
    Parent <- KidParent
    Other <- TaskOther
    Whole = Nobody
    Row = {row1, row2}
    Day = {1, 2}
    Limits = {2, 3}
    Amounts = {1}
    Agent = {ann}
    Task = {"booking", "offers", "other"}
    Source <- TaskKinds
    MaxWork = 1
    MaxSaves = 2
    LastDay = 2
    Staff = {ann}
    Session = {1, 2}
    DayLength = 4
    Horizon = 9
    Viewer = {ann, bob}
    Unowned = Nobody
    Arrivals <- Incoming
    MaxMessages = 3
    LastTime = 1
    Limit = 0
    ReportDay = 1
    \* Days of four units, two of them at work; two working days and a free one.
    WallDay = 4
    Opens = 1
    Closes = 3
    Week = 3
    Targets = {1, 3}
    Warning = 1
    StatesChosen = {"PENDING", "CLOSED"}
    MaxWritten = 3
    LastUnit = 13
    r1 = r1
    r2 = r2
    r3 = r3
    Never = Never
    kid1 = kid1
    kid2 = kid2
    row1 = row1
    row2 = row2
SPECIFICATION Spec
CONSTRAINT Followed
CHECK_DEADLOCK FALSE
PROPERTY TotalsReachScore
