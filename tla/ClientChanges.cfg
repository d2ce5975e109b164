CONSTANTS
    PageSize = 2
    CursorMax = 2
    Client = {"c1", "c2"}
    Scope = {"s1", "s2"}
    Edit = {"e1", "e2"}
    Batch = {"b1", "b2"}
    MaxCalls = 2
    MaxUpdates = 3
    Request <- TheRequests
    Job <- TheJobs
    Start <- TheStart
SPECIFICATION Spec
INVARIANTS
    TypeOK
    EachScopeServed
    UndisturbedIsExact
    PartialEditsStayBetween
    DryRunForetells
    ReportCoversChanges
    PruneStaysWithinListing
PROPERTIES
    PromiseKept
    EveryCallEnds
CHECK_DEADLOCK FALSE
