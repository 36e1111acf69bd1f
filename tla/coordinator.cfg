SPECIFICATION CoordinatorSpec
CONSTANTS
    a1 = a1
    b1 = b1
    b2 = b2
    w1 = w1
    Agent = {a1}
    Boot = {b1, b2}
    NoBoot = NoBoot
    Nobody = Nobody
    BootOf <- Boots
    Work = {w1}
    Caller = {1, 2}
    Fits <- AllFit
    Requests <- ExclusiveOnly
    Concurrency = {1}
    HealthReports = {"Healthy"}
    AvailReports = {"Available"}
    ClosePolicies = {TRUE}
    Outcomes = {"WorkCompleted"}
    GenOf <- Order
    AssignmentTtl = 1
    RegistrationTtl = 1
    Staleness <- Ageless
    MaxConnections = 2
    MaxAgentGen = 2
    MaxCapGen = 1
    MaxWorkGen = 1
    MaxPolicyGen = 1
    MaxStarts = 1
    MaxAsgGen = 1
    MaxTime = 1
INVARIANTS
    FrontTypeOK
    AuthorityHasSession
    MapPointsToSession
    ToldOnceAuthorised
PROPERTIES
    CommittedIsSettled
    StopReturns
CHECK_DEADLOCK FALSE
