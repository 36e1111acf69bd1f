SPECIFICATION Spec
CONSTANTS
    a1 = a1
    a2 = a2
    b1 = b1
    b2 = b2
    w1 = w1
    w2 = w2
    c1 = c1
    c2 = c2
    Agent = {a1}
    Boot = {b1, b2}
    NoBoot = NoBoot
    BootOf <- OneBootEach
    Work = {w1}
    Caller = {c1}
    Fits <- AllFit
    Requests <- TimedOrNot
    Concurrency = {1}
    HealthReports = {"Healthy", "Unhealthy"}
    AvailReports = {"Available", "Unready", "Unreachable"}
    ClosePolicies = {TRUE}
    AssignmentTtl = 1
    RegistrationTtl = 1
    Staleness <- Quick
    MaxAgentGen = 2
    MaxCapGen = 1
    MaxWorkGen = 2
    MaxPolicyGen = 1
    MaxStarts = 1
    MaxAsgGen = 2
    MaxTime = 3
INVARIANTS
    AuditSilent
    TypeOK
    ActiveWorkCurrent
CONSTRAINT OneRenewal
VIEW EndedAlike
CHECK_DEADLOCK FALSE
