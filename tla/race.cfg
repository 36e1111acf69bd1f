SPECIFICATION UpSpec
CONSTANTS
    a1 = a1
    a2 = a2
    b1 = b1
    b2 = b2
    w1 = w1
    w2 = w2
    c1 = c1
    c2 = c2
    Agent = {a1, a2}
    Boot = {b1, b2}
    NoBoot = NoBoot
    BootOf <- OneBootEach
    Work = {w1}
    Caller = {c1, c2}
    Fits <- AllFit
    Requests <- ExclusiveOrStacked
    Concurrency = {1}
    HealthReports = {"Healthy"}
    AvailReports = {"Available"}
    ClosePolicies = {TRUE}
    AssignmentTtl = 1
    RegistrationTtl = 1
    Staleness <- Ageless
    MaxAgentGen = 1
    MaxCapGen = 1
    MaxWorkGen = 1
    MaxPolicyGen = 1
    MaxStarts = 1
    MaxAsgGen = 2
    MaxTime = 1
INVARIANTS
    ExclusiveAssignmentUnique
    AccountingAgrees
    CapacityNotExceeded
PROPERTIES
    TerminalIsFinal
SYMMETRY FullSymmetry
VIEW EndedAlike
CHECK_DEADLOCK FALSE
