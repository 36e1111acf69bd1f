SPECIFICATION Spec
CONSTANTS
    a1 = a1
    a2 = a2
    b1 = b1
    b2 = b2
    w1 = w1
    w2 = w2
    c1 = c1
    c2 = c2
    Agent = {a1}
    Boot = {b1, b2}
    NoBoot = NoBoot
    BootOf <- OneBootEach
    Work = {w1}
    Caller = {c1, c2}
    Fits <- AllFit
    Requests <- BothModes
    Concurrency = {2}
    HealthReports = {"Healthy"}
    AvailReports = {"Available", "Unready"}
    ClosePolicies = {TRUE, FALSE}
    AssignmentTtl = 1
    RegistrationTtl = 1
    Staleness <- Ageless
    MaxAgentGen = 1
    MaxCapGen = 2
    MaxWorkGen = 1
    MaxPolicyGen = 2
    MaxStarts = 2
    MaxAsgGen = 2
    MaxTime = 1
INVARIANTS
    DispatchableAuthorityCurrent
    FanoutBounded
PROPERTIES
    ImplementsLife
    HandoffOnlyUnderAuthority
SYMMETRY CallerSymmetry
VIEW EndedAlike
CHECK_DEADLOCK FALSE
