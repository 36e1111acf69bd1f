SPECIFICATION RUpSpec
CONSTANTS
    a1 = a1
    b1 = b1
    Agent = {a1}
    Boot = {b1}
    NoBoot = NoBoot
    BootOf <- OneBootEach
    Work = {w1}
    Caller = {c1}
    Persister = {p1}
    NoImage = NoImage
    MaxLives = 2
    MaxLeases = 10
    MaxAssignments = 10
    MaxFencedBoots = 10
    Fits <- AllFit
    Requests <- AnyAgent
    Concurrency = {1}
    HealthReports = {"Healthy"}
    AvailReports = {"Available"}
    ClosePolicies = {TRUE}
    AssignmentTtl = 1
    RegistrationTtl = 1
    Staleness <- Ageless
    MaxAgentGen = 1
    MaxCapGen = 1
    MaxWorkGen = 1
    MaxPolicyGen = 1
    MaxStarts = 2
    MaxAsgGen = 2
    MaxTime = 1
INVARIANTS
    RTypeOK
    AuditSilentWhileKept
    SingleOwner
    NoAuthorityFromPastLife
    FencesSurvive
PROPERTIES
    NeverPromoted
VIEW EndedAlike
CHECK_DEADLOCK FALSE
