SPECIFICATION BookedSpec
CONSTANTS
    a1 = a1
    b1 = b1
    b2 = b2
    w1 = w1
    c1 = c1
    Agent = {a1}
    Boot = {b1, b2}
    NoBoot = NoBoot
    BootOf <- EveryBoot
    Work = {w1}
    Caller = {c1}
    q1 = q1
    q2 = q2
    Queue = {q1, q2}
    MaxQueues = 1
    MaxQueueGen = 2
    Fits <- AllFit
    Requests <- ExclusiveOnly
    Concurrency = {1}
    HealthReports = {"Healthy"}
    AvailReports = {"Available"}
    ClosePolicies = {TRUE}
    AssignmentTtl = 1
    RegistrationTtl = 10
    Staleness <- Ageless
    MaxAgentGen = 2
    MaxCapGen = 2
    MaxWorkGen = 2
    MaxPolicyGen = 2
    MaxStarts = 1
    MaxAsgGen = 2
    MaxTime = 3
INVARIANTS
    IndexesAgree
    QueueReachedUnlessRefused
    ActiveIncarnationCurrent
    FencedNeverAccepts
    CompletionEarned

    
CONSTRAINT FewChanges
VIEW DatesAside
SYMMETRY QueueSymmetry
CHECK_DEADLOCK FALSE
