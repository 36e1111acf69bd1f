SPECIFICATION Spec
CONSTANTS
    hi = hi
    lo = lo
    wide = wide
    Item = {hi, lo, wide}
    Priority <- Urgent
    Class <- OneClass
    Width <- Widths
    Weights <- NoWeights
    MaxPriorityBypass = 2
    AgingStep = 1
    Unbounded = FALSE
    MaxAssignments = {1, 2}
    DryRuns = {TRUE, FALSE}
    Selections <- AllOrNarrow
    Slots = 2
    CounterMax = 4

    
PROPERTIES
    FanoutTakesLeftovers
CONSTRAINT NotSaturated
CHECK_DEADLOCK FALSE
