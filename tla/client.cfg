SPECIFICATION ClientSpec
CONSTANTS
    MaxCalls = 8
    MaxWork = 1
    MaxQueue = 2
INVARIANTS
    VerdictIsOwn
PROPERTIES
    
    ClosedClientLetsGo
    PushedIsReported
CHECK_DEADLOCK FALSE
