SPECIFICATION Spec
CONSTANTS
    MaxIn = 1
    MaxOut = 1
    MaxQueue = 1
    MaxRoom = 1
PROPERTIES
    PeerLossNoticed
CHECK_DEADLOCK FALSE
