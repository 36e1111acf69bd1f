SPECIFICATION Spec
CONSTANTS
    MaxIn = 2
    MaxOut = 3
    MaxQueue = 2
    MaxRoom = 1
INVARIANTS
    DeliveredInOrder
    NothingQueuedAfterClose
    AcceptedFramesKept
PROPERTIES
    CloseCompletes
    PeerLossNoticedUnblocked
CHECK_DEADLOCK FALSE
