CONSTANTS
    Devices = {d1, d2, d3}
    UNKNOWN_DEVICE = UNKNOWN_DEVICE
    Keys <- MCKeys
    MaxEvents = 4
SYMMETRY Symmetry
SPECIFICATION Spec
INVARIANTS NoQueueError PendingIsQueued EmptyWhenIdle
PROPERTY ImplementsQueue
