CONSTANTS
    DeviceCount = 3
    Nets = {a, b, c, d}
    FirstNet = a
    UNKNOWN_DEVICE = UNKNOWN_DEVICE
    UNKNOWN_NET = UNKNOWN_NET
SYMMETRY Symmetry
SPECIFICATION MCSpec
INVARIANTS NoDatabaseError ListsMatchNets ExactlyDeadEndsMerged
