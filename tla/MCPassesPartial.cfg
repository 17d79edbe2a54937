SPECIFICATION Spec
CONSTANTS
    VthScale = 10
    LeakLimit <- MCLeakLimit
    DiodeThreshold = 1
    ShortThreshold = 0
    DiodeFactor = 100
    SimCutoff = 1000
    SimShift = 10
    ResistanceRatio = 128
    UnknownResistance = 1100
    Circuits <- Partial
    HasSCRC = TRUE
INVARIANT NoFailure
