SPECIFICATION Spec
CONSTANTS
    VthScale = 10
    LeakLimit <- MCLeakLimit
    DiodeThreshold = 1
    ShortThreshold = 0
    DiodeFactor = 100
    SimCutoff = 1000
    SimShift = 10
    ResistanceRatio = 128
    UnknownResistance = 1100
    Circuits <- Complete
    HasSCRC = TRUE
INVARIANT NoFailure
INVARIANT VoltagesAreOrdered
INVARIANT ChainsEndAtVoltages
INVARIANT DefinitionsPrevail
INVARIANT PassesEndClean
PROPERTY LeakVoltagesAreKept
PROPERTY VoltagesAreKept
PROPERTY Terminates
