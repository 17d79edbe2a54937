SPECIFICATION MCSpec
CONSTANTS
    VthScale = 10
    HighResistance = 1
    LoopPeriod = 2
INVARIANT MirrorDuality
INVARIANT SwapSymmetry
INVARIANT ThresholdsAreMonotone
INVARIANT TotalsAreFlat
INVARIANT SummariesAddUp
INVARIANT ReportsUpToLimit
INVARIANT OriginsAreExact
INVARIANT OppositeIsExact
CHECK_DEADLOCK FALSE
