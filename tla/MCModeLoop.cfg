CONSTANTS
    Processes = {"p", "q"}
    Reports = {"r", "s"}
    Modes <- TwoPrograms
    Users = {"q"}
    LastStage = 4
    MaxContinue = 2
    None = None
SPECIFICATION Spec
INVARIANTS ReportIsExclusive OutputsGoToReport LocksHaveOwners
PROPERTY InterruptStops
