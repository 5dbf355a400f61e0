SPECIFICATION FairSpec
CONSTANTS
    MaxAttempts = 2
    MaxOps = 2
    FaultAt <- EveryStep
    GCEnabled = TRUE
    MayCrash = TRUE
INVARIANTS TypeOK CompleteIsWhole LastGoodKept MetricsExact DumpSurvives
PROPERTIES OperationEnds ImplementsSlot
CHECK_DEADLOCK FALSE
