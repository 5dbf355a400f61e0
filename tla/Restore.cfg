SPECIFICATION FairSpec
CONSTANTS
    Pid = {1, 2}
    R = 2
    Secrets <- ManySecrets
    OpsPerConn = "many"
    MaxPolls = 3
    MaxOps = 2
    MaxFaults = 2
INVARIANTS TypeOK RestoreCounted BystandersUntouched OwnSecretOnly
PROPERTIES ReportedIsLoaded RestoreEnds RestoreCompletes
CHECK_DEADLOCK FALSE
