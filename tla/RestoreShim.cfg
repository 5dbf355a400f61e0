SPECIFICATION FairSpec
CONSTANTS
    Pid = {2}
    R = 2
    Secrets <- OneSecret
    OpsPerConn = "one"
    MaxPolls = 2
    MaxOps = 2
    MaxFaults = 0
PROPERTIES RestoreCompletes
CHECK_DEADLOCK FALSE
