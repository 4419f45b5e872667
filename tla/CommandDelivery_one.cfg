SPECIFICATION Spec
CONSTANTS
    d1 = d1
    d2 = d2
    Deployments <- OneDeployment
    Requests <- TwoRequests
    None = None
    MaxFaults = 1
    MaxSlow = 0
    MaxLoad = 3
CHECK_DEADLOCK FALSE
INVARIANTS
    TypeOK
    RowsFollowRedis
    OpenHasCopy
PROPERTIES
    ReopenedByRunnerOnly
    UsesQueue
