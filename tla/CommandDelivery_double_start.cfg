SPECIFICATION Spec
CONSTANTS
    d1 = d1
    d2 = d2
    Deployments <- TwoDeployments
    Requests <- TwoRequests
    None = None
    MaxFaults = 0
    MaxSlow = 1
    MaxLoad = 3
CHECK_DEADLOCK FALSE
INVARIANTS
    NoDoubleStart
