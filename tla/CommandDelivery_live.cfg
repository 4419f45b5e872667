SPECIFICATION FairSpec
CONSTANTS
    d1 = d1
    d2 = d2
    Deployments <- OneDeployment
    Requests <- TwoRequests
    None = None
    MaxFaults = 1
    MaxSlow = 1
    MaxLoad = 2
CHECK_DEADLOCK FALSE
PROPERTIES
    Settles
