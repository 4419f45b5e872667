\* A start, a configuration restart and then OFF, one after the other, no fault.
SPECIFICATION Spec
CONSTANTS
    Requests <- ThreeRequests
    Kinds <- RestartThenOff
    Runner = runner
    None = none
    Overlap <- NoOverlap
    MaxFaults = 0
CHECK_DEADLOCK FALSE
INVARIANT
    OffHolds
