SPECIFICATION FairSpec
CONSTANTS
    a1 = a1
    a2 = a2
    s1 = s1
    s2 = s2
    r1 = r1
    r2 = r2
    r3 = r3
    r4 = r4
    None = None
    Accounts <- TwoAccounts
    Slots <- OneSlot
    Requests <- ThreeRequests
    Kind <- ThreeKind
    Owner <- ThreeOwner
    Stoppable <- StartOfTwo
    Overlap = TRUE
    LapseInFlight = TRUE
    MaxFaults = 0
    MaxRefused = 0
    MaxReads = 1
CHECK_DEADLOCK FALSE
PROPERTIES
    ReleasedIfUnused
    SlotReturns
