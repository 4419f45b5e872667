SPECIFICATION Spec
CONSTANTS
    a1 = a1
    a2 = a2
    s1 = s1
    s2 = s2
    r1 = r1
    r2 = r2
    r3 = r3
    r4 = r4
    None = None
    Accounts <- TwoAccounts
    Slots <- TwoSlots
    Requests <- FourRequests
    Kind <- FourKind
    Owner <- FourOwner
    Stoppable <- StartOfTwo
    Overlap = FALSE
    LapseInFlight = FALSE
    MaxFaults = 2
    MaxRefused = 1
    MaxReads = 0
CHECK_DEADLOCK FALSE
INVARIANTS
    TypeOK
    OneBotPerSlot
    OneCurrentPerSlot
    KeptForLogin
PROPERTIES
    NoSteal
    EndedStaysEnded
