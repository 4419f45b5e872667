\* Days 1 to 4 with cycles of two days: two cycles, a code that spans both
\* and one that ends within one.
SPECIFICATION Spec
CONSTANTS
    long = long
    short = short
    seat1 = seat1
    seat2 = seat2
    owner = owner
    accountant = accountant
    None = None
    Codes <- TwoCodes
    Seats <- TwoSeats
    Members <- TwoMembers
    DaysOf <- TheDays
    CycleDays = 2
    BlockSize = 2
    UserFee = 1
    BlockFee = 1
    MaxDay = 4
    MaxStops = 1
    MaxProofs = 2
SYMMETRY Sym
INVARIANTS
    TypeOK
    SeatsMatchUse
    AuditChain
    OneOpenPerMember
PROPERTIES
    ClosedCyclesFixed
    DebtNotForgotten
    DecidedOnce
