SPECIFICATION FairSpec
CONSTANTS
    t1 = t1
    t2 = t2
    u1 = u1
    u2 = u2
    b = b
    c1 = c1
    c2 = c2
    c3 = c3
    s1 = s1
    s2 = s2
    l1 = l1
    l2 = l2
    None = None
    Tokens <- TwoTokens
    Users <- TwoUsers
    Bots <- OneBot
    BotOf <- OneBotOf
    Starts <- TwoStarts
    Claims <- ThreeClaims
    Locks <- BothLocks
    TokenOf <- TokenOfThree
    UserOf <- UserOfThree
    EntOf <- Renewed
    Hot <- SecondHot
    Grant <- GrantLock
    MaxActive = 1
    MaxServed = 4
    MaxFaults = 1
CHECK_DEADLOCK FALSE
INVARIANTS
    TypeOK
    RedeemedOnce
    LockHolds
    ActiveLimit
    LockedIsLocked
PROPERTIES
    AsAtOnce
    LockStops
    ExpiryStops
