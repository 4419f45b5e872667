SPECIFICATION Spec
CONSTANTS
    t1 = t1
    t2 = t2
    u1 = u1
    u2 = u2
    b = b
    c1 = c1
    c2 = c2
    c3 = c3
    s1 = s1
    s2 = s2
    l1 = l1
    l2 = l2
    None = None
    Tokens <- TwoTokens
    Users <- TwoUsers
    Bots <- OneBot
    BotOf <- OneBotOf
    Starts <- TwoStarts
    Claims <- TwoClaims
    Locks <- NoLock
    TokenOf <- TokenOfTwo
    UserOf <- UserOfTwo
    EntOf <- Again
    Hot <- NoLock
    Grant <- NoLock
    MaxActive = 2
    MaxServed = 4
    MaxFaults = 0
CHECK_DEADLOCK FALSE
PROPERTIES
    StartsWhileInForce
