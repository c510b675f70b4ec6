CONSTANTS
    NoSeed = NoSeed
    Sessions = {s1, s2, s3}
    V3 = {s1, s2}
    Deals = {d1}
    Generations = {g1, g2}
    Slots = {0}
    Seeds = {seedA}
    EpochLen = 2
    MaxLive = 2
    MaxOpensPerBlock = 2
    MaxExpiryRefsPerBlock = 2
    MaxTTL = 3
    MaxGensPerDeal = 2
    MaxGens = 2
    MaxAudits = 1
    MaxHeight = 6
SPECIFICATION FairSpec
CHECK_DEADLOCK FALSE
INVARIANTS
    BeginBlockNeverFails
    HeldUntilReleased
    CountsExact
PROPERTIES
    EventuallyReleased
