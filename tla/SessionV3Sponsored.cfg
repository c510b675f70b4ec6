CONSTANTS
    d1 = d1  alice = alice  bob = bob  carol = carol  p0 = p0  p1 = p1  p2 = p2
    seedA = seedA  seedB = seedB
    NoSeed = NoSeed
    Sessions <- sponsored
    V3 <- sponsored
    Deals = {d1}
    Generations = {1, 2}
    Slots = {0}
    Seeds = {seedA}
    EpochLen = 2
    MaxLive = 2
    MaxOpensPerBlock = 3
    MaxExpiryRefsPerBlock = 3
    MaxTTL = 3
    MaxGensPerDeal = 2
    MaxGens = 2
    MaxAudits = 0
    MaxHeight = 5
    Accounts <- sponsors
    Nonces = {1, 2}
    DealOwner <- dealOwner
    DealEnd <- dealEnd
    SlotProvider <- slotProvider
    Plans <- sponsoredPlans
    MaxSamples = 2
    SampleOf <- sampleOf
    MaxProofs = 2
    Pricings <- prices
    Vouchers <- vouchers
    FeeCaps = {0, 3, 4}
    Policies = {"owner_only", "either"}
    Allowed = {carol}
    InitBank = 20
    InitEscrow = 20
SPECIFICATION V3Spec
INVARIANTS
    VoucherFundsOneSession
    PaidOnEvidence
    
