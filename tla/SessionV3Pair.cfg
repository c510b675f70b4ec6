CONSTANTS
    d1 = d1  alice = alice  bob = bob  carol = carol  p0 = p0  p1 = p1  p2 = p2
    seedA = seedA  seedB = seedB
    NoSeed = NoSeed
    Sessions <- twoOwners
    V3 <- twoOwners
    Deals = {d1}
    Generations = {1}
    Slots = {0, 1}
    Seeds = {seedA}
    EpochLen = 2
    MaxLive = 2
    MaxOpensPerBlock = 2
    MaxExpiryRefsPerBlock = 2
    MaxTTL = 2
    MaxGensPerDeal = 2
    MaxGens = 2
    MaxAudits = 0
    MaxHeight = 5
    Accounts <- accounts
    Nonces = {1}
    DealOwner <- dealOwner
    DealEnd <- dealEnd
    SlotProvider <- slotProvider
    Plans <- pairPlans
    MaxSamples = 2
    SampleOf <- sampleOf
    MaxProofs = 2
    Pricings <- twoPrices
    Vouchers = {}
    FeeCaps = {0}
    Policies = {"public"}
    Allowed = {}
    InitBank = 20
    InitEscrow = 20
SPECIFICATION V3Spec
INVARIANTS
    Conservation
PROPERTIES
    ImplementsRetention
    ImplementsEscrow
