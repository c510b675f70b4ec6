SPECIFICATION AuditSpec
CONSTANTS
    Slots = {0, 1}
    Providers = {1, 2, 3}
    NoProvider = NoProvider
    FirstProvider <- SlotOrder
    Contents <- ContentsABC
    Rows = 1
    QuotaBps = 10000
    QuotaMin = 1
    QuotaMax = 2
    RepairBps = 5000
    EpochLen = 2
    FirstEnd = 20
    Extension = 2
    Grace = 2
    EvictAfter = 2
    BackoffEpochs = 1
    MaxDrain = 0
    MaxRotate = 0
    RatioBps = 0
    MaxBumps = 0
    Drainable = {}
    Underbonded = {}
    MaxGen = 2
    MaxEnd = 20
    MaxHeight = 7
INVARIANTS
    ReadyMeansProved
PROPERTIES
    PromotedProved
    EvictionEarned
CHECK_DEADLOCK FALSE
