SPECIFICATION AuditSpec
CONSTANTS
    Slots = {0, 1}
    Providers = {1, 2, 3}
    NoProvider = NoProvider
    FirstProvider <- SlotOrder
    Contents <- ContentsOne
    Rows = 1
    QuotaBps = 5000
    QuotaMin = 1
    QuotaMax = 2
    RepairBps = 10000
    EpochLen = 2
    FirstEnd = 6
    Extension = 3
    Grace = 1
    EvictAfter = 0
    BackoffEpochs = 1
    MaxDrain = 1
    MaxRotate = 1
    RatioBps = 6000
    MaxBumps = 1
    Drainable = {1}
    Underbonded = {3}
    MaxGen = 2
    MaxEnd = 9
    MaxHeight = 5
INVARIANTS
    ViewMatchesDeal
    SetupMakesProgress
CHECK_DEADLOCK FALSE
