SPECIFICATION BrowserSpec
CONSTANTS
    Tabs = {t1, t2}
    Files = {f1, f2}
    Slots = {0}
    Chunks = 1
    MaxNonce = 2
    MaxTx = 2
    MaxGen = 2
    MaxId = 2
    None = None
SYMMETRY BrowserSymmetry
INVARIANTS
    
    AckedIsDurable
CHECK_DEADLOCK FALSE
