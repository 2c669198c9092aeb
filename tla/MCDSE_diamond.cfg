CONSTANTS
    Size = 3
    UMax = 100
    Blocks <- DBlocks
    Entry = "E"
    Order <- DOrder
    Preds <- DPreds
    Returns <- DReturns
    Code <- DCode
    PathCond = {"U"}
    MaxLS = 12
    LoopBlocks = {"H", "B"}
    Header = "H"
    Latch = "B"
    Preheader = "J"
SPECIFICATION FairSpec
INVARIANTS TypeOK OutstandingExact DeadStoresUnread AllocRefsExact DeadAllocStoresDead
PROPERTIES MapsReleased ImplementsContract
CHECK_DEADLOCK FALSE
