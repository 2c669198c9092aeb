CONSTANTS
    NoLoop = "noloop"
    NoF = "nof"
    LoopParent <- FlatParent
    Scope <- FlatScope
    Ctxs <- FlatCtxs
    RootIA = "R"
    Kind <- FlatKind
    Fn <- FlatFn
    LoopOf <- FlatLoopOf
    FRoot <- FlatFRoot
    Peels <- FlatPeels
    Iters <- FlatIters
    Sites <- FlatSites
    Site <- FlatSite
    Callers <- FlatCallers
    Reached <- AllReached
    Residual <- OneEach
    Uses <- FlatUses
    ArgUses <- FlatArgUses
    Owner <- FlatOwner
    SplitThreshold = 2
SPECIFICATION Spec
INVARIANTS TypeOK CommitFunctionsConsistent NonLocalGlobalised SplitBound
CHECK_DEADLOCK FALSE
