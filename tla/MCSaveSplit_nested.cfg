CONSTANTS
    NoLoop = "noloop"
    NoF = "nof"
    LoopParent <- NestParent
    Scope <- NestScope
    Ctxs <- NestCtxs
    RootIA = "R"
    Kind <- NestKind
    Fn <- NestFn
    LoopOf <- NestLoopOf
    FRoot <- NestFRoot
    Peels <- NestPeels
    Iters <- NestIters
    Sites <- NestSites
    Site <- NestSite
    Callers <- NestCallers
    Reached <- AllReached
    Residual <- OneEach
    Uses <- NestUses
    ArgUses <- NestArgUses
    Owner <- NestOwner
    SplitThreshold = 10
SPECIFICATION Spec
INVARIANT NonLocalGlobalised
CHECK_DEADLOCK FALSE
