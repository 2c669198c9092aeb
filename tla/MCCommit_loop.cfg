CONSTANTS
    NoLoop = "noloop"
    LoopParent <- PLoopParent
    Scope <- PScope
    Header <- PHeader
    Latch <- PLatch
    Preheader <- PPreheader
    Succs <- PSuccs
    Ctxs <- PCtxs
    RootIA = "R"
    Kind <- PKind
    Fn <- PFn
    LoopOf <- PLoopOf
    FRoot <- PFRoot
    Parent <- PParent
    Peels <- PPeels
    Iters <- PIters
    CallsIn <- PCallsIn
    Vararg = {"H"}
    AliveChoice <- PAlive
SPECIFICATION Spec
INVARIANTS TypeOK CommitWalksAgree BranchesResolve PhisMatchPreds
CHECK_DEADLOCK FALSE
