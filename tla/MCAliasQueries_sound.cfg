CONSTANTS
    Ctxs = {"R", "B", "I1", "I2", "J"}
    Kind <- PKind
    Parent <- PParent
    NullV = "null"
    IVs <- PIVs
    PBs <- PPBs
    Sizes = {1, 2, 99}
    UnknownSize = 99
    LLMax = 100
    ObjSize = 3
SPECIFICATION Spec
INVARIANTS TypeOK NoAliasSound PartialOverlaps MustAliasSound
CHECK_DEADLOCK FALSE
