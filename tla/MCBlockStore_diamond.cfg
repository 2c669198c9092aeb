CONSTANTS
    Locs = {"x"}
    AllocSize = 2
    ByteVals = {1, 2}
    UNDEF = UNDEF
    PBMAX = 16
    Blocks <- DiamondBlocks
    Entry = "E"
    Order <- DiamondOrder
    Preds <- DiamondPreds
    Certain <- DiamondCertain
    Code <- DiamondCode
    MaxObj = 12
    MaxMaps = 6
    BackChoices = {FALSE}
SPECIFICATION Spec
INVARIANTS TypeOK RefCountsExact WellFormedMulti
CHECK_DEADLOCK FALSE
