CONSTANTS
    Locs = {"x"}
    AllocSize = 2
    ByteVals = {1, 2}
    UNDEF = UNDEF
    PBMAX = 16
    Blocks <- ChainBlocks
    Entry = "E"
    Order <- ChainOrder
    Preds <- ChainPreds
    Certain <- ChainCertain
    Code <- ChainCode
    MaxObj = 12
    MaxMaps = 6
    BackChoices = {FALSE}
SPECIFICATION Spec
INVARIANT Soundness
CHECK_DEADLOCK FALSE
