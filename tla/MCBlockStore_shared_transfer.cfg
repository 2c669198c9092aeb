CONSTANTS
    Locs = {"x"}
    AllocSize = 2
    ByteVals = {1, 2}
    UNDEF = UNDEF
    PBMAX = 16
    Blocks <- ShareBlocks
    Entry = "E"
    Order <- ShareOrder
    Preds <- SharePreds
    Certain <- ShareCertain
    Code <- ShareCode
    MaxObj = 12
    MaxMaps = 6
    BackChoices = {FALSE}
SPECIFICATION Spec
INVARIANT Soundness
CHECK_DEADLOCK FALSE
