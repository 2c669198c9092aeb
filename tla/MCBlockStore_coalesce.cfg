CONSTANTS
    Locs = {"x"}
    AllocSize = 2
    ByteVals = {1, 2}
    UNDEF = UNDEF
    PBMAX = 16
    Blocks <- PairBlocks
    Entry = "E"
    Order <- PairOrder
    Preds <- PairPreds
    Certain <- PairCertain
    Code <- PairCode
    MaxObj = 12
    MaxMaps = 6
    BackChoices = {FALSE}
SPECIFICATION Spec
INVARIANT LoadsForwardSound
CHECK_DEADLOCK FALSE
