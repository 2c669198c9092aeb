CONSTANTS
    Locs = {"x"}
    AllocSize = 2
    ByteVals = {1, 2}
    UNDEF = UNDEF
    PBMAX = 16
    Blocks <- ChainsBlocks
    Entry = "S"
    Order <- ChainsOrder
    Preds <- ChainsPreds
    Certain <- ChainsCertain
    Code <- ChainsCode
    MaxObj = 12
    MaxMaps = 6
    BackChoices = {FALSE}
SPECIFICATION Spec
INVARIANT Soundness
CHECK_DEADLOCK FALSE
