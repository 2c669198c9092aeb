CONSTANTS
    Locs = {"x"}
    AllocSize = 2
    ByteVals = {1, 2}
    UNDEF = UNDEF
    PBMAX = 16
    Blocks <- ArmBlocks
    Entry = "E"
    Order <- ArmOrder
    Preds <- ArmPreds
    Certain <- ArmCertain
    Code <- ArmCode
    MaxObj = 12
    MaxMaps = 6
    BackChoices = {FALSE}
SPECIFICATION Spec
INVARIANT Isolation
CHECK_DEADLOCK FALSE
