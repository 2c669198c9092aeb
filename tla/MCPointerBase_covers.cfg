CONSTANTS
    A = A
    B = B
    Bases <- MCBases
    Offsets = {0, 1}
    PBMAX = 16
    Others <- MCOthers
    MaxOps = 3
    EraseEndOutcomes = {"pop", "crash"}
SPECIFICATION Spec
INVARIANT CoversInputs
CHECK_DEADLOCK FALSE
