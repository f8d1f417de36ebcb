SPECIFICATION Spec
CONSTANTS
    Sizes = {8, 16}
    MaxUsed = 24
    MaxLocals = 2
    MaxBlocks = 3
    MaxTemps = 1
INVARIANTS TypeOK RspKnown LoopsBalanced ReturnsBalanced LocalsSafe
CHECK_DEADLOCK FALSE
