SPECIFICATION GapSpec
CONSTANTS
    HEAP_SIZE = 5
    MaxBlocks = 3
    Sizes = {1, 2}
    Byte = {0, 1}
INVARIANT SafeUntilGapFilled
PROPERTY StoreUntilGapFilled
CHECK_DEADLOCK FALSE
