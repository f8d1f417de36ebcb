SPECIFICATION StackSpec
CONSTANTS
    HEAP_SIZE = 7
    MaxBlocks = 3
    Sizes = {1, 2, 3}
    Byte = {0, 1}
INVARIANTS StackTypeOK NoOverlap FreeListExact PtrAboveLive Packed
PROPERTIES StoreSpec OverrunWhenFull
CHECK_DEADLOCK FALSE
