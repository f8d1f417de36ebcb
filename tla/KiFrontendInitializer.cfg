SPECIFICATION Spec
CONSTANTS
    Programs <- MCInitializers
    Values <- MCNone
INVARIANT ResolvedIsKept
CHECK_DEADLOCK FALSE
