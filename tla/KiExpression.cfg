SPECIFICATION Spec
CONSTANTS
    WordBits = 4
    ArrayBase = 2
    ItemSize = 2
    Patience = 9
    MaxRounds = 4
    Programs <- MCPrograms
    Inputs <- MCInputs
INVARIANTS LoweringRight OptimizedRight
PROPERTIES RewriteKeeps FoldKeeps
CHECK_DEADLOCK FALSE
