SPECIFICATION Spec
CONSTANTS
    WordBits = 4
    ArrayBase = 2
    ItemSize = 2
    Patience = 9
    MaxRounds = 4
    Programs <- MCFolding
    Inputs <- MCInputs
PROPERTY OnlyWhereOrderIsFree
CHECK_DEADLOCK FALSE
