SPECIFICATION Spec
CONSTANTS
    Names = {"s", "t"}
    Width = 8
    STRING_CAPACITY = 2
    INT_BUFFER_CAPACITY = 5
    Literals <- MCLiterals
    Numerals <- MCNumerals
    Numbers <- MCNumbers
    Hundredths <- MCHundredths
    Decimals <- MCDecimals
    Lines <- MCLines
    Capacities <- MCCapacities
    Bases <- MCBases
    MaxIndex = 3
    MaxCalls = 2
INVARIANTS
    Terminated
PROPERTIES
    InBounds
    CallsMeanText
CHECK_DEADLOCK FALSE
VIEW MCView
