SPECIFICATION Spec
CONSTANTS
    MaxArguments = 6
    MAX_REGISTER_ARGUMENT_COUNT = 2
    MathRegisters = {1}
INVARIANTS
    ArriveWhenSound
    StackRestored
PROPERTIES
    RegistersKept
