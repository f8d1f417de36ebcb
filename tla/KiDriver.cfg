SPECIFICATION Spec
CONSTANTS
    Modules = {main, a, b}
    Main = main
    Default = aout
    Stale = old
INVARIANTS BuildComplete NothingLeft FailureLeaves
CHECK_DEADLOCK FALSE
