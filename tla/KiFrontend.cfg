SPECIFICATION Spec
CONSTANTS
    Programs <- MCPrograms
    Values <- MCValues
INVARIANTS
    NothingDropped
    ReadAsMeant
    ResolvesByFunction
    CrashesOnly
    AcceptedIsResolved
PROPERTY EveryStatementConsumes
CHECK_DEADLOCK FALSE
