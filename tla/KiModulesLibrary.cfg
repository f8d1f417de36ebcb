SPECIFICATION Spec
CONSTANTS
    Modules = {main, basic, a}
    Main = main
    Basic = basic
    Names = {f, g}
    Entry = g
    NoName = none
    NoModule = nowhere
    MaxFunctions = 1
    MaxStatements = 3
CHECK_DEADLOCK FALSE
INVARIANT StandardLibraryFound
