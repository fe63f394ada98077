SPECIFICATION Spec
CONSTANTS
    Order <- HashOrder
    Files <- SomeFiles
    IntWrap = 16
    DefaultStdio = 2
    Libraries <- SomeLibraries
    LowStdio = 1
    HighStdio = 4
    SystemStdio = 1
INVARIANTS
    FileTurnsOff
CHECK_DEADLOCK FALSE
