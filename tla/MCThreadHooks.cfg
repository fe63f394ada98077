SPECIFICATION Spec
CONSTANTS
    Threads = {"main", "worker"}
    Main = "main"
    Levels <- FourLevels
    Highest = 1
    TimeCritical = 2
    ErrorReturn = 9
INVARIANTS
    NullCallOnlyInWindow
PROPERTIES
    NeverBelowNormal
    LoweredOnlyByRace
CHECK_DEADLOCK FALSE
