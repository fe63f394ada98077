CONSTANTS
    Blocks = {a, b}
    Sizes = {0, 3, 13}
    Counts = {1, 3}
    Alignments = {2, 3, 8}
    Line = 4
    Wrap = 16
    Null = Null
SPECIFICATION Spec
INVARIANT MsizeTellsOwner
CHECK_DEADLOCK FALSE
