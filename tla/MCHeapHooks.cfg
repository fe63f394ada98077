CONSTANTS
    Blocks = {a, b}
    Sizes = {0, 3, 13}
    Counts = {1, 3}
    Alignments = {2, 3, 8}
    Line = 4
    Wrap = 16
    Null = Null
SYMMETRY BlockSymmetry
SPECIFICATION Spec
INVARIANTS
    RightDeallocator
    MovesKeepContents
    EnoughRoom
CHECK_DEADLOCK FALSE
