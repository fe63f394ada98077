CONSTANTS
    ByteBits = 2
    SizeMax = 63
    None = None
    Objects = {a, b}
    MaxCount = 3
    NumRegions = 3
    MinCount = 6
    Multiple = 3
    Sizes = {0, 3, 6, 9}
    MemoryFails = FALSE
SPECIFICATION EitherSpec
INVARIANTS
    CountExact
    MaskExact
    TotalExact
    EveryBitHasRegion
PROPERTY ImplementsSet
