CONSTANTS
    Capacity <- TwoPools
    Eager = {1}
    VirtualMin = 6
    Null = Null
    Nobody = Nobody
    BlocksPerPool = 1
    MaxHeld = 1
    Wrap = 8
    HeapBlocks = 2
    Clients = {a, b}
    Sizes = {0, 1, 2, 6}
SYMMETRY ThreadSymmetry
SPECIFICATION Spec
INVARIANTS
    TypeOK
    HeadersTrue
    ContentsKept
    ReallocKeepsContents
    BlocksAccounted
    LockDiscipline
    RightDeallocator
PROPERTY ImplementsAllocator
