CONSTANTS
    Capacity <- TwoPools
    Eager = {1}
    VirtualMin = 6
    Null = Null
    Nobody = Nobody
    BlocksPerPool = 1
    MaxHeld = 1
    Wrap = 8
    HeapBlocks = 1
    Clients = {a, b}
    Sizes = {1, 6}
SYMMETRY ThreadSymmetry
SPECIFICATION Spec
INVARIANT FreedIsReleased
