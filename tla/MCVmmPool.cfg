CONSTANTS
    NumPages = 3
    NumBlocks = 2
    CacheSize = 2
    None = None
SPECIFICATION Spec
INVARIANTS
    TypeOK
    LiveBlocksHeld
    CacheSound
    FreePagesFindable
    CurrentUsable
    IInv
PROPERTIES
    DeletedPageUnused
    ImplementsStore
