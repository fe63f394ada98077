CONSTANTS
    NumPages = 2
    NumBlocks = 2
    CacheSize = 2
    None = None
SPECIFICATION Spec
INVARIANT NoBlockLost
