CONSTANTS
    ByteBits = 2
    SizeMax = 15
    Word = 2
    Group = 4
    Counts <- SomeCounts
    Searches = {"bits", "words", "vector", "plain"}
    None = None
SPECIFICATION SearchSpec
INVARIANTS
    FindsLeast
    NothingSkipped
PROPERTY Ends
CHECK_DEADLOCK FALSE
