\* Three of the four entries of the largest directory are looked at.
CONSTANTS
    SLASH = "/"
    Chars = {"a", "b"}
    MAX_ENTRIES = 3
    INODES_PER_GROUP = 3
    BLOCKS_PER_GROUP = 4
    GROUP_SLOTS = 8
    SuperBlocks <- SomeSuperBlocks
    Image <- SmallImage
    Paths <- AllPaths
    MaxPath = 6
    MaxOpen = 5
SPECIFICATION Spec
INVARIANTS ScanInBounds LookupExact WildHasACause
PROPERTIES LookupReturns
\* A wild read ends the model.
CHECK_DEADLOCK FALSE
