\* Two entries per table: the heap has 4 pages under two last-level tables.
CONSTANTS
    RADIX = 2
    KERNEL_HALF = 1
    DirectGigas = 1
    NumFrames = 22
    StaleFrames = {}
    StaleTarget = 3
    PAGE_SIZE = 4
    HEADER = 2
    HeapStart = 12
    UserPages = {0, 2}
    Sizes = {0, 1, 5}
    MaxHeap = 15
    LoadLimit = 10
SPECIFICATION FairSpec
INVARIANTS HeapTypeOK FreeBlockReachesEnd ChunksDisjoint HeapBacked
PROPERTIES HeapFramesStay KallocReturns
\* Frames and heap are bounded.
CHECK_DEADLOCK FALSE
