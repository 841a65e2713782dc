CONSTANTS
    RADIX = 2
    KERNEL_HALF = 1
    DirectGigas = 1
    NumFrames = 13
    StaleFrames = {4}
    StaleTarget = 3
SPECIFICATION PagingSpec
INVARIANT UnmappedIsNull
CHECK_DEADLOCK FALSE
