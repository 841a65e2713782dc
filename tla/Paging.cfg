\* Pages 0 and 1 share all tables, so mapping either may touch the table of the other.
CONSTANTS
    RADIX = 2
    KERNEL_HALF = 1
    DirectGigas = 1
    NumFrames = 13
    StaleFrames = {}
    StaleTarget = 3
    Cacheable = {0, 1}
SPECIFICATION TlbSpec
INVARIANTS TablesFormTree PagesApart UnmappedIsNull MappedOnceIsCurrent CachedApart
PROPERTIES ImplementsAddressSpace
CHECK_DEADLOCK FALSE
