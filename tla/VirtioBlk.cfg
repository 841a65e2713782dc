CONSTANTS
    SECTOR = 3
    PARTITION = 1
    DiskSectors = 4
    IDX = 4
    UINT32 = 16
    PAGE_SIZE = 4
    Places <- HeapPlaces
    Reads <- AnyReads
    Writes <- BlockWrites
SPECIFICATION FairSpec
INVARIANTS TypeOK ChainUntorn ReadDelivers RingInStep
PROPERTIES ImplementsSyncDisk OperationReturns
\* The kernel stops without a device; after a failed init it is lost.
CHECK_DEADLOCK FALSE
