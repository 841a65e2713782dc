\* Eight pages of user space under seven page tables, two bytes to a page.
CONSTANTS
    RADIX = 2
    KERNEL_HALF = 1
    DirectGigas = 1
    NumFrames = 28
    StaleFrames = {}
    StaleTarget = 3
    PAGE_SIZE = 2
    STACK_PAGE = 7
    Files <- AllFiles
    MaxProcesses = 2
SPECIFICATION Spec
INVARIANTS ImageInPlace FaultsOnlyAcrossPages
PROPERTIES SubmitReturns
\* The model ends when a process runs or the copy faults.
CHECK_DEADLOCK FALSE
