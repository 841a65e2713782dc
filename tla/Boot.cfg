\* RAM from page 128 on (vpn_2 = 2); eight entries to a table, four bytes to a page.
\* An image of 2 to 5 pages plus 4 extra pages fits the table or is larger than it,
\* and starts at its first entry or further on.
CONSTANTS
    RADIX = 8
    PAGE_SIZE = 4
    EXTRA_PAGES = 4
    FLAG_PAGES = 1
    KERNEL_HALF = 4
    RamEnd = 564
    KernelStarts = {512, 516, 536}
    KernelSizes = {5, 8, 11, 16, 17, 30}
    UART_PAGE = 16
    Garbage = {2, 3}
    Harts = {0, 1}
SPECIFICATION Spec
INVARIANTS BootMapExact EarlyAccessMapped
\* os_start does not return to boot.s.
CHECK_DEADLOCK FALSE
