-------------------------------- MODULE Boot --------------------------------
(***************************************************************************)
(* kernel/boot.s up to os_start: every hart but the first is parked, the   *)
(* first maps the kernel image and some pages behind it to VIRTUAL_OFFSET, *)
(* one page per turn of a loop, then the UART, and turns translation on.   *)
(* There is one table of each level, in .bss, which nobody clears.  Until  *)
(* paging_init has built other tables the kernel runs on these.            *)
(***************************************************************************)
EXTENDS Integers

CONSTANTS
    RADIX,          \* entries in a page table (512)
    PAGE_SIZE,      \* bytes in a page (4096)
    EXTRA_PAGES,    \* pages mapped behind the image (280)
    FLAG_PAGES,     \* FRAMES_FOR_MANAGING of the frame allocator (8)
    KERNEL_HALF,    \* bits 39 to 47 of VIRTUAL_OFFSET (256)
    RamEnd,         \* first address behind RAM
    KernelStarts,   \* physical addresses of _kernel_start, page aligned
    KernelSizes,    \* bytes from _kernel_start to _kernel_end
    UART_PAGE,      \* the page of 0x10000000
    Garbage,        \* what the words of .bss may hold besides zeros
    Harts           \* hart ids, 0 among them

Index == 0 .. RADIX - 1
Invalid == -1

\* The six tables, and the order in which the assembler lays them out in .bss.
Directory == 0
First == 1
Second == 2
Third == 3
UartSecond == 4
UartThird == 5
BootTables == 0 .. 5

VirtualOffset == KERNEL_HALF * RADIX * RADIX * RADIX
vpn_0(v) == v % RADIX
vpn_1(v) == (v \div RADIX) % RADIX
vpn_2(v) == ((v \div RADIX) \div RADIX) % RADIX
vpn_3(v) == (((v \div RADIX) \div RADIX) \div RADIX) % RADIX

VARIABLES
    pc,            \* per hart: "start", "map", "c", "os" or "park"
    kernel_start, kernel_end,
    s7,            \* the physical page that was mapped last
    table          \* table[t][i] = entry i of boot table t
vars == <<pc, kernel_start, kernel_end, s7, table>>

ASSUME BootAssumption ==
    /\ RADIX \in Nat \ {0, 1} /\ PAGE_SIZE \in Nat \ {0} /\ EXTRA_PAGES \in Nat
    /\ FLAG_PAGES \in Nat /\ KERNEL_HALF \in Index /\ RamEnd \in Nat
    /\ UART_PAGE \in 6 .. RADIX * RADIX - 1
    /\ KernelSizes \subseteq Nat \ {0}
    /\ \A a \in KernelStarts : a \in Nat /\ a % PAGE_SIZE = 0 /\ a >= 6 * PAGE_SIZE
    \* RAM lies above the entry that the UART shares the directory with.
    /\ \A a \in KernelStarts, n \in KernelSizes :
          /\ RADIX * RADIX * PAGE_SIZE <= a
          /\ a + n + EXTRA_PAGES * PAGE_SIZE <= RADIX * RADIX * RADIX * PAGE_SIZE
    /\ Garbage \subseteq Int
    /\ 0 \in Harts

\* s9: the end of what is mapped, an address that need not be page aligned.
\* Mutant: only the image.
s9_no_extra == kernel_end
s9 == kernel_end + EXTRA_PAGES * PAGE_SIZE
-----------------------------------------------------------------------------
Init ==
    /\ pc = [h \in Harts |-> "start"]
    /\ kernel_start \in KernelStarts
    /\ \E size \in KernelSizes : kernel_end = kernel_start + size
    /\ s7 = kernel_start \div PAGE_SIZE
    /\ \E g \in Garbage \cup {Invalid} : table = [t \in BootTables |-> [i \in Index |-> g]]

park(h) ==
    /\ pc[h] = "start" /\ h # 0
    /\ pc' = [pc EXCEPT ![h] = "park"]
    /\ UNCHANGED <<kernel_start, kernel_end, s7, table>>

\* Mutant: the index of the last table is taken from the level above.
boot_map_address_wrong_shift(p) ==
    LET v == p + VirtualOffset IN
    [table EXCEPT ![Directory][vpn_3(v)] = First,
                  ![First][vpn_2(v)] = Second,
                  ![Second][vpn_1(v)] = Third,
                  ![Third][vpn_1(v)] = p]

\* The four stores, whatever the entries hold: every entry of the second level
\* leads to the one table of the third.
boot_map_address(p) ==
    LET v == p + VirtualOffset IN
    [table EXCEPT ![Directory][vpn_3(v)] = First,
                  ![First][vpn_2(v)] = Second,
                  ![Second][vpn_1(v)] = Third,
                  ![Third][vpn_0(v)] = p]

MapFirst ==
    /\ pc[0] = "start"
    /\ table' = boot_map_address(s7)
    /\ pc' = [pc EXCEPT ![0] = "map"]
    /\ UNCHANGED <<kernel_start, kernel_end, s7>>

\* bge s8, s9 compares addresses: a page that s9 lies in is mapped as a whole.
map_next_address ==
    /\ pc[0] = "map" /\ (s7 + 1) * PAGE_SIZE < s9
    /\ s7' = s7 + 1
    /\ table' = boot_map_address(s7 + 1)
    /\ UNCHANGED <<pc, kernel_start, kernel_end>>

MapDone ==
    /\ pc[0] = "map" /\ (s7 + 1) * PAGE_SIZE >= s9
    /\ pc' = [pc EXCEPT ![0] = "c"]
    /\ UNCHANGED <<kernel_start, kernel_end, s7, table>>

\* Two tables of its own; the directory's entry is the kernel's.
boot_uart_map_address ==
    LET v == UART_PAGE + VirtualOffset IN
    [table EXCEPT ![First][vpn_2(v)] = UartSecond,
                  ![UartSecond][vpn_1(v)] = UartThird,
                  ![UartThird][vpn_0(v)] = UART_PAGE]

\* Trap vectors, the UART's page, satp, and mret to os_start.
jump_to_c ==
    /\ pc[0] = "c"
    /\ table' = boot_uart_map_address
    /\ pc' = [pc EXCEPT ![0] = "os"]
    /\ UNCHANGED <<kernel_start, kernel_end, s7>>

Next == MapFirst \/ map_next_address \/ MapDone \/ jump_to_c \/ \E h \in Harts : park(h)

Spec == Init /\ [][Next]_vars
-----------------------------------------------------------------------------
\* The hart's walk, once satp is written.
Follow(p, i) == IF p \in BootTables THEN table[p][i] ELSE Invalid
Translate(v) ==
    Follow(Follow(Follow(Follow(Directory, vpn_3(v)), vpn_2(v)), vpn_1(v)), vpn_0(v))

\* The pages that have been mapped, in the order of their numbers.
MappedPages == IF pc[0] = "start" THEN {} ELSE kernel_start \div PAGE_SIZE .. s7

\* What kernel code touches before switch_to_new_page_table: its image, the flags
\* physical_allocator_init clears, and the two frames paging_init fills.
AlignedEnd == (kernel_end + PAGE_SIZE - 1) \div PAGE_SIZE
num_frames == (RamEnd - kernel_end) \div PAGE_SIZE - FLAG_PAGES
EarlyPages ==
    (kernel_start \div PAGE_SIZE .. (kernel_end - 1) \div PAGE_SIZE)
        \cup {AlignedEnd + i \div PAGE_SIZE : i \in 0 .. num_frames - 1}
        \cup {AlignedEnd + FLAG_PAGES, AlignedEnd + FLAG_PAGES + 1}

\* The image and the pages behind it fit the one table of the third level, and
\* the pages behind it are enough for the flags and the two frames.
ImageFits ==
    /\ s9 - kernel_start <= RADIX * PAGE_SIZE
    /\ num_frames <= (EXTRA_PAGES - 1) * PAGE_SIZE /\ FLAG_PAGES + 3 <= EXTRA_PAGES

\* Hart positions, and words of tables as numbers.
BootTypeOK ==
    /\ pc \in [Harts -> {"start", "map", "c", "os", "park"}]
    /\ s7 \in Nat /\ kernel_start \in Nat /\ kernel_end \in Nat
    /\ table \in [BootTables -> [Index -> Int]]

(* Whatever .bss holds and however large the image is: a page of the       *)
(* kernel's that has been mapped is translated to itself, unless the page  *)
(* one table further on has been mapped as well.  boot.s has one table of  *)
(* the third level, so an image larger than it silently replaces the       *)
(* mapping of its own first pages.                                         *)
BootMapExact ==
    \A p \in MappedPages :
        (Translate(p + VirtualOffset) = p) <=> (p + RADIX \notin MappedPages)

(* When os_start runs on the boot tables, every page that the kernel       *)
(* touches until paging_init has switched to other tables, and the UART's, *)
(* is translated to itself, as it is by the direct map afterwards: image,  *)
(* stack and frames do not move under the code that uses them.             *)
EarlyAccessMapped ==
    (pc[0] = "os" /\ ImageFits) =>
        \A p \in EarlyPages \cup {UART_PAGE} : Translate(p + VirtualOffset) = p
=============================================================================
