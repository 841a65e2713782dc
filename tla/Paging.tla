------------------------------- MODULE Paging -------------------------------
(***************************************************************************)
(* kernel/memory/paging.cpp: the four-level (Sv48) page table.             *)
(*                                                                         *)
(* Page tables live in frames, so the state is what every frame holds read *)
(* as a page table.  Frames come from kalloc_frame; nothing in the kernel  *)
(* frees one, so they come in ascending order (SequentialUntilFreed of     *)
(* PhysicalAllocator) and a counter stands for the allocator.  The kernel  *)
(* runs on one hart without interrupts: a call of map_page is one step.    *)
(***************************************************************************)
EXTENDS Integers

CONSTANTS
    RADIX,         \* entries in a page table (512)
    KERNEL_HALF,   \* get_vpn_3 of VIRTUAL_OFFSET (256)
    DirectGigas,   \* gigabyte leaves that paging_init sets up (4)
    NumFrames,     \* frames of the model: a bound
    StaleFrames,   \* frames in which the boot loader left words that look valid
    StaleTarget    \* the frame such a word points to

Index == 0 .. RADIX - 1
Frames == 0 .. NumFrames - 1

\* What an entry holds: nothing valid, the number of a frame, or a gigabyte leaf.
Invalid == -1
DirectMap == NumFrames
Entries == {Invalid, DirectMap} \cup Frames

\* paging_init takes the first frame for the root table.
Root == 0

\* A page is its number: bits 12 to 47 of its address, four digits to base RADIX.
get_vpn_0(page) == page % RADIX
\* Mutant: the shift of get_vpn_2.
get_vpn_1_shifted(page) == ((page \div RADIX) \div RADIX) % RADIX
get_vpn_1(page) == (page \div RADIX) % RADIX
get_vpn_2(page) == ((page \div RADIX) \div RADIX) % RADIX
get_vpn_3(page) == ((page \div RADIX) \div RADIX) \div RADIX

InDirectMap(page) == get_vpn_3(page) = KERNEL_HALF /\ get_vpn_2(page) < DirectGigas

\* The pages map_page is used for: all but those paging_init maps by gigabytes.
Pages == {p \in 0 .. RADIX * RADIX * RADIX * RADIX - 1 : ~InDirectMap(p)}

ASSUME PagingAssumption ==
    /\ RADIX \in Nat \ {0, 1}
    /\ KERNEL_HALF \in Index
    /\ DirectGigas \in 0 .. RADIX
    /\ NumFrames \in Nat \ {0, 1}
    /\ StaleFrames \subseteq Frames
    /\ StaleTarget \in Frames

VARIABLES
    paging_on,    \* paging_init has run
    next_frame,   \* the frame kalloc_frame returns next
    table,        \* table[f][i] = entry i of frame f read as a page table
    level,        \* history: 4 root, 3 to 1 inner tables, 0 page, -1 not handed out
    mapped        \* history: the pages map_page has been called for
pagingVars == <<paging_on, next_frame, table, level, mapped>>

\* The memory that a call works on, as a value.
Memory == [next |-> next_frame, table |-> table, level |-> level]
SetMemory(m) ==
    /\ next_frame' = m.next
    /\ table' = m.table
    /\ level' = m.level

\* The words of page tables, read as entries, and the frame counter.
PagingTypeOK ==
    /\ paging_on \in BOOLEAN
    /\ next_frame \in 0 .. NumFrames
    /\ table \in [Frames -> [Index -> Entries]]
    /\ level \in [Frames -> -1 .. 4]
    /\ mapped \subseteq Pages
-----------------------------------------------------------------------------
setEntry(m, t, i, entry) == [m EXCEPT !.table[t][i] = entry]

isEntryValid(m, t, i) == m.table[t][i] # Invalid

\* kalloc_frame, with the use the caller has for the frame.
TakeFrame(m, use) == [m EXCEPT !.next = @ + 1, !.level[m.next] = use]

\* Mutant: the frame of the new table is not taken from the allocator.
EnsureEntry_same_frame(m, t, i) ==
    IF isEntryValid(m, t, i)
    THEN m
    ELSE setEntry([m EXCEPT !.level[m.next] = m.level[t] - 1], t, i, m.next)

\* Mutant: a new table for every call.
EnsureEntry_always(m, t, i) == setEntry(TakeFrame(m, m.level[t] - 1), t, i, m.next)

\* One level of map_page: allocate the next table and point to it, unless the
\* entry is valid.  The new table keeps what the frame held.
EnsureEntry(m, t, i) ==
    IF isEntryValid(m, t, i)
    THEN m
    ELSE setEntry(TakeFrame(m, m.level[t] - 1), t, i, m.next)

\* The three levels above the last table, in order.
EnsureSecond(m, v) == EnsureEntry(m, Root, get_vpn_3(v))
SecondTable(m, v) == m.table[Root][get_vpn_3(v)]
EnsureThird(m, v) == EnsureEntry(m, SecondTable(m, v), get_vpn_2(v))
ThirdTable(m, v) == m.table[SecondTable(m, v)][get_vpn_2(v)]
EnsureFourth(m, v) == EnsureEntry(m, ThirdTable(m, v), get_vpn_1(v))
FourthTable(m, v) == m.table[ThirdTable(m, v)][get_vpn_1(v)]

EnsureTables(m, v) == EnsureFourth(EnsureThird(EnsureSecond(m, v), v), v)

\* Mutant: the last table is indexed with get_vpn_1.
map_page_wrong_index(m, v, frame) ==
    LET t == EnsureTables(m, v) IN setEntry(t, FourthTable(t, v), get_vpn_1(v), frame)

map_page(m, v, frame) ==
    LET t == EnsureTables(m, v) IN setEntry(t, FourthTable(t, v), get_vpn_0(v), frame)

\* One step of the walk: an invalid entry ends it with a null pointer.
Follow(m, t, i) == IF t \in Frames THEN m.table[t][i] ELSE Invalid

get_physical_address_of_virtual_address(m, v) ==
    Follow(m, Follow(m, Follow(m, Follow(m, Root, get_vpn_3(v)),
                                  get_vpn_2(v)), get_vpn_1(v)), get_vpn_0(v))
-----------------------------------------------------------------------------
\* Frames hold zeros (physical_allocator_init has cleared them on the way, or
\* they were never used) except the stale ones.
PagingInit ==
    /\ paging_on = FALSE
    /\ next_frame = 0
    /\ table = [f \in Frames |-> [i \in Index |->
                  IF f \in StaleFrames THEN StaleTarget ELSE Invalid]]
    /\ level = [f \in Frames |-> -1]
    /\ mapped = {}

\* Frame 0 becomes the root, frame 1 the table of the direct map.
paging_init ==
    /\ ~paging_on
    /\ LET m == TakeFrame(TakeFrame(Memory, 4), 3)
           direct == [i \in Index |-> IF i < DirectGigas THEN DirectMap ELSE m.table[1][i]]
       IN  SetMemory([m EXCEPT !.table[Root][KERNEL_HALF] = 1, !.table[1] = direct])
    /\ paging_on' = TRUE
    /\ UNCHANGED mapped

\* Bound: map_page takes at most three frames besides the page's own.
FramesLeft == next_frame + 4 <= NumFrames

\* kalloc_frame() and map_page(v, that frame), which is how every page is mapped.
MapNewPage(v) ==
    /\ paging_on
    /\ FramesLeft
    /\ SetMemory(map_page(TakeFrame(Memory, 0), v, next_frame))
    /\ mapped' = mapped \cup {v}
    /\ UNCHANGED paging_on

PagingNext == paging_init \/ \E v \in Pages : MapNewPage(v)

PagingSpec == PagingInit /\ [][PagingNext]_pagingVars
-----------------------------------------------------------------------------
Translation == [v \in Pages |-> get_physical_address_of_virtual_address(Memory, v)]

(* The page tables form a tree: every entry of a table leads to a frame    *)
(* one level below, and no two entries lead to the same frame, however     *)
(* pages of the kernel heap and of processes were mapped in between.       *)
TablesFormTree ==
    \A f \in Frames, i \in Index :
        (level[f] > 0 /\ table[f][i] \in Frames) =>
            /\ level[table[f][i]] = level[f] - 1
            /\ \A g \in Frames, j \in Index :
                (level[g] > 0 /\ table[g][j] = table[f][i]) => (g = f /\ j = i)

(* No two pages are translated to the same frame, and no page to a frame   *)
(* that holds a page table: what a process or the heap writes never        *)
(* reaches another page or a table.                                        *)
PagesApart ==
    \A v \in Pages : Translation[v] # Invalid =>
        /\ Translation[v] \in Frames
        /\ level[Translation[v]] = 0
        /\ \A w \in Pages \ {v} : Translation[w] # Translation[v]

(* As the comment on get_physical_address_of_virtual_address says, it      *)
(* returns a null pointer for an address that was never mapped, though     *)
(* map_page never clears a new table: true if the frames hold zeros.       *)
UnmappedIsNull == \A v \in Pages \ mapped : Translation[v] = Invalid

(* The page tables implement the address space the kernel counts on.       *)
Space == INSTANCE AddressSpace
    WITH Null <- Invalid, mapping <- Translation,
         owned <- {f \in Frames : level[f] = 0},
         tables <- {f \in Frames : level[f] > 0}
ImplementsAddressSpace == Space!Spec
=============================================================================
