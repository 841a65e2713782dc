----------------------------- MODULE KernelHeap -----------------------------
(***************************************************************************)
(* kernel/memory/virtual_allocator.cpp on top of the page tables: the      *)
(* kernel heap, a growing range of pages whose unused tail is the only     *)
(* item of the free list (operator delete does nothing).  The ELF loader   *)
(* maps pages of processes from the same frames in between.                *)
(* Heap addresses are offsets from VIRTUAL_HEAP_START.                     *)
(***************************************************************************)
EXTENDS Paging

CONSTANTS
    PAGE_SIZE,      \* bytes in a page
    HEADER,         \* sizeof(FreeSpace), also the size of a chunk's header (16)
    HeapStart,      \* the page of VIRTUAL_HEAP_START
    UserPages,      \* pages the ELF loader maps
    Sizes,          \* the sizes callers ask for
    MaxHeap,        \* bound: bytes of heap in the model
    LoadLimit       \* bound: the loader leaves the frames from here on to the heap

NoRequest == -1

VARIABLES
    heap_up,             \* virtual_allocator_init has run
    free_list,           \* address of the free block
    status,              \* its word: size << 1 | last
    virtual_alloc_end,   \* end of the mapped part of the heap
    request,             \* the size kalloc is working on
    chunks               \* history: [addr, size] of what kalloc has returned
heapVars == <<heap_up, free_list, status, virtual_alloc_end, request, chunks>>
vars == <<pagingVars, heapVars>>

ASSUME HeapAssumption ==
    /\ HEADER \in Nat \ {0}
    /\ PAGE_SIZE \in Nat
    /\ PAGE_SIZE >= HEADER
    /\ MaxHeap \in Nat
    /\ Sizes \subseteq Nat
    /\ UserPages \subseteq Pages
    /\ HeapStart \in Nat
    /\ \A n \in 0 .. MaxHeap : HeapStart + n \div PAGE_SIZE \in Pages \ UserPages

\* The heap's words are natural numbers: no size computed by kalloc goes below zero.
HeapTypeOK ==
    /\ PagingTypeOK
    /\ heap_up \in BOOLEAN
    /\ free_list \in Nat
    /\ status \in Nat
    /\ virtual_alloc_end \in Nat
    /\ request \in Sizes \cup {NoRequest}
    /\ chunks \subseteq [addr : Nat, size : Sizes]
-----------------------------------------------------------------------------
\* FreeSpace, libk/list.cpp
get_size(s) == s \div 2
is_last(s) == s % 2 = 1
set_size(s, size) == size * 2 + (s % 2)
set_last(s) == IF is_last(s) THEN s ELSE s + 1

HeapPage(address) == HeapStart + address \div PAGE_SIZE

Init ==
    /\ PagingInit
    /\ heap_up = FALSE
    /\ free_list = 0
    /\ status = 0
    /\ virtual_alloc_end = 0
    /\ request = NoRequest
    /\ chunks = {}

KernelPaging ==
    /\ paging_init
    /\ UNCHANGED heapVars

\* The block's word is uninitialised memory: only its lowest bit survives set_size.
virtual_allocator_init ==
    /\ ~heap_up
    /\ MapNewPage(HeapPage(0))
    /\ \E garbage \in {0, 1} : status' = set_last(set_size(garbage, PAGE_SIZE))
    /\ free_list' = 0
    /\ virtual_alloc_end' = PAGE_SIZE
    /\ heap_up' = TRUE
    /\ UNCHANGED <<request, chunks>>

\* A caller enters kalloc.  The bound leaves room for the pages it may need.
kalloc(size) ==
    /\ heap_up
    /\ request = NoRequest
    /\ free_list + size + 2 * HEADER <= MaxHeap
    /\ request' = size
    /\ UNCHANGED <<pagingVars, heap_up, free_list, status, virtual_alloc_end, chunks>>

\* Mutant: the headers are forgotten.
TooSmall_no_headers == get_size(status) < request

TooSmall == get_size(status) < request + 2 * HEADER

\* Mutant: the page of the free block is mapped again.
kalloc_grow_remap ==
    /\ request # NoRequest
    /\ is_last(status) /\ TooSmall
    /\ MapNewPage(HeapPage(free_list))
    /\ status' = set_size(status, get_size(status) + PAGE_SIZE)
    /\ virtual_alloc_end' = virtual_alloc_end + PAGE_SIZE
    /\ UNCHANGED <<heap_up, free_list, request, chunks>>

\* One round of the loop that grows the last block.
kalloc_grow ==
    /\ request # NoRequest
    /\ is_last(status) /\ TooSmall
    /\ MapNewPage(HeapPage(virtual_alloc_end))
    /\ status' = set_size(status, get_size(status) + PAGE_SIZE)
    /\ virtual_alloc_end' = virtual_alloc_end + PAGE_SIZE
    /\ UNCHANGED <<heap_up, free_list, request, chunks>>

\* Mutant: the header is not subtracted from the block.
kalloc_carve_no_header ==
    /\ request # NoRequest
    /\ IF is_last(status) THEN ~TooSmall ELSE get_size(status) >= request
    /\ \E garbage \in {0, 1} :
          status' = set_size(set_last(garbage), get_size(status) - request)
    /\ free_list' = free_list + HEADER + request
    /\ chunks' = chunks \cup {[addr |-> free_list + HEADER, size |-> request]}
    /\ request' = NoRequest
    /\ UNCHANGED <<pagingVars, heap_up, virtual_alloc_end>>

\* Mutant: the new block starts inside the chunk.
kalloc_carve_overlap ==
    /\ request # NoRequest
    /\ IF is_last(status) THEN ~TooSmall ELSE get_size(status) >= request
    /\ \E garbage \in {0, 1} :
          status' = set_size(set_last(garbage), get_size(status) - (request + HEADER))
    /\ free_list' = free_list + request
    /\ chunks' = chunks \cup {[addr |-> free_list + HEADER, size |-> request]}
    /\ request' = NoRequest
    /\ UNCHANGED <<pagingVars, heap_up, virtual_alloc_end>>

\* Mutant: the new block is not marked as the last one.
kalloc_carve_not_last ==
    /\ request # NoRequest
    /\ IF is_last(status) THEN ~TooSmall ELSE get_size(status) >= request
    /\ \E garbage \in {0, 1} :
          status' = set_size(garbage, get_size(status) - (request + HEADER))
    /\ free_list' = free_list + HEADER + request
    /\ chunks' = chunks \cup {[addr |-> free_list + HEADER, size |-> request]}
    /\ request' = NoRequest
    /\ UNCHANGED <<pagingVars, heap_up, virtual_alloc_end>>

\* Split the block: a header, the chunk, and a new block with its word.
kalloc_carve ==
    /\ request # NoRequest
    /\ IF is_last(status) THEN ~TooSmall ELSE get_size(status) >= request
    /\ \E garbage \in {0, 1} :
          status' = set_size(set_last(garbage), get_size(status) - (request + HEADER))
    /\ free_list' = free_list + HEADER + request
    /\ chunks' = chunks \cup {[addr |-> free_list + HEADER, size |-> request]}
    /\ request' = NoRequest
    /\ UNCHANGED <<pagingVars, heap_up, virtual_alloc_end>>

\* submit_new_process maps a page of a process: a segment, the heap or the stack.
LoadPage(v) ==
    /\ heap_up
    /\ request = NoRequest
    /\ next_frame <= LoadLimit
    /\ MapNewPage(v)
    /\ UNCHANGED heapVars

Next ==
    \/ KernelPaging
    \/ virtual_allocator_init
    \/ \E size \in Sizes : kalloc(size)
    \/ kalloc_grow
    \/ kalloc_carve
    \/ \E v \in UserPages : LoadPage(v)

Spec == Init /\ [][Next]_vars

\* The hart runs kalloc to its end: nothing preempts the kernel.
FairSpec == Spec /\ WF_vars(kalloc_grow) /\ WF_vars(kalloc_carve)
-----------------------------------------------------------------------------
(* The free block is the last one, its size reaches exactly to the end of  *)
(* the mapped heap, and its header fits into it: whatever sizes were       *)
(* requested and whatever the memory held, the next kalloc reads and       *)
(* writes the block's word in a mapped page and never follows the next     *)
(* pointer, which nobody sets.                                             *)
FreeBlockReachesEnd ==
    heap_up =>
        /\ is_last(status)
        /\ get_size(status) >= HEADER
        /\ free_list + get_size(status) = virtual_alloc_end

(* What kalloc returned lies, with its header, below the free block and    *)
(* shares no byte with any other chunk.                                    *)
ChunksDisjoint ==
    \A c \in chunks :
        /\ c.addr + c.size <= free_list
        /\ \A d \in chunks \ {c} :
              c.addr + c.size <= d.addr - HEADER \/ d.addr + d.size <= c.addr - HEADER

(* Every page of the heap up to virtual_alloc_end has a frame, also after  *)
(* the loader has mapped pages of processes.                               *)
HeapBacked ==
    \A a \in 0 .. virtual_alloc_end - 1 : Translation[HeapPage(a)] \in Frames

(* A page of the heap keeps its frame for ever: the physical addresses     *)
(* that the drivers compute once and give to devices stay right.           *)
HeapFramesStay ==
    [][\A a \in 0 .. virtual_alloc_end - 1 :
          Translation'[HeapPage(a)] = Translation[HeapPage(a)]]_vars

(* kalloc returns.                                                         *)
KallocReturns == request # NoRequest ~> request = NoRequest
=============================================================================
