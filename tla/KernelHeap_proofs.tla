------------------------- MODULE KernelHeap_proofs --------------------------
(***************************************************************************)
(* Proofs about KernelHeap for every page size, header, request size and   *)
(* heap size, on frames that hold zeros when they are handed out: the heap *)
(* rests on what Paging_proofs shows of map_page.                          *)
(***************************************************************************)
EXTENDS KernelHeap, Paging_proofs

\* What the assumption on the constants gives, spelled out.
LEMMA HeapConstants ==
    /\ HEADER \in Nat /\ HEADER >= 1 /\ PAGE_SIZE \in Nat /\ PAGE_SIZE >= HEADER
    /\ MaxHeap \in Nat /\ Sizes \subseteq Nat /\ HeapStart \in Nat
    /\ NoRequest = -1 /\ NoRequest \notin Sizes
    /\ \A n \in 0 .. MaxHeap : HeapPage(n) \in Pages \ UserPages
BY HeapAssumption DEF NoRequest, HeapPage

(* The word of a free block: size and last flag do not disturb each other. *)
LEMMA StatusWord ==
    /\ \A s, n \in Nat : /\ set_size(s, n) \in Nat /\ get_size(set_size(s, n)) = n
                         /\ is_last(set_size(s, n)) <=> is_last(s)
    /\ \A s \in Nat : /\ set_last(s) \in Nat /\ is_last(set_last(s))
                      /\ get_size(set_last(s)) = get_size(s) /\ get_size(s) \in Nat
<1>1. ASSUME NEW s \in Nat, NEW n \in Nat
      PROVE  /\ set_size(s, n) \in Nat /\ get_size(set_size(s, n)) = n
             /\ is_last(set_size(s, n)) <=> is_last(s)
    BY DEF set_size, get_size, is_last
<1>2. ASSUME NEW s \in Nat
      PROVE  /\ set_last(s) \in Nat /\ is_last(set_last(s))
             /\ get_size(set_last(s)) = get_size(s) /\ get_size(s) \in Nat
    BY DEF set_last, get_size, is_last
<1> QED BY <1>1, <1>2

\* Numbers of one page have one quotient.
LEMMA DivBlock ==
    ASSUME NEW q \in Nat, NEW n \in Nat \ {0}, NEW r \in 0 .. n - 1
    PROVE  (n * q + r) \div n = q
<1> DEFINE x == n * q + r
           d == x \div n
<1>1. x \in Nat /\ x < (q + 1) * n
    BY SMT
<1>2. d \in Nat /\ d < q + 1
    <2> HIDE DEF x
    <2> QED BY <1>1, DivLess
<1>3. x = n * d + (x % n) /\ x % n \in 0 .. n - 1
    <2> HIDE DEF x
    <2> QED BY <1>1
<1>4. ASSUME d < q PROVE FALSE
    <2>1. d + 1 <= q
        BY <1>2, <1>4
    <2> HIDE DEF d
    <2>2. n * (d + 1) <= n * q
        BY <1>2, <2>1, SMT
    <2>3. n * (d + 1) = n * d + n
        BY <1>2, SMT
    <2>4. n * d \in Nat /\ n * q \in Nat
        BY <1>2, SMT
    <2> QED BY <1>3, <2>2, <2>3, <2>4
<1> QED BY <1>2, <1>4

(* Pages of the heap: an end that is a multiple of the page size separates *)
(* the pages below it from the page that starts there.                     *)
LEMMA PageBoundary ==
    ASSUME NEW end \in Nat, end % PAGE_SIZE = 0
    PROVE  /\ (end + PAGE_SIZE) % PAGE_SIZE = 0
           /\ \A a \in end .. end + PAGE_SIZE - 1 : HeapPage(a) = HeapPage(end)
           /\ \A a \in 0 .. end - 1 : HeapPage(a) # HeapPage(end)
<1> DEFINE q == end \div PAGE_SIZE
           base == PAGE_SIZE * q
<1>1. PAGE_SIZE \in Nat \ {0} /\ HeapStart \in Nat /\ q \in Nat
    BY HeapConstants
<1>2. end = base
    BY <1>1
<1>3. ASSUME NEW r \in 0 .. PAGE_SIZE - 1
      PROVE  (end + r) \div PAGE_SIZE = q
    <2> HIDE DEF q
    <2> QED BY <1>1, <1>2, DivBlock
<1>4. (end + PAGE_SIZE) % PAGE_SIZE = 0
    <2> HIDE DEF q
    <2> DEFINE next == PAGE_SIZE * (q + 1)
    <2>1. next = end + PAGE_SIZE /\ next \in Nat
        BY <1>1, <1>2, SMT
    <2>2. (next + 0) \div PAGE_SIZE = q + 1
        BY <1>1, DivBlock
    <2>3. next \div PAGE_SIZE = q + 1
        BY <2>1, <2>2
    <2>4. next = PAGE_SIZE * (next \div PAGE_SIZE) + (next % PAGE_SIZE)
        <3> HIDE DEF next
        <3> QED BY <1>1, <2>1
    <2>5. next % PAGE_SIZE \in Nat
        BY <1>1, <2>1
    <2>6. next % PAGE_SIZE = 0
        BY <2>1, <2>3, <2>4, <2>5
    <2> QED BY <2>1, <2>6
<1>5. ASSUME NEW a \in end .. end + PAGE_SIZE - 1
      PROVE  HeapPage(a) = HeapPage(end)
    <2>1. a - end \in 0 .. PAGE_SIZE - 1 /\ a = end + (a - end)
        BY <1>1
    <2>2. a \div PAGE_SIZE = q
        BY <1>3, <2>1
    <2> QED BY <2>2 DEF HeapPage
<1>6. ASSUME NEW a \in 0 .. end - 1
      PROVE  HeapPage(a) # HeapPage(end)
    <2>1. a \in Nat /\ a < q * PAGE_SIZE
        BY <1>1, <1>2
    <2>2. a \div PAGE_SIZE \in Nat /\ a \div PAGE_SIZE < q
        <3> HIDE DEF q
        <3> QED BY <1>1, <2>1, DivLess
    <2> QED BY <1>1, <2>2 DEF HeapPage
<1> QED BY <1>4, <1>5, <1>6
-----------------------------------------------------------------------------
(* The inductive invariant: the page tables', the types, the properties    *)
(* themselves, and what ties a request and the end of the heap to the      *)
(* pages it may use.                                                       *)
HeapTypes ==
    /\ heap_up \in BOOLEAN /\ free_list \in Nat /\ status \in Nat
    /\ virtual_alloc_end \in Nat /\ request \in Sizes \cup {NoRequest}
    /\ chunks \subseteq [addr : Nat, size : Sizes]

RequestFits ==
    request # NoRequest => heap_up /\ free_list + request + 2 * HEADER <= MaxHeap

NotUpYet == ~heap_up => virtual_alloc_end = 0 /\ chunks = {} /\ free_list = 0

HeapPagesOwn ==
    /\ virtual_alloc_end % PAGE_SIZE = 0
    /\ \A a \in 0 .. virtual_alloc_end - 1 : HeapPage(a) \in Pages \ UserPages

HInv ==
    /\ PInv
    /\ HeapTypes
    /\ RequestFits
    /\ NotUpYet
    /\ FreeBlockReachesEnd
    /\ ChunksDisjoint
    /\ HeapPagesOwn
    /\ HeapBacked

(* Mapping a page of Pages moves no other page and never unmaps one.       *)
LEMMA MapKeepsBacking ==
    ASSUME PInv, NEW v \in Pages, MapNewPage(v)
    PROVE  /\ PInv'
           /\ Translation'[v] \in Frames
           /\ \A w \in Pages : w # v => Translation'[w] = Translation[w]
<1>1. PInv'
    BY NextPInv DEF PagingNext
<1>2. next_frame \in Frames /\ \A w \in Pages :
          Translation'[w] = IF w = v THEN next_frame ELSE Translation[w]
    BY MapNewPageStep
<1> QED BY <1>1, <1>2

\* A step that leaves the page tables alone keeps their invariant and the translation.
LEMMA PagingUnchanged ==
    ASSUME PInv, UNCHANGED pagingVars
    PROVE  PInv' /\ Translation' = Translation
<1>1. PInv'
    BY NextPInv
<1>2. Translation' = Translation
    BY DEF pagingVars, Translation, Memory
<1> QED BY <1>1, <1>2

(* A step that adds one page at the end of the heap.                       *)
LEMMA OnePageMore ==
    ASSUME HInv, virtual_alloc_end \in 0 .. MaxHeap,
           MapNewPage(HeapPage(virtual_alloc_end)),
           virtual_alloc_end' = virtual_alloc_end + PAGE_SIZE
    PROVE  /\ PInv' /\ HeapPagesOwn' /\ HeapBacked'
           /\ \A a \in 0 .. virtual_alloc_end - 1 :
                Translation'[HeapPage(a)] = Translation[HeapPage(a)]
<1> DEFINE e == virtual_alloc_end
           v == HeapPage(e)
<1>1. e \in Nat /\ PAGE_SIZE \in Nat /\ e % PAGE_SIZE = 0
    BY HeapConstants DEF HInv, HeapTypes, HeapPagesOwn
<1>2. v \in Pages \ UserPages
    BY HeapConstants
<1>3. /\ PInv' /\ Translation'[v] \in Frames
      /\ \A w \in Pages : w # v => Translation'[w] = Translation[w]
    BY <1>2, MapKeepsBacking DEF HInv
<1>4. /\ (e + PAGE_SIZE) % PAGE_SIZE = 0
      /\ \A a \in e .. e + PAGE_SIZE - 1 : HeapPage(a) = v
      /\ \A a \in 0 .. e - 1 : HeapPage(a) # v
    BY <1>1, PageBoundary
<1>5. \A a \in 0 .. e - 1 : HeapPage(a) \in Pages \ UserPages /\ Translation[HeapPage(a)] \in Frames
    BY DEF HInv, HeapPagesOwn, HeapBacked
<1>6. \A a \in 0 .. (e + PAGE_SIZE) - 1 : a \in 0 .. e - 1 \/ a \in e .. e + PAGE_SIZE - 1
    BY <1>1
<1> HIDE DEF v
<1>7. \A a \in 0 .. e - 1 : Translation'[HeapPage(a)] = Translation[HeapPage(a)]
    BY <1>3, <1>4, <1>5
<1>8. HeapPagesOwn'
    <2>1. \A a \in 0 .. (e + PAGE_SIZE) - 1 : HeapPage(a) \in Pages \ UserPages
        BY <1>2, <1>4, <1>5, <1>6
    <2> QED BY <1>4, <2>1 DEF HeapPagesOwn, HeapPage
<1>9. HeapBacked'
    <2>1. \A a \in 0 .. (e + PAGE_SIZE) - 1 : Translation'[HeapPage(a)] \in Frames
        BY <1>3, <1>4, <1>5, <1>6, <1>7
    <2> QED BY <2>1 DEF HeapBacked, HeapPage
<1> QED BY <1>3, <1>7, <1>8, <1>9
-----------------------------------------------------------------------------
\* The initial state satisfies the invariant.
LEMMA HeapInit ==
    ASSUME StaleFrames = {}, Init
    PROVE  HInv
<1>1. PInv
    BY InitPInv DEF Init
<1>2. HeapTypes /\ RequestFits /\ NotUpYet /\ FreeBlockReachesEnd /\ ChunksDisjoint
    BY DEF Init, HeapTypes, RequestFits, NotUpYet, FreeBlockReachesEnd, ChunksDisjoint
<1>3. HeapPagesOwn /\ HeapBacked
    BY HeapConstants DEF Init, HeapPagesOwn, HeapBacked
<1> QED BY <1>1, <1>2, <1>3 DEF HInv

\* virtual_allocator_init keeps the invariant.
LEMMA InitStep ==
    ASSUME HInv, virtual_allocator_init
    PROVE  HInv'
<1>1. /\ virtual_alloc_end = 0 /\ chunks = {} /\ free_list = 0 /\ request = NoRequest
      /\ HeapTypes
    BY DEF HInv, NotUpYet, RequestFits, virtual_allocator_init
<1>2. PInv' /\ HeapPagesOwn' /\ HeapBacked'
    BY <1>1, HeapConstants, OnePageMore DEF virtual_allocator_init
<1>3. PICK garbage \in {0, 1} : status' = set_last(set_size(garbage, PAGE_SIZE))
    BY DEF virtual_allocator_init
<1>4. status' \in Nat /\ is_last(status') /\ get_size(status') = PAGE_SIZE
    <2>1. garbage \in Nat /\ PAGE_SIZE \in Nat
        BY HeapConstants
    <2>2. set_size(garbage, PAGE_SIZE) \in Nat
          /\ get_size(set_size(garbage, PAGE_SIZE)) = PAGE_SIZE
        BY <2>1, StatusWord
    <2> QED BY <1>3, <2>2, StatusWord
<1>5. free_list' = 0 /\ virtual_alloc_end' = PAGE_SIZE /\ heap_up' = TRUE
      /\ request' = request /\ chunks' = chunks
    BY DEF virtual_allocator_init
<1>6. FreeBlockReachesEnd'
    <2>1. get_size(status') >= HEADER /\ free_list' + get_size(status') = virtual_alloc_end'
        BY <1>4, <1>5, HeapConstants
    <2> QED BY <1>4, <2>1 DEF FreeBlockReachesEnd, is_last, get_size
<1>7. HeapTypes' /\ RequestFits' /\ NotUpYet' /\ ChunksDisjoint'
    BY <1>1, <1>4, <1>5, HeapConstants
       DEF HeapTypes, RequestFits, NotUpYet, ChunksDisjoint
<1> QED BY <1>2, <1>6, <1>7 DEF HInv

\* Entering kalloc keeps the invariant.
LEMMA EnterStep ==
    ASSUME HInv, NEW size \in Sizes, kalloc(size)
    PROVE  HInv' /\ Translation' = Translation
<1>1. /\ heap_up /\ free_list + size + 2 * HEADER <= MaxHeap /\ request' = size
      /\ UNCHANGED pagingVars
      /\ UNCHANGED <<heap_up, free_list, status, virtual_alloc_end, chunks>>
    BY DEF kalloc
<1>2. PInv' /\ Translation' = Translation
    BY <1>1, PagingUnchanged DEF HInv
<1>3. HeapTypes' /\ RequestFits' /\ NotUpYet'
    BY <1>1 DEF HInv, HeapTypes, RequestFits, NotUpYet
<1>4. FreeBlockReachesEnd' /\ ChunksDisjoint' /\ HeapPagesOwn' /\ HeapBacked'
    BY <1>1, <1>2 DEF HInv, FreeBlockReachesEnd, ChunksDisjoint, HeapPagesOwn, HeapBacked
<1> QED BY <1>2, <1>3, <1>4 DEF HInv

\* One turn of kalloc's loop keeps the invariant.
LEMMA GrowStep ==
    ASSUME HInv, kalloc_grow
    PROVE  /\ HInv'
           /\ \A a \in 0 .. virtual_alloc_end - 1 :
                Translation'[HeapPage(a)] = Translation[HeapPage(a)]
<1>1. /\ heap_up /\ free_list + request + 2 * HEADER <= MaxHeap
      /\ request \in Sizes /\ HeapTypes
      /\ is_last(status) /\ get_size(status) < request + 2 * HEADER
      /\ free_list + get_size(status) = virtual_alloc_end
    BY DEF HInv, RequestFits, kalloc_grow, TooSmall, FreeBlockReachesEnd, HeapTypes
<1>2. get_size(status) \in Nat
    BY <1>1, StatusWord DEF HeapTypes
<1>3. virtual_alloc_end \in 0 .. MaxHeap
    BY <1>1, <1>2, HeapConstants DEF HeapTypes
<1>4. /\ PInv' /\ HeapPagesOwn' /\ HeapBacked'
      /\ \A a \in 0 .. virtual_alloc_end - 1 :
            Translation'[HeapPage(a)] = Translation[HeapPage(a)]
    BY <1>3, OnePageMore DEF kalloc_grow
<1>5. /\ status' = set_size(status, get_size(status) + PAGE_SIZE)
      /\ virtual_alloc_end' = virtual_alloc_end + PAGE_SIZE
      /\ UNCHANGED <<heap_up, free_list, request, chunks>>
    BY DEF kalloc_grow
<1>6. status' \in Nat /\ is_last(status')
      /\ get_size(status') = get_size(status) + PAGE_SIZE
    BY <1>1, <1>2, <1>5, HeapConstants, StatusWord DEF HeapTypes
<1>7. FreeBlockReachesEnd'
    <2>1. get_size(status') >= HEADER
        BY <1>2, <1>6, HeapConstants
    <2>2. free_list' + get_size(status') = virtual_alloc_end'
        BY <1>1, <1>2, <1>5, <1>6, HeapConstants DEF HeapTypes
    <2> QED BY <1>6, <2>1, <2>2 DEF FreeBlockReachesEnd, is_last, get_size
<1>8. HeapTypes' /\ RequestFits' /\ NotUpYet' /\ ChunksDisjoint'
    BY <1>1, <1>5, <1>6, HeapConstants
       DEF HInv, HeapTypes, RequestFits, NotUpYet, ChunksDisjoint
<1> QED BY <1>4, <1>7, <1>8 DEF HInv

\* Splitting the free block keeps the invariant.
LEMMA CarveStep ==
    ASSUME HInv, kalloc_carve
    PROVE  HInv' /\ Translation' = Translation
<1> DEFINE c == [addr |-> free_list + HEADER, size |-> request]
<1>1. /\ heap_up /\ request \in Sizes /\ HeapTypes
      /\ is_last(status) /\ ~(get_size(status) < request + 2 * HEADER)
      /\ free_list + get_size(status) = virtual_alloc_end
    BY DEF HInv, RequestFits, kalloc_carve, TooSmall, FreeBlockReachesEnd, HeapTypes
<1>2. /\ free_list' = free_list + HEADER + request
      /\ chunks' = chunks \cup {c} /\ request' = NoRequest
      /\ UNCHANGED pagingVars /\ UNCHANGED <<heap_up, virtual_alloc_end>>
    BY DEF kalloc_carve
<1>3. /\ get_size(status) \in Nat /\ free_list \in Nat /\ request \in Nat
      /\ HEADER \in Nat /\ HEADER >= 1
    BY <1>1, StatusWord, HeapConstants DEF HeapTypes
<1>4. PInv' /\ Translation' = Translation
    BY <1>2, PagingUnchanged DEF HInv
<1>5. PICK garbage \in {0, 1} :
         status' = set_size(set_last(garbage), get_size(status) - (request + HEADER))
    BY DEF kalloc_carve
<1>6. /\ status' \in Nat /\ is_last(status')
      /\ get_size(status') = get_size(status) - (request + HEADER)
    <2>1. garbage \in Nat /\ get_size(status) - (request + HEADER) \in Nat
        BY <1>1, <1>3
    <2>2. set_last(garbage) \in Nat /\ is_last(set_last(garbage))
        BY <2>1, StatusWord
    <2> QED BY <1>5, <2>1, <2>2, StatusWord
<1>7. FreeBlockReachesEnd'
    <2>1. get_size(status') >= HEADER /\ free_list' + get_size(status') = virtual_alloc_end'
        BY <1>1, <1>2, <1>3, <1>6
    <2> QED BY <1>6, <2>1 DEF FreeBlockReachesEnd, is_last, get_size
<1>8. c \in [addr : Nat, size : Sizes]
    BY <1>1, <1>3
<1>9. HeapTypes'
    BY <1>1, <1>2, <1>3, <1>6, <1>8 DEF HeapTypes
<1>10. RequestFits' /\ NotUpYet'
    BY <1>1, <1>2 DEF RequestFits, NotUpYet
<1>11. HeapPagesOwn' /\ HeapBacked'
    BY <1>2, <1>4 DEF HInv, HeapPagesOwn, HeapBacked
<1>12. ChunksDisjoint'
    <2>1. \A d \in chunks : /\ d.addr \in Nat /\ d.size \in Nat
                            /\ d.addr + d.size <= free_list
        BY <1>1, HeapConstants DEF HeapTypes, HInv, ChunksDisjoint
    <2>2. c.addr = free_list + HEADER /\ c.size = request
        OBVIOUS
    <2> HIDE DEF c
    <2>3. ASSUME NEW d \in chunks'
          PROVE  d.addr + d.size <= free_list'
        BY <1>2, <1>3, <2>1, <2>2
    <2>4. ASSUME NEW d \in chunks', NEW b \in chunks', b # d
          PROVE  d.addr + d.size <= b.addr - HEADER \/ b.addr + b.size <= d.addr - HEADER
        <3>1. CASE d \in chunks /\ b \in chunks
            BY <2>4, <3>1 DEF HInv, ChunksDisjoint
        <3>2. CASE d = c \/ b = c
            BY <1>2, <1>3, <2>1, <2>2, <2>4, <3>2
        <3> QED BY <1>2, <3>1, <3>2
    <2> QED BY <2>3, <2>4 DEF ChunksDisjoint
<1> QED BY <1>4, <1>7, <1>9, <1>10, <1>11, <1>12 DEF HInv

(* Steps that leave the heap's own variables alone: paging_init, the pages *)
(* of a process, and stuttering.                                           *)
LEMMA ElsewhereStep ==
    ASSUME HInv, UNCHANGED heapVars, PInv',
           \A w \in Pages \ UserPages : Translation'[w] = Translation[w]
    PROVE  HInv' /\ \A a \in 0 .. virtual_alloc_end - 1 :
                Translation'[HeapPage(a)] = Translation[HeapPage(a)]
<1>1. \A a \in 0 .. virtual_alloc_end - 1 :
         Translation'[HeapPage(a)] = Translation[HeapPage(a)]
    BY DEF HInv, HeapPagesOwn
<1>2. HeapTypes' /\ RequestFits' /\ NotUpYet' /\ FreeBlockReachesEnd' /\ ChunksDisjoint'
    BY DEF HInv, heapVars, HeapTypes, RequestFits, NotUpYet, FreeBlockReachesEnd, ChunksDisjoint
<1>3. HeapPagesOwn' /\ HeapBacked'
    BY <1>1 DEF HInv, heapVars, HeapPagesOwn, HeapBacked, HeapPage
<1> QED BY <1>1, <1>2, <1>3 DEF HInv

\* paging_init runs before there is a heap.
LEMMA PagingInitKeeps ==
    ASSUME PInv, paging_init
    PROVE  PInv' /\ \A w \in Pages : Translation'[w] = Translation[w]
<1>1. PInv' /\ mapped = {} /\ mapped' = {}
    BY PagingInitPInv DEF PInv, NothingYet, paging_init
<1> QED BY <1>1 DEF PInv, UnmappedIsNull

HeapStays ==
    \A a \in 0 .. virtual_alloc_end - 1 :
        Translation'[HeapPage(a)] = Translation[HeapPage(a)]

\* Every step keeps the invariant and leaves the heap's pages where they are.
LEMMA HeapStep ==
    ASSUME HInv, [Next]_vars
    PROVE  HInv' /\ HeapStays
<1>1. CASE KernelPaging
    <2>1. PInv' /\ \A w \in Pages : Translation'[w] = Translation[w]
        BY <1>1, PagingInitKeeps DEF KernelPaging, HInv
    <2> QED BY <1>1, <2>1, ElsewhereStep DEF KernelPaging, HeapStays
<1>2. CASE virtual_allocator_init
    <2>1. HInv' /\ virtual_alloc_end = 0
        BY <1>2, InitStep DEF virtual_allocator_init, HInv, NotUpYet
    <2> QED BY <2>1 DEF HeapStays
<1>3. ASSUME NEW size \in Sizes, kalloc(size)
      PROVE  HInv' /\ HeapStays
    BY <1>3, EnterStep DEF HeapStays
<1>4. CASE kalloc_grow
    BY <1>4, GrowStep DEF HeapStays
<1>5. CASE kalloc_carve
    BY <1>5, CarveStep DEF HeapStays
<1>6. ASSUME NEW v \in UserPages, LoadPage(v)
      PROVE  HInv' /\ HeapStays
    <2>1. v \in Pages /\ MapNewPage(v) /\ UNCHANGED heapVars
        BY <1>6, HeapAssumption DEF LoadPage
    <2>2. PInv' /\ \A w \in Pages : w # v => Translation'[w] = Translation[w]
        BY <2>1, MapKeepsBacking DEF HInv
    <2>3. \A w \in Pages \ UserPages : Translation'[w] = Translation[w]
        BY <2>2
    <2> QED BY <2>1, <2>2, <2>3, ElsewhereStep DEF HeapStays
<1>7. CASE UNCHANGED vars
    <2>1. UNCHANGED heapVars /\ UNCHANGED pagingVars
        BY <1>7 DEF vars
    <2>2. PInv' /\ Translation' = Translation
        BY <2>1, PagingUnchanged DEF HInv
    <2> QED BY <2>1, <2>2, ElsewhereStep DEF HeapStays
<1> QED BY <1>1, <1>2, <1>3, <1>4, <1>5, <1>6, <1>7 DEF Next
-----------------------------------------------------------------------------
(* The heap's invariant holds in every reachable state of the kernel heap  *)
(* over the page tables, if frames hold zeros when they are handed out.    *)
THEOREM HeapInvariance ==
    ASSUME StaleFrames = {}
    PROVE  Spec => []HInv
<1>1. Init => HInv
    BY HeapInit
<1>2. HInv /\ [Next]_vars => HInv'
    BY HeapStep
<1> QED BY <1>1, <1>2, PTL DEF Spec

(* kalloc keeps the types of the free block and of its chunks: no size     *)
(* ever becomes negative.                                                  *)
THEOREM HeapTypeCorrect ==
    ASSUME StaleFrames = {}
    PROVE  Spec => []HeapTypeOK
<1>1. HInv => HeapTypeOK
    BY DEF HInv, PInv, HeapTypes, HeapTypeOK
<1> QED BY <1>1, HeapInvariance, PTL

(* The only free block ends at virtual_alloc_end, for every page size and  *)
(* every sequence of requests.                                             *)
THEOREM FreeBlockIsTail ==
    ASSUME StaleFrames = {}
    PROVE  Spec => []FreeBlockReachesEnd
<1>1. HInv => FreeBlockReachesEnd
    BY DEF HInv
<1> QED BY <1>1, HeapInvariance, PTL

(* Chunks returned by kalloc never overlap each other, their headers or    *)
(* the free block.                                                         *)
THEOREM ChunksStayDisjoint ==
    ASSUME StaleFrames = {}
    PROVE  Spec => []ChunksDisjoint
<1>1. HInv => ChunksDisjoint
    BY DEF HInv
<1> QED BY <1>1, HeapInvariance, PTL

(* Every byte of the heap below virtual_alloc_end is backed by a frame.    *)
THEOREM HeapStaysBacked ==
    ASSUME StaleFrames = {}
    PROVE  Spec => []HeapBacked
<1>1. HInv => HeapBacked
    BY DEF HInv
<1> QED BY <1>1, HeapInvariance, PTL

(* No step, of the heap or of the loader, moves a page of the heap to      *)
(* another frame.                                                          *)
THEOREM FramesOfHeapStay ==
    ASSUME StaleFrames = {}
    PROVE  Spec => HeapFramesStay
<1>1. HInv /\ [Next]_vars => HeapStays
    BY HeapStep
<1> QED BY <1>1, HeapInvariance, PTL DEF Spec, HeapFramesStay, HeapStays
=============================================================================
