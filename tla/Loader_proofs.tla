--------------------------- MODULE Loader_proofs ----------------------------
(***************************************************************************)
(* Loading processes into the shared address space, for every set of ELF   *)
(* files, every page size and every number of processes, on frames that    *)
(* hold zeros (StaleFrames = {}) and on top of the proofs about map_page.  *)
(***************************************************************************)
EXTENDS Loader, Paging_proofs

-----------------------------------------------------------------------------
(* The invariant.                                                          *)

\* Every byte of segment h is where the program expects it.
InPlace(h) ==
    \A k \in 1 .. Len(h.bytes) :
        LET a == h.vaddr + k - 1
            f == Translation[PageOf(a)]
        IN  f \in Frames /\ contents[f][a % PAGE_SIZE] = h.bytes[k]

Working == {"headers", "map", "stack"}

\* The loop over the program headers.
LoopOK ==
    /\ pc \in {"idle", "user", "fault"} \cup Working
    /\ ~paging_on => pc = "idle" /\ processes = <<>>
    /\ pc \in Working => file \in Files
    /\ pc \in {"headers", "map"} => header \in 1 .. Len(file) + 1
    /\ pc = "map" => header <= Len(file) /\ Header.load /\ left \in Nat
    /\ \A i \in DOMAIN processes : processes[i].file \in Files
    /\ processes \in Seq({processes[i] : i \in DOMAIN processes})

\* Before the copy, the segment's first page is mapped.
FirstPageMapped ==
    (pc = "map" /\ left = 0) => Translation[PageOf(Header.vaddr)] # Invalid

\* data_end is the largest end of the segments that were copied.
DataEndOK ==
    pc \in {"headers", "map"} =>
        /\ data_end = 0 \/ \E j \in 1 .. header - 1 :
              file[j].load /\ data_end = file[j].vaddr + file[j].memsz
        /\ data_end \in Nat
        /\ \A j \in 1 .. header - 1 :
              file[j].load => file[j].vaddr + file[j].memsz <= data_end

\* The segments that were copied stay in place.  One with the same header as
\* the segment that is being mapped will be copied again.
CopiedInPlace ==
    (pc \in Working /\ OnePageEach(file)) =>
        \A j \in 1 .. Len(file) :
            (file[j].load /\ (pc = "stack" \/ j < header) /\ (pc = "map" => file[j] # Header))
                => InPlace(file[j])

\* The pages that may be mapped on behalf of the file that is being loaded.
Current ==
    IF pc \in {"headers", "map"} THEN SegmentPages(file)
    ELSE IF pc = "stack" THEN SegmentPages(file) \cup {PageOf(data_end)}
    ELSE {}

\* The processes in the list keep their segments, unless the file that is
\* being loaded is linked to one of their pages.
ListedInPlace ==
    pc # "fault" =>
        \A i \in DOMAIN processes :
            (/\ Undisturbed(i) /\ OnePageEach(processes[i].file)
             /\ SegmentPages(processes[i].file) \cap Current = {})
                => \A h \in Segments(processes[i].file) : InPlace(h)

LInv ==
    /\ PInv /\ LoopOK /\ FirstPageMapped /\ DataEndOK
    /\ CopiedInPlace /\ ListedInPlace /\ FaultsOnlyAcrossPages

-----------------------------------------------------------------------------
(* Headers, segments and addresses.                                        *)
OkHeader(h) ==
    /\ h.vaddr \in Nat /\ h.memsz \in Nat /\ Len(h.bytes) \in 0 .. h.memsz
    /\ \A a \in h.vaddr .. h.vaddr + h.memsz + PAGE_SIZE : PageOf(a) \in Pages

\* What is assumed of the files, spelled out for the header at an index.
LEMMA FileFacts ==
    ASSUME NEW f \in Files
    PROVE  /\ DOMAIN f = 1 .. Len(f) /\ Len(f) \in Nat
           /\ \A j \in 1 .. Len(f) : OkHeader(f[j])
           /\ \A h : h \in Segments(f) <=> \E j \in 1 .. Len(f) : h = f[j] /\ f[j].load
<1>1. f \in Seq(ToSet(f)) /\ \A h \in ToSet(f) : OkHeader(h)
    BY LoaderAssumption DEF OkHeader
<1>2. DOMAIN f = 1 .. Len(f) /\ Len(f) \in Nat
    BY <1>1
<1>3. ToSet(f) = {f[j] : j \in 1 .. Len(f)}
    BY <1>2 DEF ToSet
<1>4. \A j \in 1 .. Len(f) : OkHeader(f[j])
    BY <1>1, <1>3
<1>5. \A h : h \in Segments(f) <=> \E j \in 1 .. Len(f) : h = f[j] /\ f[j].load
    BY <1>3 DEF Segments
<1> QED BY <1>2, <1>4, <1>5

\* Pages that every address space has.
LEMMA PageSizeFacts == PAGE_SIZE \in Nat \ {0} /\ STACK_PAGE \in Pages /\ PageOf(PAGE_SIZE) \in Pages
BY LoaderAssumption

\* Division with a remainder.
LEMMA DivMod ==
    ASSUME NEW x \in Nat, NEW n \in Nat \ {0}
    PROVE  /\ x \div n \in Nat /\ x % n \in 0 .. n - 1
           /\ x = (x \div n) * n + (x % n)
BY SMT

\* A quotient is determined by its bounds.
LEMMA QuotientIs ==
    ASSUME NEW x \in Nat, NEW n \in Nat \ {0}, NEW q \in Nat, NEW r \in 0 .. n - 1,
           x = (q * n) + r
    PROVE  x \div n = q /\ x % n = r
BY SMT

\* Addresses of a larger page are larger.
LEMMA PageMonotone ==
    ASSUME NEW x \in Nat, NEW y \in Nat, NEW n \in Nat \ {0}, x <= y
    PROVE  x \div n <= y \div n
BY SMT

\* Byte k of a segment.
LEMMA ByteFacts ==
    ASSUME NEW h, OkHeader(h), NEW k \in 1 .. Len(h.bytes)
    PROVE  LET a == h.vaddr + k - 1 IN
           /\ a \in Nat /\ a \in h.vaddr .. h.vaddr + h.memsz - 1
           /\ PageOf(a) \in Pages /\ a % PAGE_SIZE \in 0 .. PAGE_SIZE - 1
<1> DEFINE a == h.vaddr + k - 1
<1>1. PAGE_SIZE \in Nat \ {0}
    BY PageSizeFacts
<1>2. /\ a \in Nat /\ a \in h.vaddr .. h.vaddr + h.memsz - 1
      /\ a \in h.vaddr .. h.vaddr + h.memsz + PAGE_SIZE
    BY <1>1 DEF OkHeader
<1>3. PageOf(a) \in Pages
    BY <1>2 DEF OkHeader
<1> HIDE DEF a
<1>4. a % PAGE_SIZE \in 0 .. PAGE_SIZE - 1
    BY <1>1, <1>2, DivMod
<1> QED BY <1>2, <1>3, <1>4 DEF a

\* The bytes of a segment that fits are all in its first page.
LEMMA FitsSamePage ==
    ASSUME NEW h, OkHeader(h), FitsInPage(h), NEW k \in 1 .. Len(h.bytes)
    PROVE  PageOf(h.vaddr + k - 1) = PageOf(h.vaddr)
<1> DEFINE v == h.vaddr
           P == PAGE_SIZE
           q == v \div P
           r == v % P
           a == v + k - 1
<1>1. P \in Nat \ {0} /\ v \in Nat /\ k \in Nat /\ k >= 1 /\ k <= Len(h.bytes) /\ Len(h.bytes) \in Nat
    BY PageSizeFacts DEF OkHeader
<1>2. r + Len(h.bytes) <= P
    BY DEF FitsInPage
<1> HIDE DEF v, P
<1>3. q \in Nat /\ r \in 0 .. P - 1 /\ v = q * P + r
    BY <1>1, DivMod
<1> HIDE DEF q, r
<1>4. r + k - 1 \in 0 .. P - 1 /\ a \in Nat
    BY <1>1, <1>2, <1>3
<1>5. a = (q * P) + (r + k - 1)
    <2>1. q * P \in Nat
        BY <1>1, <1>3
    <2> QED BY <1>1, <1>3, <2>1
<1>6. a \div P = q
    BY <1>1, <1>3, <1>4, <1>5, QuotientIs
<1> QED BY <1>6 DEF PageOf, a, v, q, P

\* The pages of a segment's bytes are among the file's.
LEMMA BytePages ==
    ASSUME NEW f \in Files, NEW h \in Segments(f)
    PROVE  /\ OkHeader(h)
           /\ PageOf(h.vaddr) \in SegmentPages(f)
           /\ \A k \in 1 .. Len(h.bytes) : PageOf(h.vaddr + k - 1) \in SegmentPages(f)
<1>1. OkHeader(h)
    BY FileFacts
<1> DEFINE S(g) == {PageOf(g.vaddr)} \cup {PageOf(a) : a \in g.vaddr .. g.vaddr + g.memsz - 1}
<1>2. SegmentPages(f) = UNION {S(g) : g \in Segments(f)}
    BY DEF SegmentPages
<1>3. S(h) \subseteq SegmentPages(f)
    BY <1>2
<1>4. \A k \in 1 .. Len(h.bytes) : PageOf(h.vaddr + k - 1) \in S(h)
    BY <1>1, ByteFacts
<1> QED BY <1>1, <1>3, <1>4

-----------------------------------------------------------------------------
(* What mapping a page and copying a segment do to the bytes in place.     *)

\* Bytes stay in place as long as their pages and what these hold do.
LEMMA InPlaceKept ==
    ASSUME NEW h, InPlace(h),
           \A k \in 1 .. Len(h.bytes) :
              LET a == h.vaddr + k - 1
                  f == Translation[PageOf(a)]
              IN  /\ Translation'[PageOf(a)] = f
                  /\ f \in Frames => contents'[f][a % PAGE_SIZE] = contents[f][a % PAGE_SIZE]
    PROVE  InPlace(h)'
BY DEF InPlace

\* A segment stays in place when a page that it does not use is mapped.
LEMMA MapKeeps ==
    ASSUME PInv, NEW v \in Pages, MapNewPage(v), contents' = contents,
           NEW h, OkHeader(h), InPlace(h),
           \A k \in 1 .. Len(h.bytes) : PageOf(h.vaddr + k - 1) # v
    PROVE  InPlace(h)'
<1>1. \A w \in Pages : Translation'[w] = IF w = v THEN next_frame ELSE Translation[w]
    BY MapNewPageStep
<1>2. \A k \in 1 .. Len(h.bytes) : Translation'[PageOf(h.vaddr + k - 1)] = Translation[PageOf(h.vaddr + k - 1)]
    BY <1>1, ByteFacts
<1> QED BY <1>2, InPlaceKept

\* The bytes of the header that land at offset o of frame f.
Hits(f, o) ==
    {k \in 0 .. Len(Header.bytes) - 1 : Target(k) = f /\ (Header.vaddr + k) % PAGE_SIZE = o}

\* One byte of a frame after memcpy.
LEMMA MemcpyAt ==
    ASSUME contents' = memcpy, NEW f \in Frames, NEW o \in 0 .. PAGE_SIZE - 1
    PROVE  contents'[f][o] =
             IF Hits(f, o) = {} THEN contents[f][o]
             ELSE Header.bytes[1 + CHOOSE k \in Hits(f, o) : TRUE]
BY DEF memcpy, Hits

\* Copying leaves the pages alone that it does not write to.
LEMMA CopyKeeps ==
    ASSUME PInv, contents' = memcpy, UNCHANGED pagingVars, OkHeader(Header),
           NEW h, OkHeader(h), InPlace(h),
           \A k \in 1 .. Len(h.bytes), l \in 1 .. Len(Header.bytes) :
              PageOf(h.vaddr + k - 1) # PageOf(Header.vaddr + l - 1)
    PROVE  InPlace(h)'
<1>1. Translation' = Translation
    BY DEF pagingVars, Translation, Memory
<1>2. PagesApart
    BY PInvImplies
<1>3. ASSUME NEW k \in 1 .. Len(h.bytes),
             Translation[PageOf(h.vaddr + k - 1)] \in Frames
      PROVE  LET a == h.vaddr + k - 1
                 f == Translation[PageOf(a)]
             IN  contents'[f][a % PAGE_SIZE] = contents[f][a % PAGE_SIZE]
    <2> DEFINE a == h.vaddr + k - 1
               p == PageOf(a)
               o == a % PAGE_SIZE
               f == Translation[p]
    <2>1. p \in Pages /\ o \in 0 .. PAGE_SIZE - 1
        BY ByteFacts
    <2>2. f \in Frames /\ f # Invalid
        BY <1>3, Constants
    <2>3. Hits(f, o) = {}
        <3> SUFFICES ASSUME NEW j \in 0 .. Len(Header.bytes) - 1, Target(j) = f
                     PROVE  FALSE
            BY DEF Hits
        <3> DEFINE w == PageOf(Header.vaddr + j)
        <3>1. /\ j + 1 \in 1 .. Len(Header.bytes)
              /\ Header.vaddr + (j + 1) - 1 = Header.vaddr + j
            BY DEF OkHeader
        <3>2. w \in Pages /\ p # w
            BY <3>1, ByteFacts
        <3>3. Translation[w] = f
            BY DEF Target
        <3> HIDE DEF w, p
        <3> QED BY <1>2, <2>1, <2>2, <3>2, <3>3 DEF PagesApart
    <2> HIDE DEF p, o, a
    <2>4. contents'[f][o] = contents[f][o]
        BY <2>1, <2>2, <2>3, MemcpyAt
    <2> QED BY <2>4 DEF a, p, o
<1> QED BY <1>1, <1>3, InPlaceKept

(* Copying puts every byte of the segment in place, if it does not fault:  *)
(* no two bytes land at the same place.                                    *)
LEMMA CopyPlaces ==
    ASSUME PInv, contents' = memcpy, UNCHANGED pagingVars, OkHeader(Header), ~CopyFaults,
           NEW h, h = Header
    PROVE  InPlace(h)'
<1>1. Translation' = Translation
    BY DEF pagingVars, Translation, Memory
<1>2. PagesApart
    BY PInvImplies
<1>3. PAGE_SIZE \in Nat \ {0}
    BY PageSizeFacts
<1>4. ASSUME NEW k \in 1 .. Len(h.bytes)
      PROVE  LET a == h.vaddr + k - 1
                 f == Translation[PageOf(a)]
             IN  f \in Frames /\ contents'[f][a % PAGE_SIZE] = h.bytes[k]
    <2> DEFINE a == h.vaddr + k - 1
               p == PageOf(a)
               o == a % PAGE_SIZE
               f == Translation[p]
    <2>1. p \in Pages /\ o \in 0 .. PAGE_SIZE - 1 /\ a \in Nat
        BY ByteFacts
    <2>2. /\ k - 1 \in 0 .. Len(Header.bytes) - 1 /\ h.vaddr \in Nat
          /\ Header.vaddr + (k - 1) = a
        BY DEF OkHeader
    <2>3. Target(k - 1) = f
        BY <2>2 DEF Target
    <2>4. f \in Frames
        BY <1>2, <2>1, <2>2, <2>3 DEF CopyFaults, PagesApart
    <2>5. f # Invalid
        BY <2>4, Constants
    <2>6. ASSUME NEW j \in Hits(f, o)
          PROVE  j = k - 1
        <3> DEFINE b == Header.vaddr + j
                   w == PageOf(b)
        <3>1. j \in 0 .. Len(Header.bytes) - 1 /\ Target(j) = f /\ b % PAGE_SIZE = o
            BY DEF Hits
        <3>2. j \in Int /\ j + 1 \in 1 .. Len(Header.bytes) /\ Header.vaddr + (j + 1) - 1 = b
            BY <3>1 DEF OkHeader
        <3>3. w \in Pages /\ b \in Nat
            BY <3>2, ByteFacts
        <3>4. Translation[w] = f
            BY <3>1 DEF Target
        <3>5. w = p
            <4> HIDE DEF w, p
            <4> QED BY <1>2, <2>1, <2>5, <3>3, <3>4 DEF PagesApart
        <3>6. b \div PAGE_SIZE = a \div PAGE_SIZE /\ b % PAGE_SIZE = a % PAGE_SIZE
            BY <3>1, <3>5 DEF PageOf
        <3>7. b = a
            <4> HIDE DEF a, b
            <4> QED BY <1>3, <2>1, <3>3, <3>6, DivModUnique
        <3> QED BY <2>2, <3>2, <3>7
    <2>7. Hits(f, o) = {k - 1}
        <3>1. k - 1 \in Hits(f, o)
            BY <2>2, <2>3 DEF Hits
        <3> HIDE DEF f, o
        <3> QED BY <2>6, <3>1
    <2>8. contents'[f][o] = Header.bytes[1 + (k - 1)]
        <3> HIDE DEF f, o
        <3>1. (CHOOSE j \in Hits(f, o) : TRUE) = k - 1
            BY <2>7
        <3> QED BY <2>1, <2>4, <2>7, <3>1, MemcpyAt
    <2>9. 1 + (k - 1) = k
        BY <2>2
    <2> QED BY <2>4, <2>8, <2>9
<1> QED BY <1>1, <1>4 DEF InPlace

-----------------------------------------------------------------------------
(* One lemma for each action.                                              *)

\* Steps that neither map nor copy.
LEMMA SamePlaces ==
    ASSUME UNCHANGED <<pagingVars, contents>>
    PROVE  /\ Translation' = Translation
           /\ \A h : InPlace(h)' <=> InPlace(h)
           /\ PInv => PInv'
<1>1. Translation' = Translation
    BY DEF pagingVars, Translation, Memory
<1>2. \A h : InPlace(h)' <=> InPlace(h)
    BY <1>1 DEF InPlace
<1>3. PInv => PInv'
    BY NextPInv
<1> QED BY <1>1, <1>2, <1>3

\* Mapping a page of the file that is being loaded, or the stack's or the
\* heap's, leaves the segments of the listed processes alone.
LEMMA MapKeepsListed ==
    ASSUME PInv, LoopOK, NEW v \in Pages, MapNewPage(v), contents' = contents,
           NEW i \in DOMAIN processes, v \notin SegmentPages(processes[i].file),
           \A h \in Segments(processes[i].file) : InPlace(h)
    PROVE  \A h \in Segments(processes[i].file) : InPlace(h)'
<1> DEFINE f == processes[i].file
<1>1. f \in Files
    BY DEF LoopOK
<1> HIDE DEF f
<1>2. ASSUME NEW h \in Segments(f), InPlace(h), v \notin SegmentPages(f)
      PROVE  InPlace(h)'
    BY <1>1, <1>2, BytePages, MapKeeps
<1> QED BY <1>2 DEF f

\* Nothing is loaded yet.
LEMMA InitLInv ==
    ASSUME StaleFrames = {}, Init
    PROVE  LInv
<1>1. PInv
    BY InitPInv DEF Init
<1>2. pc = "idle" /\ processes = <<>> /\ DOMAIN processes = {}
    BY DEF Init
<1> QED BY <1>1, <1>2 DEF LInv, LoopOK, Working, FirstPageMapped, DataEndOK, CopiedInPlace,
                          ListedInPlace, FaultsOnlyAcrossPages

\* The kernel turns paging on before the first process.
LEMMA KernelPagingLInv ==
    ASSUME LInv, KernelPaging
    PROVE  LInv'
<1>1. PInv'
    BY PagingInitPInv DEF LInv, KernelPaging
<1>2. pc = "idle" /\ processes = <<>> /\ UNCHANGED loaderVars /\ paging_on' = TRUE
    BY DEF LInv, LoopOK, KernelPaging, paging_init
<1>3. pc' = "idle" /\ processes' = <<>> /\ DOMAIN processes' = {}
    BY <1>2 DEF loaderVars
<1> QED BY <1>1, <1>2, <1>3 DEF LInv, LoopOK, Working, FirstPageMapped, DataEndOK,
                                CopiedInPlace, ListedInPlace, FaultsOnlyAcrossPages

\* The frame that submit_new_process takes is in no page.
LEMMA UnusedFrame ==
    ASSUME PInv, paging_on, paging_on' = paging_on, mapped' = mapped, FramesLeft,
           SetMemory(TakeFrame(Memory, 0))
    PROVE  PInv' /\ \A w \in Pages : Translation'[w] = Translation[w]
<1> DEFINE n == TakeFrame(Memory, 0)
<1>1. MemInv(Memory) /\ PagingTypeOK /\ Memory.next = next_frame /\ next_frame \in Nat
      /\ NumFrames \in Nat
    BY MemoryFields, Constants DEF PInv, PagingTypeOK
<1>2. Memory.next < NumFrames
    BY <1>1 DEF FramesLeft
<1>3. MemInv(n) /\ n.table = Memory.table
    BY <1>1, <1>2, TakeInv
<1> HIDE DEF n
<1>4. n = [next |-> n.next, table |-> n.table, level |-> n.level]
    BY <1>3 DEF MemInv, Mem
<1>5. Memory' = n /\ next_frame' = n.next /\ table' = n.table /\ level' = n.level
    BY <1>4 DEF SetMemory, Memory, n
<1>6. \A w \in Pages : Walk(n, w) = Walk(Memory, w)
    BY <1>3 DEF Walk, get_physical_address_of_virtual_address, Follow
<1>7. \A w \in Pages : Translation'[w] = Translation[w]
    BY <1>5, <1>6, TranslationIsWalk DEF Translation, Walk
<1>8. PagingTypeOK'
    BY <1>1, <1>3, <1>5 DEF PagingTypeOK, MemInv, Mem
<1>9. UnmappedIsNull'
    BY <1>7 DEF PInv, UnmappedIsNull
<1> QED BY <1>3, <1>5, <1>7, <1>8, <1>9 DEF PInv

\* A new process begins with an empty address space.
LEMMA SubmitLInv ==
    ASSUME LInv, NEW f \in Files, submit_new_process(f)
    PROVE  LInv'
<1>1. /\ pc = "idle" /\ paging_on /\ paging_on' = paging_on /\ FramesLeft
      /\ SetMemory(TakeFrame(Memory, 0)) /\ mapped' = mapped
      /\ pc' = "headers" /\ file' = f /\ header' = 1 /\ data_end' = 0
      /\ UNCHANGED <<left, contents, processes, running>>
    BY DEF submit_new_process
<1>2. PInv' /\ \A w \in Pages : Translation'[w] = Translation[w]
    BY <1>1, UnusedFrame DEF LInv
<1>3. ASSUME NEW h, OkHeader(h), InPlace(h)
      PROVE  InPlace(h)'
    BY <1>1, <1>2, <1>3, ByteFacts, InPlaceKept
<1>4. LoopOK'
    BY <1>1, FileFacts DEF LInv, LoopOK, Working
<1>5. ListedInPlace'
    <2>1. SUFFICES ASSUME NEW i \in DOMAIN processes, Undisturbed(i)',
                          OnePageEach(processes[i].file),
                          NEW h \in Segments(processes[i].file)
                   PROVE  InPlace(h)'
        BY <1>1 DEF ListedInPlace
    <2>2. Undisturbed(i)
        BY <1>1, <2>1 DEF Undisturbed
    <2>3. Current = {}
        BY <1>1 DEF Current
    <2>4. InPlace(h)
        BY <1>1, <2>1, <2>2, <2>3 DEF LInv, ListedInPlace
    <2>5. processes[i].file \in Files
        BY DEF LInv, LoopOK
    <2>6. OkHeader(h)
        BY <2>5, BytePages
    <2> QED BY <1>3, <2>4, <2>6
<1>6. CopiedInPlace'
    BY <1>1 DEF CopiedInPlace
<1> QED BY <1>1, <1>2, <1>4, <1>5, <1>6 DEF LInv, FirstPageMapped, DataEndOK, FaultsOnlyAcrossPages

\* The listed processes, over a step that changes neither the list nor the
\* pages of the current file, and neither maps nor copies.
LEMMA ListedSame ==
    ASSUME LInv, UNCHANGED <<pagingVars, contents, processes>>, pc # "fault",
           Current' = Current
    PROVE  ListedInPlace'
<1>1. \A h : InPlace(h)' <=> InPlace(h)
    BY SamePlaces
<1>2. \A i : Undisturbed(i)' <=> Undisturbed(i)
    BY DEF Undisturbed
<1> QED BY <1>1, <1>2 DEF LInv, ListedInPlace

\* A header that is not to be loaded changes nothing else.
LEMMA SkipHeaderLInv ==
    ASSUME LInv, SkipHeader
    PROVE  LInv'
<1>1. /\ pc = "headers" /\ header <= Len(file) /\ ~file[header].load
      /\ header' = header + 1 /\ pc' = pc /\ file' = file /\ data_end' = data_end
      /\ UNCHANGED <<pagingVars, left, contents, processes, running>>
    BY DEF SkipHeader, Header
<1>2. /\ file \in Files /\ header \in 1 .. Len(file) + 1 /\ Len(file) \in Nat
    BY <1>1, FileFacts DEF LInv, LoopOK, Working
<1>3. PInv' /\ \A h : InPlace(h)' <=> InPlace(h)
    BY <1>1, SamePlaces DEF LInv
<1>4. LoopOK'
    BY <1>1, <1>2 DEF LInv, LoopOK, Working, pagingVars
<1>5. DataEndOK'
    BY <1>1, <1>2 DEF LInv, DataEndOK
<1>6. CopiedInPlace'
    <2>1. SUFFICES ASSUME OnePageEach(file), NEW j \in 1 .. Len(file), file[j].load, j < header + 1
                   PROVE  InPlace(file[j])'
        BY <1>1 DEF CopiedInPlace
    <2>2. j < header
        BY <1>1, <1>2, <2>1
    <2>3. InPlace(file[j])
        BY <1>1, <2>1, <2>2 DEF LInv, CopiedInPlace, Working
    <2> QED BY <1>1, <2>3 DEF InPlace, pagingVars, Translation, Memory
<1>7. Current' = Current
    BY <1>1 DEF Current
<1>8. ListedInPlace'
    BY <1>1, <1>7, ListedSame
<1> QED BY <1>1, <1>3, <1>4, <1>5, <1>6, <1>8 DEF LInv, FirstPageMapped, FaultsOnlyAcrossPages

\* A segment to load: the pages are counted.
LEMMA FoundSegmentLInv ==
    ASSUME LInv, FoundSegment
    PROVE  LInv'
<1>1. /\ pc = "headers" /\ header <= Len(file) /\ Header.load
      /\ left' = amount_pages_to_map(Header) /\ pc' = "map"
      /\ UNCHANGED <<pagingVars, file, header, data_end, contents, processes, running>>
    BY DEF FoundSegment
<1>2. /\ file \in Files /\ header \in 1 .. Len(file)
    BY <1>1, FileFacts DEF LInv, LoopOK, Working
<1>3. PInv'
    BY <1>1, SamePlaces DEF LInv
<1>4. left' \in Nat /\ left' # 0
    <2>1. Header.memsz \in Nat /\ PAGE_SIZE \in Nat \ {0}
        BY <1>2, FileFacts, PageSizeFacts DEF OkHeader, Header
    <2>2. Header.memsz \div PAGE_SIZE \in Nat
        BY <2>1, DivMod
    <2> QED BY <1>1, <2>2 DEF amount_pages_to_map
<1>5. LoopOK'
    BY <1>1, <1>2, <1>4 DEF LInv, LoopOK, Working, pagingVars, Header
<1>6. DataEndOK'
    BY <1>1 DEF LInv, DataEndOK
<1>7. CopiedInPlace'
    <2>1. SUFFICES ASSUME OnePageEach(file), NEW j \in 1 .. Len(file), file[j].load, j < header
                   PROVE  InPlace(file[j])'
        BY <1>1 DEF CopiedInPlace
    <2>2. InPlace(file[j])
        BY <1>1, <2>1 DEF LInv, CopiedInPlace, Working
    <2> QED BY <1>1, <2>2 DEF InPlace, pagingVars, Translation, Memory
<1>8. Current' = Current
    BY <1>1 DEF Current
<1>9. ListedInPlace'
    BY <1>1, <1>8, ListedSame
<1> QED BY <1>1, <1>3, <1>4, <1>5, <1>6, <1>7, <1>9 DEF LInv, FirstPageMapped, FaultsOnlyAcrossPages

\* Two segments of a file with one page for each are in different pages.
LEMMA ApartSegments ==
    ASSUME NEW f \in Files, OnePageEach(f), NEW g \in Segments(f), NEW h \in Segments(f), g # h
    PROVE  /\ \A k \in 1 .. Len(g.bytes) : PageOf(g.vaddr + k - 1) # PageOf(h.vaddr)
           /\ \A k \in 1 .. Len(g.bytes), l \in 1 .. Len(h.bytes) :
                PageOf(g.vaddr + k - 1) # PageOf(h.vaddr + l - 1)
<1>1. OkHeader(g) /\ OkHeader(h)
    BY BytePages
<1>2. FitsInPage(g) /\ FitsInPage(h) /\ PageOf(g.vaddr) # PageOf(h.vaddr)
    BY DEF OnePageEach
<1> QED BY <1>1, <1>2, FitsSamePage

\* One page more for the segment; those in place stay.
LEMMA MapSegmentLInv ==
    ASSUME LInv, MapSegment
    PROVE  LInv'
<1> DEFINE v == PageOf(Header.vaddr)
<1>1. /\ pc = "map" /\ left > 0 /\ MapNewPage(v) /\ left' = left - 1
      /\ UNCHANGED <<pc, file, header, data_end, contents, processes, running>>
    BY DEF MapSegment
<1>2. /\ PInv /\ LoopOK /\ file \in Files /\ header \in 1 .. Len(file) /\ left \in Nat
      /\ Header.load
    BY <1>1, FileFacts DEF LInv, LoopOK, Working
<1>3. Header \in Segments(file) /\ OkHeader(Header)
    BY <1>2, FileFacts DEF Header
<1>4. v \in Pages /\ v \in SegmentPages(file)
    <2>1. PAGE_SIZE \in Nat \ {0}
        BY PageSizeFacts
    <2>2. Header.vaddr \in Header.vaddr .. Header.vaddr + Header.memsz + PAGE_SIZE
        BY <1>3, <2>1 DEF OkHeader
    <2> QED BY <1>2, <1>3, <2>2, BytePages DEF OkHeader
<1>5. PInv' /\ paging_on /\ paging_on'
    BY <1>1, <1>2, <1>4, NextPInv DEF PagingNext, MapNewPage
<1>6. Translation'[v] = next_frame /\ next_frame # Invalid
    BY <1>1, <1>2, <1>4, MapNewPageStep, Constants
<1>7. LoopOK'
    BY <1>1, <1>2, <1>5 DEF LoopOK, Working, Header
<1>8. FirstPageMapped'
    BY <1>1, <1>6 DEF FirstPageMapped, Header
<1>9. DataEndOK'
    BY <1>1 DEF LInv, DataEndOK
<1>10. CopiedInPlace'
    <2>1. SUFFICES ASSUME OnePageEach(file), NEW j \in 1 .. Len(file), file[j].load, j < header,
                          file[j] # Header
                   PROVE  InPlace(file[j])'
        BY <1>1 DEF CopiedInPlace, Header
    <2>2. InPlace(file[j])
        BY <1>1, <2>1 DEF LInv, CopiedInPlace, Working
    <2>3. file[j] \in Segments(file) /\ OkHeader(file[j])
        BY <1>2, <2>1, FileFacts
    <2>4. \A k \in 1 .. Len(file[j].bytes) : PageOf(file[j].vaddr + k - 1) # v
        BY <1>2, <1>3, <2>1, <2>3, ApartSegments
    <2>5. PICK h : h = file[j]
        OBVIOUS
    <2>6. InPlace(h)'
        BY <1>1, <1>2, <1>4, <2>2, <2>3, <2>4, <2>5, MapKeeps
    <2> QED BY <1>1, <2>5, <2>6 DEF InPlace
<1>11. ListedInPlace'
    <2>1. SUFFICES ASSUME NEW i \in DOMAIN processes, Undisturbed(i)',
                          OnePageEach(processes[i].file),
                          SegmentPages(processes[i].file) \cap Current' = {}
                   PROVE  \A h \in Segments(processes[i].file) : InPlace(h)'
        BY <1>1 DEF ListedInPlace
    <2>2. Current' = Current /\ Current = SegmentPages(file)
        BY <1>1 DEF Current
    <2>3. Undisturbed(i)
        BY <1>1, <2>1 DEF Undisturbed
    <2>4. \A h \in Segments(processes[i].file) : InPlace(h)
        BY <1>1, <2>1, <2>2, <2>3 DEF LInv, ListedInPlace
    <2>5. v \notin SegmentPages(processes[i].file)
        BY <1>4, <2>1, <2>2
    <2> QED BY <1>1, <1>2, <1>4, <2>4, <2>5, MapKeepsListed
<1> QED BY <1>1, <1>5, <1>7, <1>8, <1>9, <1>10, <1>11 DEF LInv, FaultsOnlyAcrossPages

\* The segment is copied to its pages and the others stay in place.
LEMMA CopySegmentLInv ==
    ASSUME LInv, CopySegment
    PROVE  LInv'
<1> DEFINE end == Header.vaddr + Header.memsz
<1>1. /\ pc = "map" /\ left = 0 /\ ~CopyFaults /\ contents' = memcpy
      /\ data_end' = IF data_end < end THEN end ELSE data_end
      /\ header' = header + 1 /\ pc' = "headers"
      /\ UNCHANGED <<pagingVars, file, left, processes, running>>
    BY DEF CopySegment
<1>2. /\ PInv /\ LoopOK /\ file \in Files /\ header \in 1 .. Len(file) /\ Len(file) \in Nat
      /\ Header.load
    BY <1>1, FileFacts DEF LInv, LoopOK, Working
<1>3. /\ Header \in Segments(file) /\ OkHeader(Header) /\ UNCHANGED pagingVars
      /\ \A l \in 1 .. Len(Header.bytes) : PageOf(Header.vaddr + l - 1) \in SegmentPages(file)
    BY <1>1, <1>2, FileFacts, BytePages DEF Header
<1>4. PInv'
    BY <1>2, <1>3, NextPInv
<1>5. LoopOK'
    BY <1>1, <1>2 DEF LoopOK, Working, pagingVars
<1>6. DataEndOK'
    <2>1. /\ data_end = 0 \/ \E j \in 1 .. header - 1 :
                file[j].load /\ data_end = file[j].vaddr + file[j].memsz
          /\ data_end \in Nat
          /\ \A j \in 1 .. header - 1 : file[j].load => file[j].vaddr + file[j].memsz <= data_end
        BY <1>1 DEF LInv, DataEndOK
    <2>2. /\ end \in Nat /\ file[header].load /\ end = file[header].vaddr + file[header].memsz
          /\ \A j \in 1 .. header - 1 : file[j].vaddr + file[j].memsz \in Nat
        BY <1>2, <1>3, FileFacts DEF OkHeader, Header
    <2>3. header' - 1 = header /\ 1 .. header = (1 .. header - 1) \cup {header} /\ file' = file
        BY <1>1, <1>2
    <2> HIDE DEF end
    <2>4. data_end' \in Nat /\ data_end <= data_end' /\ end <= data_end'
        BY <1>1, <2>1, <2>2
    <2>5. \A j \in 1 .. header : file[j].load => file[j].vaddr + file[j].memsz <= data_end'
        BY <2>1, <2>2, <2>3, <2>4
    <2>6. data_end' = 0 \/ \E j \in 1 .. header :
              file[j].load /\ data_end' = file[j].vaddr + file[j].memsz
        BY <1>1, <2>1, <2>2, <2>3
    <2> QED BY <1>1, <2>3, <2>4, <2>5, <2>6 DEF DataEndOK
<1>7. CopiedInPlace'
    <2>1. SUFFICES ASSUME OnePageEach(file), NEW j \in 1 .. Len(file), file[j].load,
                          j < header + 1
                   PROVE  InPlace(file[j])'
        BY <1>1 DEF CopiedInPlace
    <2>2. PICK h : h = file[j]
        OBVIOUS
    <2>3. h \in Segments(file) /\ OkHeader(h)
        BY <1>2, <2>1, <2>2, FileFacts
    <2>4. CASE h = Header
        <3>1. InPlace(h)'
            BY <1>1, <1>2, <1>3, <2>4, CopyPlaces
        <3> QED BY <1>1, <2>2, <3>1 DEF InPlace
    <2>5. CASE h # Header
        <3>1. j < header
            BY <1>2, <2>1, <2>2, <2>5 DEF Header
        <3>2. InPlace(h)
            BY <1>1, <2>1, <2>2, <2>5, <3>1 DEF LInv, CopiedInPlace, Working
        <3>3. \A k \in 1 .. Len(h.bytes), l \in 1 .. Len(Header.bytes) :
                PageOf(h.vaddr + k - 1) # PageOf(Header.vaddr + l - 1)
            BY <1>2, <1>3, <2>1, <2>3, <2>5, ApartSegments
        <3>4. InPlace(h)'
            BY <1>1, <1>2, <1>3, <2>3, <3>2, <3>3, CopyKeeps
        <3> QED BY <1>1, <2>2, <3>4 DEF InPlace
    <2> QED BY <2>4, <2>5
<1>8. ListedInPlace'
    <2>1. SUFFICES ASSUME NEW i \in DOMAIN processes, Undisturbed(i)',
                          OnePageEach(processes[i].file),
                          SegmentPages(processes[i].file) \cap Current' = {},
                          NEW h \in Segments(processes[i].file)
                   PROVE  InPlace(h)'
        BY <1>1 DEF ListedInPlace
    <2>2. Current' = Current /\ Current = SegmentPages(file)
        BY <1>1 DEF Current
    <2>3. Undisturbed(i)
        BY <1>1, <2>1 DEF Undisturbed
    <2>4. InPlace(h)
        BY <1>1, <2>1, <2>2, <2>3 DEF LInv, ListedInPlace
    <2>5. processes[i].file \in Files
        BY <1>2 DEF LoopOK
    <2>6. /\ OkHeader(h)
          /\ \A k \in 1 .. Len(h.bytes) : PageOf(h.vaddr + k - 1) \in SegmentPages(processes[i].file)
        BY <2>5, BytePages
    <2>7. \A k \in 1 .. Len(h.bytes), l \in 1 .. Len(Header.bytes) :
            PageOf(h.vaddr + k - 1) # PageOf(Header.vaddr + l - 1)
        BY <1>3, <2>1, <2>2, <2>6
    <2> QED BY <1>1, <1>2, <1>3, <2>4, <2>6, <2>7, CopyKeeps
<1> QED BY <1>1, <1>4, <1>5, <1>6, <1>7, <1>8 DEF LInv, FirstPageMapped, FaultsOnlyAcrossPages

\* A fault needs a byte outside the first page, which is mapped.
LEMMA CopyFaultLInv ==
    ASSUME LInv, CopyFault
    PROVE  LInv'
<1>1. /\ pc = "map" /\ left = 0 /\ CopyFaults /\ pc' = "fault"
      /\ UNCHANGED <<pagingVars, file, header, left, data_end, contents, processes, running>>
    BY DEF CopyFault
<1>2. /\ PInv /\ LoopOK /\ file \in Files /\ header \in 1 .. Len(file)
    BY <1>1, FileFacts DEF LInv, LoopOK, Working
<1>3. OkHeader(Header)
    BY <1>2, FileFacts DEF Header
<1>4. PInv'
    BY <1>1, <1>2, SamePlaces
<1>5. ~FitsInPage(Header)
    <2>1. SUFFICES ASSUME FitsInPage(Header)
                   PROVE  FALSE
        OBVIOUS
    <2>2. PICK k \in 0 .. Len(Header.bytes) - 1 : Target(k) = Invalid
        BY <1>1 DEF CopyFaults
    <2>3. k + 1 \in 1 .. Len(Header.bytes) /\ Header.vaddr + (k + 1) - 1 = Header.vaddr + k
        BY <1>3 DEF OkHeader
    <2>4. PageOf(Header.vaddr + k) = PageOf(Header.vaddr)
        BY <1>3, <2>1, <2>3, FitsSamePage
    <2> QED BY <1>1, <2>2, <2>4 DEF LInv, FirstPageMapped, Target
<1>6. FaultsOnlyAcrossPages'
    BY <1>1, <1>5 DEF FaultsOnlyAcrossPages, Header
<1>7. LoopOK'
    BY <1>1, <1>2 DEF LoopOK, Working, pagingVars
<1> QED BY <1>1, <1>4, <1>6, <1>7 DEF LInv, FirstPageMapped, DataEndOK, CopiedInPlace,
                                      ListedInPlace, Working

(* heap_start is in the page behind the one data_end falls into.           *)
LEMMA HeapPage ==
    ASSUME data_end \in Nat
    PROVE  /\ heap_start \in Nat /\ heap_start > data_end /\ heap_start <= data_end + PAGE_SIZE
           /\ PageOf(heap_start) = PageOf(data_end) + 1
           /\ PageOf(data_end) \in Nat
<1> DEFINE P == PAGE_SIZE
           q == data_end \div P
           r == data_end % P
<1>1. P \in Nat \ {0}
    BY PageSizeFacts
<1>2. q \in Nat /\ r \in 0 .. P - 1 /\ data_end = q * P + r
    BY <1>1, DivMod
<1>3. heap_start = data_end + P - r
    BY DEF heap_start
<1>4. PageOf(data_end) = q
    BY DEF PageOf
<1> HIDE DEF q, r, P
<1>5. q * P \in Nat
    BY <1>1, <1>2
<1>6. heap_start \in Nat /\ heap_start > data_end /\ heap_start <= data_end + P
    BY <1>1, <1>2, <1>3
<1>7. heap_start = ((q + 1) * P) + 0
    <2>1. (q + 1) * P = (q * P) + P
        BY <1>1, <1>2
    <2> QED BY <1>1, <1>2, <1>3, <1>5, <2>1
<1>8. heap_start \div P = q + 1
    <2>1. q + 1 \in Nat /\ 0 \in 0 .. P - 1
        BY <1>1, <1>2
    <2> QED BY <1>1, <1>6, <1>7, <2>1, QuotientIs
<1> QED BY <1>2, <1>4, <1>6, <1>8 DEF PageOf, P

\* The heap comes behind all segments.
LEMMA MapHeapLInv ==
    ASSUME LInv, MapHeap
    PROVE  LInv'
<1> DEFINE v == PageOf(heap_start)
<1>1. /\ pc = "headers" /\ header > Len(file) /\ MapNewPage(v) /\ data_end' = heap_start
      /\ pc' = "stack"
      /\ UNCHANGED <<file, header, left, contents, processes, running>>
    BY DEF MapHeap
<1>2. /\ PInv /\ LoopOK /\ file \in Files /\ Len(file) \in Nat /\ header = Len(file) + 1
    BY <1>1, FileFacts DEF LInv, LoopOK, Working
<1>3. /\ data_end = 0 \/ \E j \in 1 .. Len(file) :
            file[j].load /\ data_end = file[j].vaddr + file[j].memsz
      /\ data_end \in Nat
      /\ \A j \in 1 .. Len(file) : file[j].load => file[j].vaddr + file[j].memsz <= data_end
    BY <1>1, <1>2 DEF LInv, DataEndOK
<1>4. /\ heap_start \in Nat /\ heap_start > data_end /\ heap_start <= data_end + PAGE_SIZE
      /\ v = PageOf(data_end) + 1 /\ PageOf(data_end) \in Nat
    BY <1>3, HeapPage
<1>5. v \in Pages
    <2>1. CASE data_end = 0
        <3>1. PAGE_SIZE \in Nat \ {0} /\ PageOf(PAGE_SIZE) \in Pages
            BY PageSizeFacts
        <3>2. 0 % PAGE_SIZE = 0
            BY <3>1
        <3>3. heap_start = PAGE_SIZE
            BY <2>1, <3>1, <3>2 DEF heap_start
        <3> QED BY <3>1, <3>3
    <2>2. CASE \E j \in 1 .. Len(file) :
                  file[j].load /\ data_end = file[j].vaddr + file[j].memsz
        <3>1. PICK j \in 1 .. Len(file) : data_end = file[j].vaddr + file[j].memsz
            BY <2>2
        <3>2. OkHeader(file[j])
            BY <1>2, FileFacts
        <3>3. heap_start \in file[j].vaddr .. file[j].vaddr + file[j].memsz + PAGE_SIZE
            BY <1>4, <3>1, <3>2, PageSizeFacts DEF OkHeader
        <3> QED BY <3>2, <3>3 DEF OkHeader
    <2> QED BY <1>3, <2>1, <2>2
<1>6. PInv' /\ paging_on /\ paging_on'
    BY <1>1, <1>2, <1>5, NextPInv DEF PagingNext, MapNewPage
<1>7. LoopOK'
    BY <1>1, <1>2, <1>6 DEF LoopOK, Working
<1>8. CopiedInPlace'
    <2>1. SUFFICES ASSUME OnePageEach(file), NEW j \in 1 .. Len(file), file[j].load
                   PROVE  InPlace(file[j])'
        BY <1>1 DEF CopiedInPlace
    <2>2. PICK h : h = file[j]
        OBVIOUS
    <2>3. InPlace(h)
        BY <1>1, <1>2, <2>1, <2>2 DEF LInv, CopiedInPlace, Working
    <2>4. OkHeader(h) /\ h.vaddr + h.memsz <= data_end
        BY <1>2, <1>3, <2>1, <2>2, FileFacts
    <2>5. ASSUME NEW k \in 1 .. Len(h.bytes)
          PROVE  PageOf(h.vaddr + k - 1) # v
        <3> DEFINE a == h.vaddr + k - 1
        <3>1. a \in Nat /\ a <= data_end
            BY <1>3, <2>4, ByteFacts DEF OkHeader
        <3>2. PageOf(a) <= PageOf(data_end) /\ PageOf(a) \in Nat
            <4>1. PAGE_SIZE \in Nat \ {0}
                BY PageSizeFacts
            <4> HIDE DEF a
            <4> QED BY <1>3, <3>1, <4>1, PageMonotone, DivMod DEF PageOf
        <3> HIDE DEF a
        <3>3. PageOf(a) # v
            BY <1>4, <3>2
        <3> QED BY <3>3 DEF a
    <2>6. InPlace(h)'
        BY <1>1, <1>2, <1>5, <2>3, <2>4, <2>5, MapKeeps
    <2> QED BY <1>1, <2>2, <2>6 DEF InPlace
<1>9. ListedInPlace'
    <2>1. SUFFICES ASSUME NEW i \in DOMAIN processes, Undisturbed(i)',
                          OnePageEach(processes[i].file),
                          SegmentPages(processes[i].file) \cap Current' = {}
                   PROVE  \A h \in Segments(processes[i].file) : InPlace(h)'
        BY <1>1 DEF ListedInPlace
    <2>2. Current' = Current \cup {v} /\ Current = SegmentPages(file)
        BY <1>1 DEF Current
    <2>3. Undisturbed(i)
        BY <1>1, <2>1 DEF Undisturbed
    <2>4. \A h \in Segments(processes[i].file) : InPlace(h)
        BY <1>1, <2>1, <2>2, <2>3 DEF LInv, ListedInPlace
    <2>5. v \notin SegmentPages(processes[i].file)
        BY <2>1, <2>2
    <2> QED BY <1>1, <1>2, <1>5, <2>4, <2>5, MapKeepsListed
<1> QED BY <1>1, <1>6, <1>7, <1>8, <1>9 DEF LInv, FirstPageMapped, DataEndOK, FaultsOnlyAcrossPages

\* A sequence over a set is one over a larger set.
LEMMA SeqLarger ==
    ASSUME NEW T, NEW S, T \subseteq S, NEW s \in Seq(T)
    PROVE  s \in Seq(S)
OBVIOUS

(* The new process joins the list: its segments are in place, and the      *)
(* others' are unless they share a page with it.                           *)
LEMMA MapStackLInv ==
    ASSUME LInv, MapStack
    PROVE  LInv'
<1> DEFINE new == [id |-> Len(processes), file |-> file, heap |-> data_end]
           n == Len(processes)
<1>1. /\ pc = "stack" /\ MapNewPage(STACK_PAGE) /\ processes' = Append(processes, new)
      /\ pc' = "idle" /\ UNCHANGED <<left, contents, running>>
    BY DEF MapStack, add_new_process
<1>2. /\ PInv /\ LoopOK /\ file \in Files
      /\ processes \in Seq({processes[i] : i \in DOMAIN processes})
    BY <1>1 DEF LInv, LoopOK, Working
<1>3. STACK_PAGE \in Pages
    BY PageSizeFacts
<1>4. PInv' /\ paging_on /\ paging_on'
    BY <1>1, <1>2, <1>3, NextPInv DEF PagingNext, MapNewPage
<1>5. new.file = file /\ new.heap = data_end
    OBVIOUS
<1> HIDE DEF new
<1>6. /\ n \in Nat /\ DOMAIN processes = 1 .. n /\ DOMAIN processes' = 1 .. n + 1
      /\ \A i \in 1 .. n : processes'[i] = processes[i]
      /\ processes'[n + 1] = new
    BY <1>1, <1>2
<1>7. LoopOK'
    <2>1. processes' \in Seq({processes'[i] : i \in DOMAIN processes'})
        <3> DEFINE S == {processes'[i] : i \in DOMAIN processes'}
        <3>1. {processes[i] : i \in DOMAIN processes} \subseteq S /\ new \in S
            BY <1>6
        <3> HIDE DEF S
        <3>2. processes \in Seq(S)
            BY <1>2, <3>1, SeqLarger
        <3>3. Append(processes, new) \in Seq(S)
            BY <3>1, <3>2
        <3> QED BY <1>1, <3>3 DEF S
    <2>2. \A i \in DOMAIN processes' : processes'[i].file \in Files
        BY <1>2, <1>5, <1>6 DEF LoopOK
    <2> QED BY <1>1, <1>4, <2>1, <2>2 DEF LoopOK, Working
<1>8. ASSUME NEW i \in 1 .. n, Undisturbed(i)', OnePageEach(processes[i].file)
      PROVE  \A h \in Segments(processes[i].file) : InPlace(h)'
    <2>1. /\ SegmentPages(processes[i].file) \cap Footprint(new) = {}
          /\ \A j \in (1 .. n) \ {i} : SegmentPages(processes[i].file) \cap Footprint(processes[j]) = {}
        <3>1. \A j \in (1 .. n + 1) \ {i} :
                SegmentPages(processes'[i].file) \cap Footprint(processes'[j]) = {}
            BY <1>6, <1>8 DEF Undisturbed, Footprint
        <3>2. n + 1 \in (1 .. n + 1) \ {i} /\ \A j \in (1 .. n) \ {i} : j \in (1 .. n + 1) \ {i}
            BY <1>6
        <3>3. i \in 1 .. n /\ processes'[i] = processes[i]
            BY <1>6
        <3>4. SegmentPages(processes[i].file) \cap Footprint(processes'[n + 1]) = {}
            BY <3>1, <3>2, <3>3
        <3>5. ASSUME NEW j \in (1 .. n) \ {i}
              PROVE  SegmentPages(processes[i].file) \cap Footprint(processes[j]) = {}
            <4>1. processes'[j] = processes[j]
                BY <1>6
            <4> QED BY <3>1, <3>2, <3>3, <4>1
        <3> QED BY <1>6, <3>4, <3>5
    <2>2. Undisturbed(i)
        BY <1>6, <2>1 DEF Undisturbed
    <2>3. Footprint(new) = SegmentPages(file) \cup {PageOf(data_end), STACK_PAGE}
        BY <1>5 DEF Footprint
    <2>4. Current = SegmentPages(file) \cup {PageOf(data_end)}
        BY <1>1 DEF Current
    <2>5. STACK_PAGE \notin SegmentPages(processes[i].file)
          /\ SegmentPages(processes[i].file) \cap Current = {}
        BY <2>1, <2>3, <2>4
    <2>6. \A h \in Segments(processes[i].file) : InPlace(h)
        BY <1>1, <1>6, <1>8, <2>2, <2>5 DEF LInv, ListedInPlace
    <2> QED BY <1>1, <1>2, <1>3, <1>6, <2>5, <2>6, MapKeepsListed
<1>9. ASSUME OnePageEach(file), NEW h \in Segments(file)
      PROVE  InPlace(h)'
    <2>1. PICK j \in 1 .. Len(file) : h = file[j] /\ file[j].load
        BY <1>2, FileFacts
    <2>2. InPlace(h)
        BY <1>1, <1>9, <2>1 DEF LInv, CopiedInPlace, Working
    <2>3. OkHeader(h) /\ \A k \in 1 .. Len(h.bytes) : PageOf(h.vaddr + k - 1) # STACK_PAGE
        BY <1>2, <1>9, BytePages DEF OnePageEach
    <2> QED BY <1>1, <1>2, <1>3, <2>2, <2>3, MapKeeps
<1>10. ListedInPlace'
    <2>1. SUFFICES ASSUME NEW i \in 1 .. n + 1, Undisturbed(i)', OnePageEach(processes'[i].file)
                   PROVE  \A h \in Segments(processes'[i].file) : InPlace(h)'
        BY <1>6 DEF ListedInPlace
    <2>2. CASE i = n + 1
        BY <1>5, <1>6, <1>9, <2>1, <2>2
    <2>3. CASE i # n + 1
        <3>1. i \in 1 .. n /\ processes'[i] = processes[i]
            BY <1>6, <2>3
        <3> QED BY <1>8, <2>1, <3>1
    <2> QED BY <2>2, <2>3
<1> QED BY <1>1, <1>4, <1>7, <1>10 DEF LInv, FirstPageMapped, DataEndOK, CopiedInPlace,
                                       FaultsOnlyAcrossPages, Working

\* The process runs.
LEMMA RunLInv ==
    ASSUME LInv, run_next_process
    PROVE  LInv'
<1>1. /\ pc = "idle" /\ pc' = "user" /\ processes # <<>>
      /\ UNCHANGED <<pagingVars, file, header, left, data_end, contents, processes>>
    BY DEF run_next_process
<1>2. PInv'
    BY <1>1, SamePlaces DEF LInv
<1>3. LoopOK'
    BY <1>1 DEF LInv, LoopOK, Working, pagingVars
<1>4. Current' = Current
    BY <1>1 DEF Current
<1>5. ListedInPlace'
    BY <1>1, <1>4, ListedSame
<1> QED BY <1>1, <1>2, <1>3, <1>5 DEF LInv, FirstPageMapped, DataEndOK, CopiedInPlace,
                                      FaultsOnlyAcrossPages, Working

\* Every step of loader and scheduler.
LEMMA NextLInv ==
    ASSUME LInv, [Next]_vars
    PROVE  LInv'
<1>1. CASE UNCHANGED vars
    <2>1. UNCHANGED <<pagingVars, contents>> /\ UNCHANGED loaderVars
        BY <1>1 DEF vars, loaderVars
    <2>2. PInv' /\ Translation' = Translation /\ \A h : InPlace(h)' <=> InPlace(h)
        BY <2>1, SamePlaces DEF LInv
    <2>3. LoopOK' /\ FirstPageMapped' /\ DataEndOK' /\ FaultsOnlyAcrossPages'
        BY <2>1, <2>2 DEF LInv, loaderVars, pagingVars, LoopOK, FirstPageMapped, DataEndOK,
                          FaultsOnlyAcrossPages, Header
    <2>4. CopiedInPlace'
        BY <2>1, <2>2 DEF LInv, loaderVars, CopiedInPlace, Header, InPlace
    <2>5. ListedInPlace'
        BY <2>1, <2>2 DEF LInv, loaderVars, ListedInPlace, Current, Undisturbed, InPlace
    <2> QED BY <2>2, <2>3, <2>4, <2>5 DEF LInv
<1> QED BY <1>1, KernelPagingLInv, SubmitLInv, SkipHeaderLInv, FoundSegmentLInv, MapSegmentLInv,
           CopySegmentLInv, CopyFaultLInv, MapHeapLInv, MapStackLInv, RunLInv DEF Next

-----------------------------------------------------------------------------
(* The invariant of submit_new_process: what was copied stays in place     *)
(* while the rest of the file, the heap page and the stack page are        *)
(* mapped, for the file that is being loaded and for the listed processes. *)
THEOREM LoaderInvariance ==
    ASSUME StaleFrames = {}
    PROVE  Spec => []LInv
<1>1. Init => LInv
    BY InitLInv
<1>2. LInv /\ [Next]_vars => LInv'
    BY NextLInv
<1> QED BY <1>1, <1>2, PTL DEF Spec

(* Every byte that the file of a listed process holds of a segment is      *)
(* where the program expects it: for every file with one page for each     *)
(* segment, every page size, every list of other processes that share none *)
(* of its pages.                                                           *)
THEOREM ImagesStayInPlace ==
    ASSUME StaleFrames = {}
    PROVE  Spec => []ImageInPlace
<1>1. LInv => ImageInPlace
    <2>1. SUFFICES ASSUME LInv, pc \in {"idle", "user"}, NEW i \in DOMAIN processes,
                          Undisturbed(i), OnePageEach(processes[i].file),
                          NEW h \in Segments(processes[i].file)
                   PROVE  InPlace(h)
        BY DEF ImageInPlace, InPlace
    <2>2. Current = {}
        BY <2>1 DEF Current
    <2> QED BY <2>1, <2>2 DEF LInv, ListedInPlace
<1> QED BY <1>1, LoaderInvariance, PTL

(* memcpy meets an unmapped page only for a segment that does not fit in   *)
(* its first page, whatever was mapped before.                             *)
THEOREM FaultsNeedALargeSegment ==
    ASSUME StaleFrames = {}
    PROVE  Spec => []FaultsOnlyAcrossPages
<1>1. LInv => FaultsOnlyAcrossPages
    BY DEF LInv
<1> QED BY <1>1, LoaderInvariance, PTL
=============================================================================
