------------------------------- MODULE Loader -------------------------------
(***************************************************************************)
(* kernel/process/scheduler.cpp and process.cpp: loading an ELF file into  *)
(* the one address space that the kernel and all processes share, the list *)
(* of processes, and the switch to the first one.  One step is one turn of *)
(* a loop of submit_new_process; kalloc_frame and map_page are those of    *)
(* Paging.  Addresses are bytes, PAGE_SIZE to a page.                      *)
(***************************************************************************)
EXTENDS Paging, SequencesExt

CONSTANTS
    PAGE_SIZE,      \* bytes in a page (4096)
    STACK_PAGE,     \* the page of address 0x100000
    Files,          \* ELF files: sequences of program headers
    MaxProcesses    \* bound: processes in the list

(* A program header: load is p_type = 1 (PT_LOAD), vaddr p_vaddr, memsz    *)
(* p_memsz, and bytes the p_filesz bytes of the file at p_offset.          *)

VARIABLES
    pc,           \* "idle", "headers", "map", "stack", "user" or "fault"
    file, header, \* submit_new_process: the file and the index of a program header,
    left,         \* the pages of the segment that are still to be mapped,
    data_end,     \* the end of the segments so far
    contents,     \* the bytes in every frame
    processes,    \* the list of processes, each with its id, file and heap_start
    running       \* the id of current_process
loaderVars == <<pc, file, header, left, data_end, contents, processes, running>>
vars == <<pagingVars, loaderVars>>

NoProcess == -1
Zero == 0

PageOf(address) == address \div PAGE_SIZE

ASSUME LoaderAssumption ==
    /\ PAGE_SIZE \in Nat \ {0} /\ MaxProcesses \in Nat
    /\ STACK_PAGE \in Pages /\ PageOf(PAGE_SIZE) \in Pages
    /\ \A f \in Files : f \in Seq(ToSet(f)) /\ \A h \in ToSet(f) :
          /\ h.vaddr \in Nat /\ h.memsz \in Nat /\ Len(h.bytes) \in 0 .. h.memsz
          /\ \A a \in h.vaddr .. h.vaddr + h.memsz + PAGE_SIZE : PageOf(a) \in Pages
-----------------------------------------------------------------------------
Init ==
    /\ PagingInit
    /\ pc = "idle" /\ file = <<>> /\ header = 1 /\ left = 0 /\ data_end = 0
    /\ contents = [f \in Frames |-> [o \in 0 .. PAGE_SIZE - 1 |-> Zero]]
    /\ processes = <<>> /\ running = NoProcess

KernelPaging ==
    /\ paging_init
    /\ UNCHANGED loaderVars

\* Besides reading the file, a frame is taken that is never used.
submit_new_process(f) ==
    /\ pc = "idle" /\ paging_on /\ Len(processes) < MaxProcesses
    /\ FramesLeft
    /\ SetMemory(TakeFrame(Memory, 0))
    /\ pc' = "headers" /\ file' = f /\ header' = 1 /\ data_end' = 0
    /\ UNCHANGED <<paging_on, mapped, left, contents, processes, running>>

Header == file[header]

\* Mutant: the loop continues without moving on.
SkipHeader_stuck ==
    /\ pc = "headers" /\ header <= Len(file) /\ ~Header.load
    /\ UNCHANGED vars

SkipHeader ==
    /\ pc = "headers" /\ header <= Len(file) /\ ~Header.load
    /\ header' = header + 1
    /\ UNCHANGED <<pagingVars, pc, file, left, data_end, contents, processes, running>>

\* Mutant: rounded down.
amount_pages_to_map_down(h) == h.memsz \div PAGE_SIZE

amount_pages_to_map(h) == (h.memsz \div PAGE_SIZE) + 1

FoundSegment ==
    /\ pc = "headers" /\ header <= Len(file) /\ Header.load
    /\ left' = amount_pages_to_map(Header)
    /\ pc' = "map"
    /\ UNCHANGED <<pagingVars, file, header, data_end, contents, processes, running>>

\* Every turn of the loop maps the segment's first page, to a new frame.
MapSegment ==
    /\ pc = "map" /\ left > 0
    /\ MapNewPage(PageOf(Header.vaddr))
    /\ left' = left - 1
    /\ UNCHANGED <<pc, file, header, data_end, contents, processes, running>>

\* The frames of the pages that memcpy writes to.
Target(k) == Translation[PageOf(Header.vaddr + k)]
CopyFaults == \E k \in 0 .. Len(Header.bytes) - 1 : Target(k) = Invalid

memcpy ==
    [f \in Frames |-> [o \in 0 .. PAGE_SIZE - 1 |->
        LET hits == {k \in 0 .. Len(Header.bytes) - 1 :
                        Target(k) = f /\ (Header.vaddr + k) % PAGE_SIZE = o}
        IN  IF hits = {} THEN contents[f][o] ELSE Header.bytes[1 + CHOOSE k \in hits : TRUE]]]

CopySegment ==
    /\ pc = "map" /\ left = 0 /\ ~CopyFaults
    /\ contents' = memcpy
    /\ LET end == Header.vaddr + Header.memsz IN
       data_end' = IF data_end < end THEN end ELSE data_end
    /\ header' = header + 1
    /\ pc' = "headers"
    /\ UNCHANGED <<pagingVars, file, left, processes, running>>

\* A store to a page that is not mapped.  medeleg is never set, so the machine
\* handler is entered, with a stack pointer from sscratch, which nobody has written
\* before the first process runs.  The handler does not return.
CopyFault ==
    /\ pc = "map" /\ left = 0 /\ CopyFaults
    /\ pc' = "fault"
    /\ UNCHANGED <<pagingVars, file, header, left, data_end, contents, processes, running>>

\* Mutant: the heap starts in the last page of the data.
heap_start_below == data_end - (data_end % PAGE_SIZE)

heap_start == data_end + PAGE_SIZE - (data_end % PAGE_SIZE)

MapHeap ==
    /\ pc = "headers" /\ header > Len(file)
    /\ MapNewPage(PageOf(heap_start))
    /\ data_end' = heap_start
    /\ pc' = "stack"
    /\ UNCHANGED <<file, header, left, contents, processes, running>>

\* At the end of the list.  Ids count from 0, as the list grows.
add_new_process(process) == Append(processes, process)

MapStack ==
    /\ pc = "stack"
    /\ MapNewPage(STACK_PAGE)
    /\ processes' = add_new_process([id |-> Len(processes), file |-> file, heap |-> data_end])
    /\ pc' = "idle" /\ file' = <<>> /\ header' = 1 /\ data_end' = 0
    /\ UNCHANGED <<left, contents, running>>

\* The first process that is ready: all are.  switch_to_process never returns,
\* and no exception handler calls the scheduler again.
run_next_process ==
    /\ pc = "idle" /\ processes # <<>>
    /\ running' = Head(processes).id
    /\ pc' = "user"
    /\ UNCHANGED <<pagingVars, file, header, left, data_end, contents, processes>>

Loading ==
    SkipHeader \/ FoundSegment \/ MapSegment \/ CopySegment \/ CopyFault \/ MapHeap \/ MapStack

Next ==
    \/ KernelPaging
    \/ \E f \in Files : submit_new_process(f)
    \/ SkipHeader \/ FoundSegment \/ MapSegment \/ CopySegment \/ CopyFault \/ MapHeap \/ MapStack
    \/ run_next_process

\* The hart runs submit_new_process to its end.
Spec == Init /\ [][Next]_vars /\ WF_vars(Loading)
-----------------------------------------------------------------------------
Segments(f) == {h \in ToSet(f) : h.load}

SegmentPages(f) ==
    UNION {{PageOf(h.vaddr)} \cup {PageOf(a) : a \in h.vaddr .. h.vaddr + h.memsz - 1} :
              h \in Segments(f)}

\* Every page that is mapped on behalf of a process.
Footprint(p) == SegmentPages(p.file) \cup {PageOf(p.heap), STACK_PAGE}

\* No other process was given one of its segments' pages: map_page does not
\* flush the TLB, so a page that was used and is mapped again may be read and
\* written in either frame.
Undisturbed(i) ==
    \A j \in DOMAIN processes \ {i} :
        SegmentPages(processes[i].file) \cap Footprint(processes[j]) = {}

\* What the file holds of the segment stays inside the segment's first page.
FitsInPage(h) == (h.vaddr % PAGE_SIZE) + Len(h.bytes) <= PAGE_SIZE

\* The files the loader is made for: every segment in one page of its own, and
\* none in the page that submit_new_process takes for the stack.
OnePageEach(f) ==
    /\ \A h \in Segments(f) : FitsInPage(h)
    /\ STACK_PAGE \notin SegmentPages(f)
    /\ \A h, g \in Segments(f) : PageOf(h.vaddr) = PageOf(g.vaddr) => h = g

(* When a process is in the list, every byte that its file holds of every  *)
(* segment is where the program expects it, if the file has one page for   *)
(* each segment (the rest of a segment is not cleared by anybody): neither *)
(* the heap page, wherever data_end falls, nor a later segment, nor        *)
(* another process, unless it is linked to the same pages, has taken a     *)
(* page of a segment away.                                                 *)
ImageInPlace ==
    pc \in {"idle", "user"} =>
        \A i \in DOMAIN processes :
            (Undisturbed(i) /\ OnePageEach(processes[i].file)) =>
                \A h \in Segments(processes[i].file) : \A k \in 1 .. Len(h.bytes) :
                    LET a == h.vaddr + k - 1
                        f == Translation[PageOf(a)]
                    IN  f \in Frames /\ contents[f][a % PAGE_SIZE] = h.bytes[k]

(* Copying a segment meets a page that is not mapped only if the segment   *)
(* does not fit in its first page.                                         *)
FaultsOnlyAcrossPages == pc = "fault" => ~FitsInPage(Header)

(* submit_new_process returns, or the copy faults.                         *)
SubmitReturns == pc = "headers" ~> pc \in {"idle", "fault"}
=============================================================================
