# TLA+ models of tetraOS

tetraOS is a small RISC-V (RV64, Sv48) kernel with a virtio block driver, an
ext2 reader, an ELF loader and a user-space C library. This directory models
it from its source, from the first instruction of `boot.s` to the shell's
`printf`, checks the models with TLC on small instances and proves the safety
properties of all of them with TLAPS for all sizes.

Run a model with `tlc -workers 2 -config X.cfg M` and the proofs with
`tlapm M_proofs.tla`. `PROJECT.json` lists the runs, the source lines every
definition stands for, one mutant per checked property, and the hazards.

## 1. The system

One hart runs the kernel; `boot.s` parks the others. Interrupts are never
enabled, so kernel code is preempted by nobody: a kernel function runs to its
end. Two things do run beside it: the virtio device, which reads and writes
memory on its own, and user processes, which enter the kernel through
synchronous traps only.

| Component | State | Operations | Uses |
| --- | --- | --- | --- |
| frame allocator (`memory/physical_allocator.cpp`) | one flag byte per frame, behind the kernel image | init, `kalloc_frame`, `kfree_frame` (no caller) | RAM |
| paging (`memory/paging.cpp`, `memory.cpp`) | page tables in frames, root pointer | `paging_init`, `map_page`, software walk | frames |
| kernel heap (`memory/virtual_allocator.cpp`, `libk/list.cpp`) | free block (size and last bit in one word), end of the mapped heap | init, `kalloc`; `delete` does nothing | frames, paging |
| block driver (`drivers/virtio/blk.cpp`) | virtqueue, one request at a time | `init`, `read`, `read_blocks`, `write_blocks` | heap, paging (physical addresses), device |
| ext2 and VFS (`drivers/ext2.cpp`, `vfs.cpp`) | superblock, group descriptors, next descriptor | mount, `get_file_size`, `read_file`, `open_file` | block driver, heap |
| loader and scheduler (`process/`) | the one address space, process list, current process | `submit_new_process`, `run_next_process` | all of the above |
| boot (`boot.s`, `os.cpp`) | six page tables in `.bss` | park harts, map the image and the UART, switch, `os_start` | - |
| traps and system calls (`boot.s`, `exception.*`, `process.s`, `syscall.cpp`) | `sscratch`, kernel stack, saved registers | entry, handler, way back; `read`, `write`, `open`, `getcwd` | VFS, UART |
| UART, printf (`libk/`) | receive register, log level | character I/O | - |
| `tlibc`, shell | user heap page, printf's buffer | `malloc`, `printf`, `strcmp`, commands | system calls |
| console driver | device queues | none that anybody calls | - |

What is hard about it:

- *Shared bytes.* Flags, page tables, heap and process pages are all frames of
  the same RAM. An error in one component shows as a change in another.
- *Long call sequences.* Heap growth, table creation and loading are
  interleaved and draw from one allocator. Nothing is ever freed.
- *The device.* It works concurrently on descriptors the driver reuses for
  every operation; the driver polls one byte and never reads the used ring.
- *Two stacks.* Every trap swaps two stack pointers, a fault inside a system
  call too, and the way back starts from inside the C handler's frame.
- *Hidden caches.* The hart keeps translations; the code fences once.
- *Limits and arithmetic.* 8 pages of flags, 32-bit frame offsets, 16-bit ring
  indices, 10 directory entries, one last-level table at boot, one page of
  stack below which instructions lie, sectors against bytes, pages against
  segments.
- *Strings without an end.* `read` into a full buffer and the working directory
  store no zero.
- *Ignored results.* `init`, block status, failed lookups.

What makes each part correct: a frame has one holder; the tables are a tree
and the walk is the mapping; chunks are disjoint and backed; a disk operation
happens exactly once between call and return; a path leads to the inode it
names; a program's bytes are where it was linked to; what is mapped at boot is
what the kernel touches; a system call gives back the stack pointers; what a
process prints and reads arrives whole.

## 2. Modules

| Module | Models | Extends |
| --- | --- | --- |
| `PhysicalAllocator` | the frame allocator on the bytes of RAM | |
| `FrameOwnership` | abstract: each frame has at most one holder, until the overrun | |
| `Paging` | page tables as words of frames, `map_page`, the walk | |
| `AddressSpace` | abstract: a partial function from pages to frames | |
| `KernelHeap` | the heap on top of `Paging`, with the loader taking frames in between | `Paging` |
| `VirtioBlk`, `MCVirtioBlk` | driver and device, one descriptor at a time | |
| `SyncDisk` | abstract: call, perform once, return | |
| `Ext2`, `MCExt2` | mount, path walk, the three callers | |
| `Loader`, `MCLoader` | `submit_new_process` turn by turn, `run_next_process` | `Paging` |
| `Tlb` | the hart's cache of translations and the one fence | `Paging` |
| `Boot` | `boot.s` up to `os_start`, one page per turn | |
| `Traps` | the way into the kernel and back, on the words of the kernel stack | |
| `Userland`, `MCUserland` | `tlibc`, shell, system calls, `read` and UART | `Traps` |
| `*_proofs` | the theorems of a component | the component (`Paging_proofs` is also about `Tlb`; `KernelHeap_proofs` and `Loader_proofs` build on it) |

Operators and actions keep the names of the functions they stand for. Loops
whose turns matter to somebody else (growth of the heap, mapping of a segment,
scan of a path) are one action per turn; other calls are one step, which is
sound because nothing preempts the kernel. History variables (`grants`,
`freed`, `level`, `mapped`, `chunks`, `served`) record what happened and are
read by no guard, with three exceptions: `grants` says who
may free a frame or store into it, `MaxGrants` bounds it, and `EnsureEntry` computes the `level` of a
new table from that of its parent. An operator marked "Mutant" is a plausible mistake in the
operator below it; nothing uses it but the mutation runs.

**PhysicalAllocator.** `mem` holds the bytes from the flag table to the end of
RAM, so a flag beyond the pages set aside *is* a byte of a frame, and `Store`
(a holder writing into its frame) can change it. `kalloc_frame` takes the first
zero byte wherever the scan finds it; the frame's address wraps at 2^32 as in
the code. A frame is *safe* when its flag lies in the pages set aside. The
phase becomes `overrun` when an index past the last frame has been handed out
and `fault` when the scan leaves RAM.

**Paging.** `table[f][i]` is word `i` of frame `f` read as a page-table entry.
`map_page` is the composition of three times "allocate the next table unless
the entry is valid" and a final store, as in the code. Frames come in ascending
order, which is `SequentialUntilFreed` of the allocator (nothing calls
`kfree_frame`). `StaleFrames` are frames in which the boot loader left words
that look valid. Permission flags of entries are left out.

**Tlb.** The hart may cache the walk of any page at any time, "not mapped"
included, and may forget it at any time. Before `paging_init` the walk is that
of the boot tables, which nobody cleared, so anything may be cached. The only
fence is at the end of `switch_to_new_page_table`; `map_page` has none.
Outdated translations are therefore reachable, and the properties say of which
pages and how far they lead.

**Boot.** One step maps one page, in the six tables of `.bss`, which hold zeros
or garbage. There is one table of the last level: `BootMapExact` is exact about
what an image that outgrows it loses. `ImageFits` is the condition on the image
under which `EarlyAccessMapped` holds: image and extra pages within one table,
and enough extra pages for flags and the first frames. The repository's image
fits as long as it has at most 232 pages and RAM its 2 GiB.

**Traps.** Addresses are words: `0 .. STACK_WORDS - 1` is the kernel stack,
below it are instructions of `boot.s` (the trap entry among them), above it is
the user's stack. `FRAME` and `DEPTH`, the words of `machine_exception_handler`
and of what it calls, are the compiler's and hence parameters.
`jump_back_to_userspace` is called with the handler's frame still on the stack.
The entry runs in machine mode, which does not translate, and stores through
the kernel's virtual stack pointer: the bus may drop the upper address bits,
ignore the store or fault, and the model has all three. The model ends when an
entry finds its own instructions overwritten.

**Userland.** A program is a sequence of library calls, `shell_main` among
them. The heap page is a sequence of cells, each a machine word or a character;
`malloc`'s header overlays the free item it is made from, as in `malloc.c`. The
frame of the heap page is taken to hold zeros. A string ends at a zero, if
nothing else inside the word that follows its chunk: `malloc` stores
`0xDEADBEEF` there, or a little less, and up to four bytes of it are read as
characters (`bytes_read`, on the bytes of the word). The program's texts are
their lengths, `TEXT` that of the shell's longest; number conversion and the kernel's own messages are left out, and
what a program does with the callee-saved registers it gets back wrong
(`trap_registers`) is not followed into its control flow. `getcwd` is called
with a buffer that holds the path, as `pwd` does. The UART has one receive
register; a character that finds it full is lost.

**KernelHeap.** The free block's word is kept as the code stores it, size and
last bit together, over a word nobody initialised. `kalloc` is entry, growth
turns and split. `LoadPage` is the loader taking frames in between. Chunks that
span pages need not be physically contiguous: `HeapBacked` and `HeapFramesStay`
say nothing of it, and `VirtioBlk` takes every placement into account.

**VirtioBlk.** The driver's stores to the three descriptors, the index and the
notify register are separate steps, and the device's reads of the descriptors
too. The device may look at the ring at any time, notified or not; it may fail
any request. Requests and buffers come from a heap that frees nothing, so two
of each, used in turn, suffice. After a failed `init` the next operation uses
an unset queue pointer; the model ends there (`wild`). Memory is sequentially
consistent.

A temporary buffer is contiguous in the heap, but its pages lie in the frames
the heap got (`Places`). The driver hands the device the physical address of
its first byte and a 32-bit length, and the device counts on from there: byte
`k` of the buffer gets byte `Transferred(p, k)` of the transfer, if that is one.
The rest of the transfer goes to frames of somebody else, which are not in the
model, and a write stores what lies there. A request's header and status are
taken to lie in one page each with the address computed for them.

`ReadDelivers` is the promise of the comment on `read` ("Read length bytes
starting at the offset into buffer") under the three conditions it needs: the
device carried the request out, the bytes end within the `length / 512 + 1`
sectors asked for (`Covered`), the pages of the buffer are in neighbouring
frames (`Neighbours`). `SuccessMeansDone` is the promise without conditions,
which `blk_error` refutes. All reads of `ext2.cpp` are `Covered`; a read of a
4 KiB block needs nine sectors and hence `Neighbours`.

**Ext2.** One step is one turn of the loop over the path. The disk is an image
of directories and regular files in inode groups, `first` entries of a directory
being in its first block, with any superblock of `SuperBlocks`. What the driver
takes for granted about the disk is computed and not assumed: it reads the
group descriptors from block 1, which is the superblock's own for blocks of
1 KiB (`DescriptorsRead`); it takes inodes to be `sizeof(EXT2Inode)` apart
(`InodeTable`); it leaves out a last group that is not full (`amount_groups`);
it has room for eight groups; it looks at ten entries of the first block
(`get_inode_in_dir`). Where one of these fails the value read is `Wild` and the
model ends. `Child`, the step of the reference walk, looks at all entries of a
directory, so `LookupExact` has to name the entries that the driver overlooks:
get_inode_from_dir's comment ("searches the path for the inode of the file the
path points to", `ext2.cpp:124-127`) knows no such limit. Block reads are taken
to meet the conditions of `ReadDelivers`. A name looked up behind the last entry of a
directory meets the header of the next heap chunk, which only an empty name
matches; the model ends there.

**Loader.** `contents` are the bytes in the frames. Each turn of the mapping
loop maps the same page, as the code does. The copy faults when it meets a page
that is not mapped: the fault goes to the machine handler, since `medeleg` is
never set, which ends the model. The part of a segment that the file does not
hold (`.bss`) is mapped and cleared by nobody; `contents` leaves it as it was.

## 3. Runs

Passing runs (each finishes within a minute):

- `phys`: two-byte frames, one page of flags for more frames than it has
  bytes, unaligned kernel end, 32-bit arithmetic scaled to 8 so that the index
  wraps inside RAM. All three of flag overrun, wrap and scan past the end occur.
- `paging`: radix 2, four levels, 13 frames: enough for several pages that
  share all, some or none of their tables, remapping included, with the
  translations of two pages under one table cached.
- `heap`: 4 heap pages under two last-level tables, requests that fit, do not
  fit and need two pages, size 0 included; both values of the garbage bit.
- `blk`: a disk of four three-byte sectors, indices modulo 4, aligned and
  unaligned reads and one that crosses into a sector more than its length says,
  pages of four bytes, so that a buffer has one to three of them, in
  neighbouring frames and in others, a write, a refused write, errors, failed
  init.
- `boot`: eight entries to a table; images of 2 to 8 pages that start at the
  first entry or further on, so that image and extra pages fit, just fit and
  wrap around; clean and garbage tables; a second hart.
- `user`: the shell with up to four characters typed at any moment, all pairs
  of calls that allocate, print, open or use an address that is not mapped, and
  two programs that exhaust heap page and kernel stack. All of them are careful
  (section 4), which TLC evaluates as an assumption of `MCUserland`. Three registers, a
  stack that is nearly empty or nearly full at the start: the latter is used up
  by the third call. Bytes count modulo 3, so that the magic word has four that
  are not zero, and `printf`'s buffer is exactly as long as text, input and
  these four: with one cell less `FillsOneChunk` fails.
- `ext2`: all 1093 paths of up to six characters over `/`, `a`, `b`, on an
  image with three groups, a directory with more entries than are looked at and
  one with an entry in its second block. Six superblocks: the third group full,
  and not full; no full group; nine groups for eight slots; blocks of 1 KiB;
  inodes of 128 bytes. `LookupExact` compares with a walk of the directories,
  name by name; `WildHasACause` lists when the driver leaves the disk's data.
- `loader`: two processes from 32 files, two bytes to a page.

Deadlock checking is off where a bound, a fault or the end of the program ends
behaviours; each `.cfg` says which.

Runs that find a disagreement with a comment (details in `PROJECT.json`,
`findings`): `phys_sizing` (a frame is granted twice once the flag table has
outgrown its 8 pages), `paging_stale` (an unmapped address is translated
through a page table that was not cleared: the walk goes through the frame the
stale word names and ends in another), `blk_error` (a failed request is
reported as success; the short read and the scattered buffer that its calls
include break the same promise), `trap_registers` (the registers stored on entry are not
the ones loaded on return).

**Fairness.** Weak fairness of kernel steps in `heap`, `blk`, `ext2`, `loader`
and `user`: the hart executes the kernel's code and nothing preempts it.
Nothing is assumed of who types, so `SyscallReturns` excepts a `read` that waits
for a character, and nothing of the process. In `blk`, weak
fairness of a device that is working on a chain, and of a *notified* device
fetching the next one; a device that was not notified need never look. This is
what virtio promises, and without it a polling driver cannot return.

## 4. Proofs

All theorems hold for every value of the constants that satisfies the named
assumption of the module (`ConstantsAssumption`, `PagingAssumption`,
`HeapAssumption`, `TlbAssumption`, `BlkAssumption`, `BootAssumption`,
`TrapsAssumption`, `UserlandAssumption`, `Ext2Assumption`,
`LoaderAssumption`), and under the further hypotheses given below.

- `PhysicalAllocator_proofs`: type correctness, `SafeFrameExclusive`,
  `FramesApart`, `SequentialUntilFreed`, `BookkeepingKeepsData`, and the
  implementation of `FrameOwnership`. The core is the layout: the rounded
  addresses order kernel, flags and frames, and every frame is whole and in RAM
  (`FrameLayout`). The inductive invariant adds to `SafeFrameExclusive` that
  before the overrun only frames that exist are held; otherwise a holder's
  store could hit anything. `SequentialUntilFreed` is inductive
  relative to it. The assumption includes that the frames' offsets fit 32 bits, which
  holds for the 2 GiB of `linker.ld`.
- `Paging_proofs`, for frames that hold zeros (`StaleFrames = {}`; with others
  `UnmappedIsNull` is false, see `paging_stale`): `TablesFormTree`,
  `PagesApart`, `UnmappedIsNull`, and the implementation of `AddressSpace`. The
  invariant `MemInv` is about a memory *value* so that it can be carried
  through the stages of one `map_page`: levels agree with the allocator, only
  tables have valid entries, children are one level below, every frame has one
  parent, gigabyte leaves are only in the direct map. `VpnInjective`
  shows that the four indices determine the page; a link to a fresh frame changes
  no existing walk but the one it is for. On top of it `MappedOnceIsCurrent` and
  `CachedApart` of `Tlb`, which are inductive together with it: a frame, once
  mapped, is never mapped elsewhere, because `map_page` takes a fresh one.
- `KernelHeap_proofs`, on top of the paging invariant: `HeapTypeOK`,
  `FreeBlockReachesEnd`, `ChunksDisjoint`, `HeapBacked`, `HeapFramesStay`. The
  invariant adds that a pending request fits the address range of the heap and
  that heap pages are neither in the direct map nor the loader's.
- `VirtioBlk_proofs`: types, `ChainUntorn`, `RingInStep`, `ReadDelivers` and
  the implementation of `SyncDisk`. The invariant says where driver and device
  stand to each other (level, one chain behind, waiting, moved, finished), what
  of the chain has been written and read, and what is in the buffer. One
  hypothesis: sectors and lengths fit 32 bits (`FitsIn32Bits`). The buffer may
  lie anywhere, so the invariant has it as `Received` makes it, whatever frames
  that involves; only for neighbouring frames is that the order of the disk
  (`ReceivedInOrder`), which `ReadDelivers` has as a condition.
  `ByteOfPartition` ties sector and offset back to the byte the caller asked
  for.
- `Boot_proofs`: `BootMapExact` and `EarlyAccessMapped`. The invariant lists
  the entries of every page mapped so far; `Indices` computes the four indices
  from the digits of the page, and `SameRemainder` shows that the one entry a
  later page can take away is that of the page a table's length before. The
  UART's entry is another one because RAM begins above the first gigabyte
  (part of `BootAssumption`).
- `Loader_proofs`, on top of the paging invariant and with its hypothesis:
  `ImageInPlace`, about the bytes that the file holds, and
  `FaultsOnlyAcrossPages`. The invariant `LInv` says which bytes are in place at every turn of `submit_new_process`: the segments of the
  headers already passed, and those of all listed processes that share no page
  with another. Mapping a page leaves the bytes of all other pages alone
  (`MapKeeps`), a copy changes the frames of its own page only, and neither heap
  page nor stack page is one of a segment: `data_end` is behind every segment
  loaded, and `OnePageEach` excludes the stack page.
- `Ext2_proofs`: `ScanInBounds`, `LookupExact` and `WildHasACause`, for inodes
  in any group, full or not, and every superblock. The
  reference walk `Follow` is a recursive function over the characters of the
  path; the invariant `EInv` says that after every turn the scan's inode and the
  name it has collected are those of the walk at the same character: a
  scan that goes on has found every name so far. A lookup that fails had no entry or an overlooked one
  (`MissedOverlooked`), and an inode that cannot be read lies in a group without
  descriptor or on a disk of another layout. The facts
  about `Follow` that need induction (`NotFoundStays`) are proved by a least
  counterexample: `NatMin`, that a set of numbers has a least element, comes from
  the library's `WFMin`, which is first-order. The assumption says that a
  directory holds a name once, as every ext2 image does: the driver takes the
  first entry that matches, the reference any.
- `Userland_proofs`, for all programs: `StackPointersInStep`, `CodeIntact` and
  `UserChunksDisjoint`. Every step of `Userland` is one of the trap path or
  leaves it alone (`StepsAreTrapSteps`), so the first two are proved of the
  trap path only; their invariant gives both stack pointers at every position.
- `Userland_proofs`, for programs that use `tlibc` the way the shell does
  (`CarefulPrograms`): `InputKept`, `ConsoleFaithful` and the action property
  `FillsOneChunk`. Neither `printf` nor `read` nor `getcwd` compares anything
  with the size of the buffer, so the caller has to: `Careful` says of a program
  that it reads no more than its latest chunk holds, calls `getcwd` with a chunk
  that the path fits in, and prints a chunk only if `printf`'s buffer holds it
  together with the text around it and the four bytes of the word behind a
  string without a zero. `ShellIsCareful` proves it of the shell's `main` from
  `TEXT + INPUT_SIZE + MAGIC_BYTES <= BUFFER_SIZE` (36 + 20 + 4 against 200);
  what `pwd` needs is part of `CarefulPrograms` (40 + 4 against 200).
  The invariant `BInv` adds to the order of the chunks that the free item begins
  with a word, which ends every string at the end of its chunk (`StringFacts`),
  where the latest `read` is and that no later call writes there, and what of
  the formatted text is still in the buffer while the kernel is on its way to
  the console.

Only model-checked: the liveness properties `KallocReturns`,
`OperationReturns`, `LookupReturns`, `SubmitReturns` and `SyscallReturns`.
Fairness and `ENABLED` are out of the prover's reach.

## 5. Not modelled

- Permission bits of page table entries, privilege and memory protection
  registers, weak memory ordering: see the hazards that name them.
- The virtio console driver: nothing calls it, so its states are not states of
  the program. `context.c` and `arch/`: unused as well.
- Conversion of numbers, log levels and the kernel's messages: formatting that
  nothing else depends on. The baud rate of the UART.
- ext2 file contents; files are read as if their blocks were contiguous. Inodes
  that are neither directories nor regular files (the driver's test of `i_mode`
  takes a block device for a directory).
- The place of requests and of the virtqueue in physical memory: requests are
  taken to lie inside one page, and the queue where the driver's comment wants
  it.
- Toolchain and scripts.

## 6. Plan

Every component that the kernel reaches is modelled, every run passes, and every
invariant, action property and refinement that a run checks is a theorem. Next:

1. What the hypotheses of the proofs exclude, stated as theorems: which part of
   `ImageInPlace` survives stale frames, and how far `printf` can write for a
   program that is not careful.
2. The remaining hazards without a property: the ignored result of `init`, and
   the missing fence between status and buffer.
