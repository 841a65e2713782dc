------------------------- MODULE PhysicalAllocator -------------------------
(***************************************************************************)
(* kernel/memory/physical_allocator.cpp: the allocator of 4 KiB frames.    *)
(*                                                                         *)
(* One flag byte per frame, in a table that starts at the first page       *)
(* boundary after the kernel; FRAMES_FOR_MANAGING pages are set aside for  *)
(* it and the frames follow.  The flag table and the frames are bytes of   *)
(* the same RAM, so the model keeps RAM itself: a flag that lies beyond    *)
(* the pages set aside is also a byte of a frame somebody may hold.        *)
(* Addresses are physical; the code reaches the flags at the same offset   *)
(* through the direct map.                                                 *)
(***************************************************************************)
EXTENDS Integers

CONSTANTS
    FRAME_SIZE,           \* bytes in a frame
    FRAMES_FOR_MANAGING,  \* pages set aside for the flag bytes
    PHYSICAL_HEAP_START,  \* first byte after the kernel image
    PHYSICAL_MEMORY_END,  \* first byte after RAM
    UINT32,               \* 2^32: the frame index is multiplied in 32 bits
    DataBytes,            \* the bytes a holder stores in its frame
    MaxGrants             \* bound: outstanding grants of one frame

\* Mutant: rounds down.
allign_address_down(address, num) == address - (address % num)

(* allign_address: (address + num - 1) & ~(num - 1), num a power of two.   *)
allign_address(address, num) ==
    LET x == address + num - 1 IN x - (x % num)

PHYSICAL_HEAP_SIZE == PHYSICAL_MEMORY_END - PHYSICAL_HEAP_START

num_frames == PHYSICAL_HEAP_SIZE \div FRAME_SIZE - FRAMES_FOR_MANAGING

managed_frames_address_start == allign_address(PHYSICAL_HEAP_START, FRAME_SIZE)

first_frame_address ==
    allign_address(PHYSICAL_HEAP_START + FRAMES_FOR_MANAGING * FRAME_SIZE, FRAME_SIZE)

ASSUME ConstantsAssumption ==
    /\ FRAME_SIZE \in Nat \ {0}
    /\ FRAMES_FOR_MANAGING \in Nat \ {0}
    /\ PHYSICAL_HEAP_START \in Nat
    /\ PHYSICAL_MEMORY_END \in Nat
    /\ PHYSICAL_MEMORY_END % FRAME_SIZE = 0
    /\ num_frames \in Nat \ {0}
    /\ UINT32 \in Nat
    /\ num_frames * FRAME_SIZE <= UINT32
    /\ DataBytes \subseteq 0..255
    /\ MaxGrants \in Nat \ {0}

RAM == managed_frames_address_start .. PHYSICAL_MEMORY_END - 1

\* The indices the scan of kalloc_frame can read before it leaves RAM.
Indices == 0 .. (PHYSICAL_MEMORY_END - managed_frames_address_start) - 1

FlagAddress(i) == managed_frames_address_start + i

FrameAddress(i) == first_frame_address + ((i * FRAME_SIZE) % UINT32)

\* Mutant: the distance is counted from the flag table.
get_frame_number_from_flags(frame_address) ==
    (frame_address - managed_frames_address_start) \div FRAME_SIZE
\* Mutant: the division is forgotten.
get_frame_number_unscaled(frame_address) == frame_address - first_frame_address

get_frame_number(frame_address) ==
    (frame_address - first_frame_address) \div FRAME_SIZE

\* The frame that index i of the scan stands for, the wrap-around counted.
FrameNumber(i) == ((i * FRAME_SIZE) % UINT32) \div FRAME_SIZE

FrameBytes(i) == FrameAddress(i) .. FrameAddress(i) + FRAME_SIZE - 1

\* The frames that exist, and those of them whose flag is in the pages set aside.
Frames == 0 .. num_frames - 1
SafeFrames == {i \in Frames : FlagAddress(i) < first_frame_address}

VARIABLES
    phase,    \* "boot" before physical_allocator_init, "up" after it, "overrun"
              \* once an index past the last frame has been handed out, "fault"
              \* once a scan has run off the end of RAM
    mem,      \* the bytes of RAM from the flag table on
    grants,   \* history: grants[i] = callers that hold frame number i
    freed     \* history: kfree_frame has been called
vars == <<phase, mem, grants, freed>>

\* Bytes are bytes and no frame is freed more often than it was handed out.
TypeOK ==
    /\ phase \in {"boot", "up", "overrun", "fault"}
    /\ mem \in [RAM -> 0..255]
    /\ grants \in [Indices -> 0..MaxGrants]
    /\ freed \in BOOLEAN
-----------------------------------------------------------------------------
\* RAM holds whatever the boot loader left there.
Init ==
    /\ phase = "boot"
    /\ \E b \in DataBytes : mem = [a \in RAM |-> b]
    /\ grants = [i \in Indices |-> 0]
    /\ freed = FALSE

is_free(i) == mem[FlagAddress(i)] = 0

physical_allocator_init ==
    /\ phase = "boot"
    /\ mem' = [a \in RAM |-> IF a < FlagAddress(num_frames) THEN 0 ELSE mem[a]]
    /\ phase' = "up"
    /\ UNCHANGED <<grants, freed>>

Running == phase \in {"up", "overrun"}

\* Mutant: any free frame, not the first.
kalloc_frame_any ==
    /\ Running
    /\ \E i \in Indices :
        /\ is_free(i)
        /\ mem' = [mem EXCEPT ![FlagAddress(i)] = 1]
        /\ LET n == FrameNumber(i)
           IN  /\ grants[n] < MaxGrants
               /\ grants' = [grants EXCEPT ![n] = @ + 1]
        /\ phase' = IF i \in Frames THEN phase ELSE "overrun"
    /\ UNCHANGED freed

\* Mutant: set_pageframe_allocated is forgotten.
kalloc_frame_unmarked ==
    /\ Running
    /\ \E i \in Indices :
        /\ is_free(i)
        /\ \A j \in 0 .. i - 1 : ~is_free(j)
        /\ LET n == FrameNumber(i)
           IN  /\ grants[n] < MaxGrants
               /\ grants' = [grants EXCEPT ![n] = @ + 1]
        /\ phase' = IF i \in Frames THEN phase ELSE "overrun"
    /\ UNCHANGED <<mem, freed>>

\* The frame of the first zero flag; the scan has no bound but the end of RAM.
kalloc_frame ==
    /\ Running
    /\ \E i \in Indices :
        /\ is_free(i)
        /\ \A j \in 0 .. i - 1 : ~is_free(j)
        /\ mem' = [mem EXCEPT ![FlagAddress(i)] = 1]
        /\ LET n == FrameNumber(i)
           IN  /\ grants[n] < MaxGrants
               /\ grants' = [grants EXCEPT ![n] = @ + 1]
        /\ phase' = IF i \in Frames THEN phase ELSE "overrun"
    /\ UNCHANGED freed

\* No zero byte up to the end of RAM: the scan's next load is an access fault.
kalloc_frame_runs_off ==
    /\ Running
    /\ \A i \in Indices : ~is_free(i)
    /\ phase' = "fault"
    /\ UNCHANGED <<mem, grants, freed>>

\* Mutant: a frame nobody holds is freed.
kfree_frame_unheld(i) ==
    /\ Running
    /\ mem' = [mem EXCEPT ![FlagAddress(get_frame_number(FrameAddress(i)))] = 0]
    /\ grants' = [grants EXCEPT ![i] = @ - 1]
    /\ freed' = TRUE
    /\ UNCHANGED phase

\* The caller passes a frame it got from kalloc_frame.
kfree_frame(i) ==
    /\ Running
    /\ grants[i] > 0
    /\ mem' = [mem EXCEPT ![FlagAddress(get_frame_number(FrameAddress(i)))] = 0]
    /\ grants' = [grants EXCEPT ![i] = @ - 1]
    /\ freed' = TRUE
    /\ UNCHANGED phase

\* A holder stores into its frame: page-table entries, heap data, file contents.
Store(i) ==
    /\ Running
    /\ grants[i] > 0
    /\ \E a \in FrameBytes(i) \cap RAM, b \in DataBytes :
        mem' = [mem EXCEPT ![a] = b]
    /\ UNCHANGED <<phase, grants, freed>>

Next ==
    \/ physical_allocator_init
    \/ kalloc_frame
    \/ kalloc_frame_runs_off
    \/ \E i \in Indices : kfree_frame(i)
    \/ \E i \in Indices : Store(i)

Spec == Init /\ [][Next]_vars
-----------------------------------------------------------------------------
(* The flag of a safe frame says exactly whether the frame is held, by at *)
(* most one caller, whatever the holders of other frames store and even    *)
(* though the flags of later frames are overwritten by such stores: until  *)
(* kalloc_frame has handed out an index past the last frame.               *)
SafeFrameExclusive ==
    phase = "up" =>
        \A i \in SafeFrames :
            /\ grants[i] \in {0, 1}
            /\ mem[FlagAddress(i)] = grants[i]

(* Every frame handed out before the overrun is a whole frame inside RAM   *)
(* that shares no byte with the flag of a safe frame or with another       *)
(* frame, and no flag is a byte of the kernel: the three addresses         *)
(* physical_allocator_init computes fit together even when the kernel's    *)
(* end is not page aligned.                                                *)
FramesApart ==
    phase \in {"boot", "up"} =>
        \A i \in Indices : grants[i] > 0 =>
            /\ FrameBytes(i) \subseteq RAM
            /\ \A j \in SafeFrames :
                   /\ FlagAddress(j) \notin FrameBytes(i)
                   /\ FlagAddress(j) >= PHYSICAL_HEAP_START
            /\ \A j \in Indices \ {i} : grants[j] > 0 =>
                   FrameBytes(i) \cap FrameBytes(j) = {}

(* Until the first kfree_frame (the kernel has no caller of it) the safe   *)
(* frames are handed out in ascending order without gaps.  Paging          *)
(* relies on it: there the frames form a counter.                          *)
SequentialUntilFreed ==
    (phase = "up" /\ ~freed) =>
        \A i \in SafeFrames : grants[i] > 0 =>
            \A j \in 0 .. i - 1 : grants[j] > 0

OnlySafeGranted == \A i \in Indices : grants[i] > 0 => i \in SafeFrames

(* As long as only safe frames are held, kalloc_frame and kfree_frame      *)
(* change no byte of a frame somebody holds: the flag they write is        *)
(* outside every such frame.                                               *)
BookkeepingKeepsData ==
    [][ (phase' = "up" /\ OnlySafeGranted /\ OnlySafeGranted' /\ grants' # grants) =>
            \A i \in SafeFrames : grants[i] > 0 =>
                \A a \in FrameBytes(i) : mem'[a] = mem[a] ]_vars

(* For the safe frames the allocator implements FrameOwnership.            *)
Ownership == INSTANCE FrameOwnership
    WITH Frames <- SafeFrames,
         holders <- [i \in SafeFrames |-> grants[i]],
         overrun <- phase \in {"overrun", "fault"}
ImplementsOwnership == Ownership!Spec

(* What the sizing comment of physical_allocator_init intends (enough      *)
(* pages for one flag per frame): no frame of the heap is ever held twice. *)
FrameGrantedOnce == phase = "up" => \A i \in Frames : grants[i] <= 1
=============================================================================
