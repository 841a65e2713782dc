---------------------- MODULE PhysicalAllocator_proofs ----------------------
(***************************************************************************)
(* Proofs about PhysicalAllocator for every size of RAM, of a frame and of *)
(* the flag area: the layout physical_allocator_init computes, the         *)
(* exclusiveness of safe frames, and the implementation of FrameOwnership. *)
(***************************************************************************)
EXTENDS PhysicalAllocator, TLAPS

(* Division with remainder, as uint64_t does it.                           *)
LEMMA DivMod ==
    ASSUME NEW x \in Nat, NEW n \in Nat \ {0}
    PROVE  /\ x \div n \in Nat
           /\ x % n \in Nat
           /\ x % n < n
           /\ x = n * (x \div n) + (x % n)
BY SMT

(* A product with a positive factor keeps the order.                       *)
LEMMA MulMono ==
    ASSUME NEW a \in Int, NEW b \in Int, NEW n \in Nat \ {0}, a * n < b * n
    PROVE  a < b
BY SMT

\* Multiplication by a natural number is monotone.
LEMMA MulMonoLe ==
    ASSUME NEW a \in Int, NEW b \in Int, NEW n \in Nat \ {0}, a <= b
    PROVE  a * n <= b * n
BY SMT

(* allign_address returns the first multiple of num from address on.       *)
LEMMA AllignAddress ==
    ASSUME NEW address \in Nat, NEW num \in Nat \ {0}
    PROVE  /\ allign_address(address, num) \in Nat
           /\ allign_address(address, num) >= address
           /\ allign_address(address, num) < address + num
           /\ \E q \in Nat : allign_address(address, num) = num * q
<1> DEFINE x == address + num - 1
<1>1. x \in Nat
    OBVIOUS
<1>2. /\ x \div num \in Nat
      /\ x % num \in Nat
      /\ x % num < num
      /\ x = num * (x \div num) + (x % num)
    BY <1>1, DivMod
<1>3. allign_address(address, num) = x - (x % num)
    BY DEF allign_address
<1>4. allign_address(address, num) = num * (x \div num)
    <2> DEFINE p == num * (x \div num)
    <2>1. p \in Nat
        BY <1>2
    <2>2. x = p + (x % num)
        BY <1>2
    <2> HIDE DEF p, x
    <2>3. x - (x % num) = p
        BY <1>1, <1>2, <2>1, <2>2
    <2> QED BY <1>3, <2>3 DEF p
<1> HIDE DEF x
<1>5. x - (x % num) \in Int
    BY <1>1, <1>2
<1>6. x - (x % num) >= address /\ x - (x % num) < address + num
    BY <1>1, <1>2 DEF x
<1>7. x \div num \in Nat /\ allign_address(address, num) = num * (x \div num)
    BY <1>2, <1>4
<1>8. \E q \in Nat : allign_address(address, num) = num * q
    BY <1>7, Zenon
<1>9. /\ allign_address(address, num) \in Nat
      /\ allign_address(address, num) >= address
      /\ allign_address(address, num) < address + num
    BY <1>3, <1>5, <1>6
<1> QED BY <1>8, <1>9

(* The numbers physical_allocator_init computes are addresses and counts.  *)
LEMMA LayoutTypes ==
    /\ FRAME_SIZE \in Nat \ {0}
    /\ num_frames \in Nat \ {0}
    /\ managed_frames_address_start \in Nat
    /\ first_frame_address \in Nat
    /\ PHYSICAL_MEMORY_END \in Nat
    /\ managed_frames_address_start >= PHYSICAL_HEAP_START
    /\ first_frame_address >= PHYSICAL_HEAP_START + FRAMES_FOR_MANAGING * FRAME_SIZE
    /\ first_frame_address < PHYSICAL_HEAP_START + FRAMES_FOR_MANAGING * FRAME_SIZE + FRAME_SIZE
    /\ \E q \in Nat : first_frame_address = FRAME_SIZE * q
    /\ managed_frames_address_start < first_frame_address
<1>1. FRAME_SIZE \in Nat \ {0} /\ FRAMES_FOR_MANAGING \in Nat \ {0}
      /\ PHYSICAL_HEAP_START \in Nat /\ PHYSICAL_MEMORY_END \in Nat
      /\ num_frames \in Nat \ {0}
    BY ConstantsAssumption
<1>2. FRAMES_FOR_MANAGING * FRAME_SIZE \in Nat /\ FRAMES_FOR_MANAGING * FRAME_SIZE >= FRAME_SIZE
    BY <1>1
<1>3. PHYSICAL_HEAP_START + FRAMES_FOR_MANAGING * FRAME_SIZE \in Nat
    BY <1>1, <1>2
<1>4. /\ managed_frames_address_start \in Nat
      /\ managed_frames_address_start >= PHYSICAL_HEAP_START
      /\ managed_frames_address_start < PHYSICAL_HEAP_START + FRAME_SIZE
    BY <1>1, AllignAddress DEF managed_frames_address_start
<1>5. /\ first_frame_address \in Nat
      /\ first_frame_address >= PHYSICAL_HEAP_START + FRAMES_FOR_MANAGING * FRAME_SIZE
      /\ first_frame_address < PHYSICAL_HEAP_START + FRAMES_FOR_MANAGING * FRAME_SIZE + FRAME_SIZE
      /\ \E q \in Nat : first_frame_address = FRAME_SIZE * q
    BY <1>1, <1>3, AllignAddress DEF first_frame_address
<1>6. managed_frames_address_start < first_frame_address
    BY <1>1, <1>2, <1>4, <1>5
<1> QED BY <1>1, <1>4, <1>5, <1>6

(* The last frame ends inside RAM.                                         *)
LEMMA FramesFit ==
    first_frame_address + num_frames * FRAME_SIZE <= PHYSICAL_MEMORY_END
<1> DEFINE size == PHYSICAL_MEMORY_END - PHYSICAL_HEAP_START
           all == size \div FRAME_SIZE
<1>1. FRAME_SIZE \in Nat \ {0} /\ FRAMES_FOR_MANAGING \in Nat \ {0}
      /\ PHYSICAL_HEAP_START \in Nat /\ PHYSICAL_MEMORY_END \in Nat
      /\ num_frames \in Nat \ {0} /\ PHYSICAL_MEMORY_END % FRAME_SIZE = 0
    BY ConstantsAssumption
<1>2. num_frames = all - FRAMES_FOR_MANAGING /\ size \in Int
    BY <1>1 DEF num_frames, PHYSICAL_HEAP_SIZE
<1>3. all * FRAME_SIZE <= size /\ all \in Int
    BY <1>1, <1>2
<1>4. num_frames * FRAME_SIZE = all * FRAME_SIZE - FRAMES_FOR_MANAGING * FRAME_SIZE
    <2> HIDE DEF all
    <2> QED BY <1>1, <1>2, <1>3
<1>5. PICK q \in Nat : first_frame_address = FRAME_SIZE * q
    BY LayoutTypes
<1>6. PHYSICAL_MEMORY_END = FRAME_SIZE * (PHYSICAL_MEMORY_END \div FRAME_SIZE)
      /\ PHYSICAL_MEMORY_END \div FRAME_SIZE \in Nat
    BY <1>1, DivMod
<1> DEFINE e == PHYSICAL_MEMORY_END \div FRAME_SIZE
<1>7. first_frame_address + num_frames * FRAME_SIZE < PHYSICAL_MEMORY_END + FRAME_SIZE
    <2> DEFINE a == all * FRAME_SIZE
               b == FRAMES_FOR_MANAGING * FRAME_SIZE
               c == num_frames * FRAME_SIZE
    <2>1. a \in Int /\ b \in Int /\ c \in Int
        BY <1>1, <1>3
    <2>2. first_frame_address \in Nat /\ first_frame_address < PHYSICAL_HEAP_START + b + FRAME_SIZE
        BY LayoutTypes
    <2>3. a <= PHYSICAL_MEMORY_END - PHYSICAL_HEAP_START /\ c = a - b
        BY <1>3, <1>4
    <2> HIDE DEF a, b, c
    <2>4. first_frame_address + c < PHYSICAL_MEMORY_END + FRAME_SIZE
        BY <1>1, <2>1, <2>2, <2>3
    <2> QED BY <2>4 DEF c
<1>8. (q + num_frames) * FRAME_SIZE < (e + 1) * FRAME_SIZE
    <2> HIDE DEF e
    <2> QED BY <1>1, <1>5, <1>6, <1>7 DEF e
<1>9. q + num_frames < e + 1
    BY <1>1, <1>6, <1>8, MulMono
<1>10. (q + num_frames) * FRAME_SIZE <= e * FRAME_SIZE
    BY <1>1, <1>6, <1>9, MulMonoLe
<1> QED
    <2> HIDE DEF e
    <2> QED BY <1>1, <1>5, <1>6, <1>10 DEF e

(* An index below num_frames is not wrapped: its frame has that number,    *)
(* lies in RAM and behind the flags of the safe frames.                    *)
LEMMA FrameLayout ==
    ASSUME NEW i \in Frames
    PROVE  /\ i \in Indices
           /\ FrameAddress(i) = first_frame_address + i * FRAME_SIZE
           /\ FrameNumber(i) = i
           /\ get_frame_number(FrameAddress(i)) = i
           /\ FrameBytes(i) \subseteq first_frame_address .. PHYSICAL_MEMORY_END - 1
           /\ FrameBytes(i) \subseteq RAM
<1> DEFINE p == i * FRAME_SIZE
<1>1. i \in Nat /\ i < num_frames /\ num_frames \in Nat /\ FRAME_SIZE \in Nat \ {0}
    BY LayoutTypes DEF Frames
<1>2. p \in Nat /\ (i + 1) * FRAME_SIZE = p + FRAME_SIZE
    BY <1>1
<1>3. (i + 1) * FRAME_SIZE <= num_frames * FRAME_SIZE
    BY <1>1, MulMonoLe
<1>4. UINT32 \in Nat /\ num_frames * FRAME_SIZE <= UINT32 /\ num_frames * FRAME_SIZE \in Nat
    BY <1>1, ConstantsAssumption
<1>5. p \div FRAME_SIZE = i
    <2>1. /\ p \div FRAME_SIZE \in Nat
          /\ p % FRAME_SIZE \in Nat
          /\ p % FRAME_SIZE < FRAME_SIZE
          /\ p = FRAME_SIZE * (p \div FRAME_SIZE) + (p % FRAME_SIZE)
        BY <1>1, <1>2, DivMod
    <2> DEFINE d == p \div FRAME_SIZE
    <2>2. d * FRAME_SIZE < (i + 1) * FRAME_SIZE
        <3> HIDE DEF d
        <3> QED BY <1>1, <1>2, <2>1 DEF d
    <2>3. i * FRAME_SIZE < (d + 1) * FRAME_SIZE
        <3>1. i * FRAME_SIZE = FRAME_SIZE * d + (p % FRAME_SIZE)
            BY <2>1
        <3> HIDE DEF d
        <3>2. (d + 1) * FRAME_SIZE = FRAME_SIZE * d + FRAME_SIZE
            BY <1>1, <2>1 DEF d
        <3> QED BY <1>1, <2>1, <3>1, <3>2 DEF d
    <2>4. d < i + 1 /\ i < d + 1
        BY <1>1, <2>1, <2>2, <2>3, MulMono
    <2> QED BY <1>1, <2>1, <2>4
<1> DEFINE t == num_frames * FRAME_SIZE
<1>6. p + FRAME_SIZE <= t /\ t <= UINT32 /\ t \in Nat
    BY <1>2, <1>3, <1>4
<1>7. first_frame_address + t <= PHYSICAL_MEMORY_END
    BY FramesFit
<1>8. num_frames <= t
    BY <1>1
<1> HIDE DEF p, t
<1>9. p % UINT32 = p
    BY <1>1, <1>2, <1>4, <1>6
<1>10. FrameAddress(i) = first_frame_address + p /\ FrameNumber(i) = i
    BY <1>5, <1>9 DEF FrameAddress, FrameNumber, p
<1>11. get_frame_number(FrameAddress(i)) = i
    <2>1. FrameAddress(i) - first_frame_address = p
        BY <1>2, <1>10, LayoutTypes
    <2> QED BY <1>5, <2>1 DEF get_frame_number
<1>12. FrameBytes(i) \subseteq first_frame_address .. PHYSICAL_MEMORY_END - 1
    BY <1>1, <1>2, <1>6, <1>7, <1>10, LayoutTypes DEF FrameBytes
<1>13. i \in Indices /\ FrameBytes(i) \subseteq RAM
    BY <1>1, <1>6, <1>7, <1>8, <1>12, LayoutTypes DEF Indices, RAM
<1> QED BY <1>10, <1>11, <1>12, <1>13 DEF p
-----------------------------------------------------------------------------
(* Before the overrun only existing frames are held, and nobody holds one  *)
(* before physical_allocator_init.                                         *)
HeldFramesExist ==
    /\ phase \in {"boot", "up"} => \A i \in Indices : grants[i] > 0 => i \in Frames
    /\ phase = "boot" => \A i \in Indices : grants[i] = 0

(* SafeFrameExclusive alone is not inductive: a store by the holder of an  *)
(* index that is no frame could hit anything, so the invariant also says   *)
(* that there is none.                                                     *)
IInv == TypeOK /\ HeldFramesExist /\ SafeFrameExclusive

\* Every flag the scan reads is a byte of RAM.
LEMMA FlagInRAM ==
    ASSUME NEW i \in Indices
    PROVE  FlagAddress(i) \in RAM
BY LayoutTypes DEF Indices, FlagAddress, RAM

\* Every index has a flag of its own.
LEMMA FlagInjective ==
    ASSUME NEW i \in Indices, NEW j \in Indices, FlagAddress(i) = FlagAddress(j)
    PROVE  i = j
BY LayoutTypes DEF Indices, FlagAddress

\* The flag of a safe frame lies below the frames and is cleared by the init loop.
LEMMA FlagOfSafeFrame ==
    ASSUME NEW i \in SafeFrames
    PROVE  /\ i \in Frames /\ i \in Indices /\ i \in Nat
           /\ FlagAddress(i) < FlagAddress(num_frames)
           /\ FlagAddress(i) < first_frame_address
<1>1. i \in Frames /\ i \in Nat /\ i < num_frames /\ FlagAddress(i) < first_frame_address
    BY LayoutTypes DEF SafeFrames, Frames
<1> QED BY <1>1, FrameLayout, LayoutTypes DEF FlagAddress

\* The initial state satisfies the invariant.
LEMMA InitIInv == Init => IInv
<1> SUFFICES ASSUME Init PROVE IInv
    OBVIOUS
<1>1. PICK b \in DataBytes : mem = [a \in RAM |-> b]
    BY DEF Init
<1>2. b \in 0..255 /\ MaxGrants \in Nat
    BY ConstantsAssumption
<1>3. TypeOK
    <2>1. mem \in [RAM -> 0..255]
        BY <1>1, <1>2
    <2>2. 0 \in 0..MaxGrants
        BY <1>2
    <2>3. grants \in [Indices -> 0..MaxGrants]
        BY <2>2 DEF Init
    <2> QED BY <2>1, <2>3 DEF Init, TypeOK
<1>4. HeldFramesExist /\ SafeFrameExclusive
    BY DEF Init, HeldFramesExist, SafeFrameExclusive
<1> QED BY <1>3, <1>4 DEF IInv

\* physical_allocator_init keeps the invariant.
LEMMA InitStep == IInv /\ physical_allocator_init => IInv'
<1> SUFFICES ASSUME IInv, physical_allocator_init PROVE IInv'
    OBVIOUS
<1> USE DEF IInv
<1>1. TypeOK'
    BY DEF TypeOK, physical_allocator_init
<1>2. HeldFramesExist'
    BY DEF HeldFramesExist, physical_allocator_init, TypeOK
<1>3. ASSUME NEW i \in SafeFrames
      PROVE  grants[i]' \in {0, 1} /\ mem[FlagAddress(i)]' = grants[i]'
    <2>1. i \in Indices /\ FlagAddress(i) \in RAM /\ FlagAddress(i) < FlagAddress(num_frames)
        BY FlagOfSafeFrame, FlagInRAM
    <2>2. grants[i]' = 0
        BY <2>1 DEF HeldFramesExist, physical_allocator_init
    <2>3. mem[FlagAddress(i)]' = 0
        BY <2>1 DEF physical_allocator_init
    <2> QED BY <2>2, <2>3
<1>4. SafeFrameExclusive'
    BY <1>3 DEF SafeFrameExclusive
<1> QED BY <1>1, <1>2, <1>4

\* kalloc_frame keeps the invariant.
LEMMA AllocStep == IInv /\ kalloc_frame => IInv'
<1> SUFFICES ASSUME IInv, kalloc_frame PROVE IInv'
    OBVIOUS
<1> USE DEF IInv
<1>1. PICK i \in Indices :
        /\ is_free(i)
        /\ mem' = [mem EXCEPT ![FlagAddress(i)] = 1]
        /\ grants[FrameNumber(i)] < MaxGrants
        /\ grants' = [grants EXCEPT ![FrameNumber(i)] = @ + 1]
        /\ phase' = IF i \in Frames THEN phase ELSE "overrun"
    BY DEF kalloc_frame
<1>2. phase \in {"up", "overrun"} /\ freed' = freed
    BY DEF kalloc_frame, Running
<1>3. mem' \in [RAM -> 0..255]
    BY <1>1, FlagInRAM DEF TypeOK
<1>4. grants' \in [Indices -> 0..MaxGrants]
    <2>1. CASE FrameNumber(i) \in Indices
        BY <1>1, <2>1, ConstantsAssumption DEF TypeOK
    <2>2. CASE FrameNumber(i) \notin Indices
        <3>1. grants' = grants
            BY <1>1, <2>2 DEF TypeOK
        <3> QED BY <3>1 DEF TypeOK
    <2> QED BY <2>1, <2>2
<1>5. TypeOK'
    BY <1>1, <1>2, <1>3, <1>4 DEF TypeOK
<1>6. CASE phase' # "up"
    BY <1>1, <1>2, <1>5, <1>6 DEF HeldFramesExist, SafeFrameExclusive
<1>7. CASE phase' = "up"
    <2>1. i \in Frames /\ phase = "up" /\ FrameNumber(i) = i
        BY <1>1, <1>2, <1>7, FrameLayout
    <2>2. grants' = [grants EXCEPT ![i] = @ + 1]
        BY <1>1, <2>1
    <2>3. HeldFramesExist'
        BY <1>7, <2>1, <2>2 DEF HeldFramesExist, TypeOK
    <2>4. ASSUME NEW j \in SafeFrames
          PROVE  grants[j]' \in {0, 1} /\ mem[FlagAddress(j)]' = grants[j]'
        <3>1. j \in Indices /\ FlagAddress(j) \in RAM /\ FlagAddress(i) \in RAM
            BY FlagOfSafeFrame, FlagInRAM
        <3>2. grants[j] \in {0, 1} /\ mem[FlagAddress(j)] = grants[j]
            BY <2>1 DEF SafeFrameExclusive
        <3>3. CASE j = i
            <4>1. grants[j] = 0
                BY <1>1, <3>2, <3>3 DEF is_free
            <4> QED BY <1>1, <2>2, <3>1, <3>3, <4>1 DEF TypeOK
        <3>4. CASE j # i
            <4>1. FlagAddress(j) # FlagAddress(i)
                BY <3>1, <3>4, FlagInjective
            <4> QED BY <1>1, <2>2, <3>1, <3>2, <3>4, <4>1 DEF TypeOK
        <3> QED BY <3>3, <3>4
    <2>5. SafeFrameExclusive'
        BY <2>4 DEF SafeFrameExclusive
    <2> QED BY <1>5, <2>3, <2>5
<1> QED BY <1>6, <1>7

\* A scan that runs off RAM keeps the invariant.
LEMMA RunsOffStep == IInv /\ kalloc_frame_runs_off => IInv'
BY DEF IInv, TypeOK, HeldFramesExist, SafeFrameExclusive, kalloc_frame_runs_off

\* kfree_frame keeps the invariant.
LEMMA FreeStep ==
    ASSUME IInv, NEW i \in Indices, kfree_frame(i)
    PROVE  IInv'
<1> USE DEF IInv
<1> DEFINE k == get_frame_number(FrameAddress(i))
<1>1. /\ phase \in {"up", "overrun"} /\ phase' = phase /\ freed' = TRUE
      /\ grants[i] > 0
      /\ mem' = [mem EXCEPT ![FlagAddress(k)] = 0]
      /\ grants' = [grants EXCEPT ![i] = @ - 1]
    BY DEF kfree_frame, Running
<1> HIDE DEF k
<1>2. mem' \in [RAM -> 0..255]
    <2>1. CASE FlagAddress(k) \in RAM
        BY <1>1, <2>1 DEF TypeOK
    <2>2. CASE FlagAddress(k) \notin RAM
        BY <1>1, <2>2 DEF TypeOK
    <2> QED BY <2>1, <2>2
<1>3. TypeOK'
    BY <1>1, <1>2, ConstantsAssumption DEF TypeOK
<1>4. CASE phase = "overrun"
    BY <1>1, <1>3, <1>4 DEF HeldFramesExist, SafeFrameExclusive
<1>5. CASE phase = "up"
    <2>1. i \in Frames /\ k = i
        BY <1>1, <1>5, FrameLayout DEF HeldFramesExist, k
    <2>2. HeldFramesExist'
        BY <1>1, <1>5, <2>1 DEF HeldFramesExist, TypeOK
    <2>3. ASSUME NEW j \in SafeFrames
          PROVE  grants[j]' \in {0, 1} /\ mem[FlagAddress(j)]' = grants[j]'
        <3>1. j \in Indices /\ FlagAddress(j) \in RAM
            BY FlagOfSafeFrame, FlagInRAM
        <3>2. grants[j] \in {0, 1} /\ mem[FlagAddress(j)] = grants[j]
            BY <1>5 DEF SafeFrameExclusive
        <3>3. CASE j = i
            <4>1. grants[j] = 1
                BY <1>1, <3>2, <3>3
            <4> QED BY <1>1, <2>1, <3>1, <3>3, <4>1 DEF TypeOK
        <3>4. CASE j # i
            <4>1. FlagAddress(j) # FlagAddress(k)
                BY <2>1, <3>1, <3>4, FlagInjective
            <4> QED BY <1>1, <3>1, <3>2, <3>4, <4>1 DEF TypeOK
        <3> QED BY <3>3, <3>4
    <2>4. SafeFrameExclusive'
        BY <2>3 DEF SafeFrameExclusive
    <2> QED BY <1>3, <2>2, <2>4
<1> QED BY <1>1, <1>4, <1>5

\* A store by a holder keeps the invariant.
LEMMA StoreStep ==
    ASSUME IInv, NEW i \in Indices, Store(i)
    PROVE  IInv'
<1> USE DEF IInv
<1>1. PICK a \in FrameBytes(i) \cap RAM, b \in DataBytes : mem' = [mem EXCEPT ![a] = b]
    BY DEF Store
<1>2. phase \in {"up", "overrun"} /\ grants[i] > 0 /\ UNCHANGED <<phase, grants, freed>>
    BY DEF Store, Running
<1>3. TypeOK'
    BY <1>1, <1>2, ConstantsAssumption DEF TypeOK
<1>4. HeldFramesExist'
    BY <1>2 DEF HeldFramesExist
<1>5. ASSUME phase = "up", NEW j \in SafeFrames
      PROVE  mem[FlagAddress(j)]' = mem[FlagAddress(j)]
    <2>1. i \in Frames
        BY <1>2, <1>5 DEF HeldFramesExist
    <2>2. a \in first_frame_address .. PHYSICAL_MEMORY_END - 1
        BY <1>1, <2>1, FrameLayout
    <2>3. FlagAddress(j) < first_frame_address /\ FlagAddress(j) \in RAM
        BY FlagOfSafeFrame, FlagInRAM
    <2>4. a # FlagAddress(j)
        BY <2>2, <2>3, LayoutTypes DEF RAM
    <2> QED BY <1>1, <2>3, <2>4 DEF TypeOK
<1>6. SafeFrameExclusive'
    BY <1>2, <1>5 DEF SafeFrameExclusive
<1> QED BY <1>3, <1>4, <1>6

\* Every step keeps the invariant.
LEMMA NextIInv == IInv /\ [Next]_vars => IInv'
<1> SUFFICES ASSUME IInv, [Next]_vars PROVE IInv'
    OBVIOUS
<1>1. CASE physical_allocator_init
    BY <1>1, InitStep
<1>2. CASE kalloc_frame
    BY <1>2, AllocStep
<1>3. CASE kalloc_frame_runs_off
    BY <1>3, RunsOffStep
<1>4. CASE \E i \in Indices : kfree_frame(i)
    BY <1>4, FreeStep
<1>5. CASE \E i \in Indices : Store(i)
    BY <1>5, StoreStep
<1>6. CASE UNCHANGED vars
    BY <1>6 DEF vars, IInv, TypeOK, HeldFramesExist, SafeFrameExclusive
<1> QED BY <1>1, <1>2, <1>3, <1>4, <1>5, <1>6 DEF Next

(* IInv holds in every reachable state of the allocator.                   *)
THEOREM Invariance == Spec => []IInv
BY InitIInv, NextIInv, PTL DEF Spec

(* Types of the allocator's state, whatever is stored in frames.           *)
THEOREM TypeCorrect == Spec => []TypeOK
BY Invariance, PTL DEF IInv

(* No safe frame is ever held twice, and its flag is exact, until          *)
(* kalloc_frame runs past the last frame.                                  *)
THEOREM Exclusive == Spec => []SafeFrameExclusive
BY Invariance, PTL DEF IInv
-----------------------------------------------------------------------------
\* Two frames share no byte.
LEMMA FramesDisjoint ==
    ASSUME NEW i \in Frames, NEW j \in Frames, i # j
    PROVE  FrameBytes(i) \cap FrameBytes(j) = {}
<1>1. SUFFICES ASSUME NEW k \in Frames, NEW l \in Frames, k < l
               PROVE  FrameBytes(k) \cap FrameBytes(l) = {}
    <2>1. i \in Nat /\ j \in Nat
        BY LayoutTypes DEF Frames
    <2>2. i < j \/ j < i
        BY <2>1
    <2> QED BY <1>1, <2>2
<1>2. k \in Nat /\ l \in Nat /\ FRAME_SIZE \in Nat \ {0} /\ first_frame_address \in Nat
    BY LayoutTypes DEF Frames
<1>3. (k + 1) * FRAME_SIZE <= l * FRAME_SIZE
    BY <1>1, <1>2, MulMonoLe
<1>4. (k + 1) * FRAME_SIZE = k * FRAME_SIZE + FRAME_SIZE
    BY <1>2
<1> DEFINE p == k * FRAME_SIZE
           q == l * FRAME_SIZE
<1>5. p \in Nat /\ q \in Nat /\ p + FRAME_SIZE <= q
    BY <1>2, <1>3, <1>4
<1>6. FrameAddress(k) = first_frame_address + p /\ FrameAddress(l) = first_frame_address + q
    BY FrameLayout
<1> HIDE DEF p, q
<1> QED BY <1>2, <1>5, <1>6 DEF FrameBytes

(* Every frame handed out before the overrun lies in RAM, apart from the   *)
(* flags of the safe frames and from every other frame handed out.         *)
THEOREM Apart == Spec => []FramesApart
<1>1. IInv => FramesApart
    <2> SUFFICES ASSUME IInv, phase \in {"boot", "up"}, NEW i \in Indices, grants[i] > 0
                 PROVE  /\ FrameBytes(i) \subseteq RAM
                        /\ \A j \in SafeFrames :
                               /\ FlagAddress(j) \notin FrameBytes(i)
                               /\ FlagAddress(j) >= PHYSICAL_HEAP_START
                        /\ \A j \in Indices \ {i} : grants[j] > 0 =>
                               FrameBytes(i) \cap FrameBytes(j) = {}
        BY DEF FramesApart
    <2>1. i \in Frames
        BY DEF IInv, HeldFramesExist
    <2>2. FrameBytes(i) \subseteq RAM
          /\ FrameBytes(i) \subseteq first_frame_address .. PHYSICAL_MEMORY_END - 1
        BY <2>1, FrameLayout
    <2>3. ASSUME NEW j \in SafeFrames
          PROVE  FlagAddress(j) \notin FrameBytes(i) /\ FlagAddress(j) >= PHYSICAL_HEAP_START
        <3>1. j \in Nat /\ FlagAddress(j) < first_frame_address /\ FlagAddress(j) \in Nat
            BY FlagOfSafeFrame, LayoutTypes DEF FlagAddress
        <3>2. FlagAddress(j) \notin FrameBytes(i)
            BY <2>2, <3>1, LayoutTypes
        <3> QED BY <3>1, <3>2, LayoutTypes, ConstantsAssumption DEF FlagAddress
    <2>4. ASSUME NEW j \in Indices \ {i}, grants[j] > 0
          PROVE  FrameBytes(i) \cap FrameBytes(j) = {}
        <3>1. j \in Frames /\ j # i
            BY <2>4 DEF IInv, HeldFramesExist
        <3> QED BY <2>1, <3>1, FramesDisjoint
    <2> QED BY <2>2, <2>3, <2>4
<1> QED BY <1>1, Invariance, PTL

(* Until the first kfree_frame the safe frames held are a prefix.          *)
THEOREM Sequential == Spec => []SequentialUntilFreed
<1>1. Init => SequentialUntilFreed
    BY DEF Init, SequentialUntilFreed
<1>2. IInv /\ SequentialUntilFreed /\ [Next]_vars => SequentialUntilFreed'
    <2> SUFFICES ASSUME IInv, SequentialUntilFreed, [Next]_vars,
                        phase' = "up", ~freed',
                        NEW i \in SafeFrames, grants[i]' > 0,
                        NEW j \in 0 .. i - 1
                 PROVE  grants[j]' > 0
        BY DEF SequentialUntilFreed
    <2>1. i \in Frames /\ i \in Indices /\ i \in Nat /\ j \in Nat /\ j < i
        BY FlagOfSafeFrame
    <2>2. j \in SafeFrames /\ j \in Indices
        <3>1. j \in Frames
            BY <2>1, LayoutTypes DEF Frames
        <3>2. FlagAddress(j) < first_frame_address
            BY <2>1, FlagOfSafeFrame, LayoutTypes DEF FlagAddress
        <3> QED BY <3>1, <3>2, FrameLayout DEF SafeFrames
    <2>3. CASE physical_allocator_init
        BY <2>1, <2>3 DEF physical_allocator_init, IInv, HeldFramesExist
    <2>4. CASE kalloc_frame
        <3>1. PICK n \in Indices :
                /\ \A m \in 0 .. n - 1 : ~is_free(m)
                /\ grants' = [grants EXCEPT ![FrameNumber(n)] = @ + 1]
                /\ phase' = IF n \in Frames THEN phase ELSE "overrun"
            BY <2>4 DEF kalloc_frame
        <3>2. n \in Frames /\ phase = "up" /\ FrameNumber(n) = n /\ freed' = freed
            BY <2>4, <3>1, FrameLayout DEF kalloc_frame, Running
        <3>3. grants[j] \in {0, 1} /\ mem[FlagAddress(j)] = grants[j]
            BY <2>2, <3>2 DEF IInv, SafeFrameExclusive
        <3>4. CASE i = n
            <4>1. grants[j] = 1
                BY <2>1, <3>1, <3>3, <3>4 DEF is_free
            <4> QED BY <2>1, <2>2, <3>1, <3>2, <3>4, <4>1 DEF IInv, TypeOK
        <3>5. CASE i # n
            <4>1. grants[i] > 0
                BY <2>1, <3>1, <3>2, <3>5 DEF IInv, TypeOK
            <4>2. grants[j] > 0
                BY <2>1, <3>2, <4>1 DEF SequentialUntilFreed
            <4> QED BY <2>2, <3>1, <3>2, <4>2, ConstantsAssumption DEF IInv, TypeOK
        <3> QED BY <3>4, <3>5
    <2>5. CASE kalloc_frame_runs_off
        BY <2>5 DEF kalloc_frame_runs_off
    <2>6. CASE \E k \in Indices : kfree_frame(k)
        BY <2>6 DEF kfree_frame
    <2>7. CASE \E k \in Indices : Store(k)
        BY <2>7 DEF Store, SequentialUntilFreed
    <2>8. CASE UNCHANGED vars
        BY <2>8 DEF vars, SequentialUntilFreed
    <2> QED BY <2>3, <2>4, <2>5, <2>6, <2>7, <2>8 DEF Next
<1> QED BY <1>1, <1>2, Invariance, PTL DEF Spec

(* kalloc_frame and kfree_frame change no byte of a frame that is held,    *)
(* as long as all frames held are safe.                                    *)
THEOREM KeepsData == Spec => BookkeepingKeepsData
<1>1. IInv /\ [Next]_vars =>
        [ (phase' = "up" /\ OnlySafeGranted /\ OnlySafeGranted' /\ grants' # grants) =>
            \A i \in SafeFrames : grants[i] > 0 =>
                \A a \in FrameBytes(i) : mem'[a] = mem[a] ]_vars
    <2> SUFFICES ASSUME IInv, Next, phase' = "up", OnlySafeGranted, OnlySafeGranted',
                        grants' # grants,
                        NEW i \in SafeFrames, grants[i] > 0, NEW a \in FrameBytes(i)
                 PROVE  mem'[a] = mem[a]
        OBVIOUS
    <2>1. i \in Frames /\ i \in Indices
        BY FlagOfSafeFrame
    <2>2. a \in first_frame_address .. PHYSICAL_MEMORY_END - 1 /\ a \in RAM
        BY <2>1, FrameLayout
    <2>3. ASSUME NEW k \in SafeFrames PROVE FlagAddress(k) # a
        <3>1. FlagAddress(k) < first_frame_address /\ FlagAddress(k) \in Nat
            BY FlagOfSafeFrame, LayoutTypes DEF FlagAddress
        <3> QED BY <2>2, <3>1, LayoutTypes
    <2>4. CASE kalloc_frame
        <3>1. PICK n \in Indices :
                /\ mem' = [mem EXCEPT ![FlagAddress(n)] = 1]
                /\ grants' = [grants EXCEPT ![FrameNumber(n)] = @ + 1]
                /\ phase' = IF n \in Frames THEN phase ELSE "overrun"
            BY <2>4 DEF kalloc_frame
        <3>2. n \in Frames /\ FrameNumber(n) = n
            BY <3>1, FrameLayout
        <3>3. grants'[n] > 0
            BY <3>1, <3>2, ConstantsAssumption DEF IInv, TypeOK
        <3>4. n \in SafeFrames
            BY <3>3 DEF OnlySafeGranted
        <3> QED BY <2>2, <2>3, <3>1, <3>4 DEF IInv, TypeOK
    <2>5. CASE \E k \in Indices : kfree_frame(k)
        <3>1. PICK k \in Indices : kfree_frame(k)
            BY <2>5
        <3>2. k \in SafeFrames
            BY <3>1 DEF kfree_frame, OnlySafeGranted
        <3>3. mem' = [mem EXCEPT ![FlagAddress(k)] = 0]
            BY <3>1, <3>2, FlagOfSafeFrame, FrameLayout DEF kfree_frame
        <3> QED BY <2>2, <2>3, <3>2, <3>3 DEF IInv, TypeOK
    <2> QED BY <2>4, <2>5 DEF Next, physical_allocator_init, kalloc_frame_runs_off, Store
<1> QED BY <1>1, Invariance, PTL DEF Spec, BookkeepingKeepsData
-----------------------------------------------------------------------------
held == [i \in SafeFrames |-> grants[i]]

\* The abstract holders after the grant count of one frame changes.
LEMMA HeldUpdate ==
    ASSUME TypeOK, NEW n \in SafeFrames, NEW v, grants' = [grants EXCEPT ![n] = v]
    PROVE  held' = [held EXCEPT ![n] = v]
<1>1. ASSUME NEW j \in SafeFrames
      PROVE  grants'[j] = IF j = n THEN v ELSE grants[j]
    BY FlagOfSafeFrame DEF TypeOK
<1>2. held' = [j \in SafeFrames |-> IF j = n THEN v ELSE grants[j]]
    BY <1>1 DEF held
<1>3. [held EXCEPT ![n] = v] = [j \in SafeFrames |-> IF j = n THEN v ELSE grants[j]]
    BY DEF held
<1> QED BY <1>2, <1>3

(* For the safe frames the allocator implements FrameOwnership: a free     *)
(* frame is handed out, a held one comes back, and the promise ends only   *)
(* when every safe frame is held.                                          *)
THEOREM Implements == Spec => ImplementsOwnership
<1>1. Init => Ownership!Init
    <2> SUFFICES ASSUME Init PROVE Ownership!Init
        OBVIOUS
    <2>1. held = [f \in SafeFrames |-> 0]
        BY FlagOfSafeFrame DEF held, Init
    <2> QED BY <2>1 DEF held, Ownership!Init, Init
<1>2. IInv /\ [Next]_vars => [Ownership!Next]_(Ownership!vars)
    <2> SUFFICES ASSUME IInv, [Next]_vars
                 PROVE  [Ownership!Next]_(Ownership!vars)
        OBVIOUS
    <2> DEFINE past == phase \in {"overrun", "fault"}
    <2> DEFINE AcquireSafe(f) == held[f] = 0 /\ held' = [held EXCEPT ![f] = 1]
               ReleaseSafe(f) == held[f] = 1 /\ held' = [held EXCEPT ![f] = 0]
    <2>1. SUFFICES \/ past /\ past'
                   \/ past' /\ \A f \in SafeFrames : held[f] = 1
                   \/ ~past /\ ~past' /\ \E f \in SafeFrames : AcquireSafe(f) \/ ReleaseSafe(f)
                   \/ past' = past /\ held' = held
        BY Zenon DEF Ownership!Next, Ownership!vars, Ownership!Overrun, Ownership!Acquire,
                     Ownership!Release, held
    <2>2. CASE physical_allocator_init
        BY <2>2 DEF physical_allocator_init, held
    <2>3. CASE kalloc_frame
        <3>1. PICK n \in Indices :
                /\ is_free(n)
                /\ \A m \in 0 .. n - 1 : ~is_free(m)
                /\ grants' = [grants EXCEPT ![FrameNumber(n)] = @ + 1]
                /\ phase' = IF n \in Frames THEN phase ELSE "overrun"
            BY <2>3 DEF kalloc_frame
        <3>2. CASE phase = "overrun"
            BY <3>1, <3>2
        <3>3. CASE phase = "up" /\ n \notin Frames
            <4>1. ASSUME NEW f \in SafeFrames PROVE held[f] = 1
                <5>1. f \in Nat /\ f < num_frames /\ num_frames \in Nat
                    BY FlagOfSafeFrame, LayoutTypes DEF SafeFrames, Frames
                <5>2. n \in Nat /\ n >= num_frames
                    BY <3>3, <5>1, LayoutTypes DEF Indices, Frames
                <5>3. ~is_free(f)
                    BY <3>1, <5>1, <5>2
                <5>4. grants[f] \in {0, 1} /\ mem[FlagAddress(f)] = grants[f]
                    BY <3>3 DEF IInv, SafeFrameExclusive
                <5> QED BY <5>3, <5>4 DEF held, is_free
            <4> QED BY <3>1, <3>3, <4>1
        <3>4. CASE phase = "up" /\ n \in Frames
            <4>1. grants' = [grants EXCEPT ![n] = @ + 1] /\ phase' = "up"
                BY <3>1, <3>4, FrameLayout
            <4>2. CASE n \in SafeFrames
                <5>1. grants[n] = 0 /\ n \in Indices
                    BY <3>1, <3>4, <4>2 DEF IInv, SafeFrameExclusive, is_free
                <5>2. grants' = [grants EXCEPT ![n] = 1]
                    BY <4>1, <5>1 DEF IInv, TypeOK
                <5>3. held[n] = 0 /\ held' = [held EXCEPT ![n] = 1]
                    BY <4>2, <5>1, <5>2, HeldUpdate DEF held, IInv
                <5> QED BY <3>4, <4>1, <4>2, <5>3
            <4>3. CASE n \notin SafeFrames
                <5>1. held' = held
                    BY <4>1, <4>3, FlagOfSafeFrame DEF held, IInv, TypeOK
                <5> QED BY <3>4, <4>1, <5>1
            <4> QED BY <4>2, <4>3
        <3> QED BY <2>3, <3>2, <3>3, <3>4 DEF kalloc_frame, Running
    <2>4. CASE kalloc_frame_runs_off
        <3>1. CASE phase = "overrun"
            BY <2>4, <3>1 DEF kalloc_frame_runs_off
        <3>2. CASE phase = "up"
            <4>1. ASSUME NEW f \in SafeFrames PROVE held[f] = 1
                <5>1. grants[f] \in {0, 1} /\ mem[FlagAddress(f)] = grants[f] /\ f \in Indices
                    BY <3>2, FlagOfSafeFrame DEF IInv, SafeFrameExclusive
                <5>2. ~is_free(f)
                    BY <2>4, <5>1 DEF kalloc_frame_runs_off
                <5> QED BY <5>1, <5>2 DEF held, is_free
            <4> QED BY <2>4, <4>1 DEF kalloc_frame_runs_off
        <3> QED BY <2>4, <3>1, <3>2 DEF kalloc_frame_runs_off, Running
    <2>5. CASE \E k \in Indices : kfree_frame(k)
        <3>1. PICK k \in Indices : kfree_frame(k)
            BY <2>5
        <3>2. CASE phase = "overrun"
            BY <3>1, <3>2 DEF kfree_frame
        <3>3. CASE phase = "up" /\ k \in SafeFrames
            <4>1. grants[k] = 1 /\ grants' = [grants EXCEPT ![k] = @ - 1] /\ phase' = "up"
                BY <3>1, <3>3 DEF kfree_frame, IInv, SafeFrameExclusive
            <4>2. grants' = [grants EXCEPT ![k] = 0]
                BY <4>1 DEF IInv, TypeOK
            <4>3. held[k] = 1 /\ held' = [held EXCEPT ![k] = 0]
                BY <3>3, <4>1, <4>2, HeldUpdate DEF held, IInv
            <4> QED BY <3>3, <4>1, <4>3
        <3>4. CASE phase = "up" /\ k \notin SafeFrames
            <4>1. held' = held /\ phase' = phase
                BY <3>1, <3>4, FlagOfSafeFrame DEF kfree_frame, held, IInv, TypeOK
            <4> QED BY <3>4, <4>1
        <3> QED BY <3>1, <3>2, <3>3, <3>4 DEF kfree_frame, Running
    <2>6. CASE \E k \in Indices : Store(k)
        BY <2>6 DEF Store, held
    <2>7. CASE UNCHANGED vars
        BY <2>7 DEF vars, held
    <2> QED BY <2>2, <2>3, <2>4, <2>5, <2>6, <2>7 DEF Next
<1> QED BY <1>1, <1>2, Invariance, PTL DEF Spec, ImplementsOwnership, Ownership!Spec
=============================================================================
