--------------------------- MODULE Userland_proofs --------------------------
(***************************************************************************)
(* Proofs about a process and its kernel, for every size of stack, frames  *)
(* and heap page.  The steps of Userland are steps of the trap path, or    *)
(* leave it alone; the trap path is treated first, and with malloc's       *)
(* chunks it is treated for all programs.  What buffers and console hold   *)
(* follows for programs that are careful with the sizes of their buffers,  *)
(* as the shell is.                                                        *)
(***************************************************************************)
EXTENDS Userland, SequenceTheorems, WellFoundedInduction, TLAPS

\* Where the kernel's stack pointer is when the process runs.
KernelSp == start_sp - calls * FRAME

\* handle_syscall has come back, and nothing else of the trap path moves.
ServiceStep ==
    /\ SyscallDone
    /\ UNCHANGED <<cause, sp, sscratch, s, stack, start_sp, calls, bus>>

TrapNext ==
    \/ switch_to_process \/ Trap("ecall") \/ Trap("fault") \/ KernelFault
    \/ machine_exception_handler \/ ServiceStep \/ jump_back_to_userspace

\* The two stack pointers at every position, and the instructions below the stack.
TInv ==
    /\ sp \in Int /\ sscratch \in Int /\ start_sp \in Int /\ calls \in Nat
    /\ pc = "boot" => (sp = start_sp /\ calls = 0)
    /\ pc = "user" => (sp = UserSp /\ sscratch = KernelSp)
    /\ pc = "handler" =>
          \/ sp = KernelSp - SAVED /\ sscratch = UserSp
          \/ cause = "fault" /\ sp = UserSp - SAVED
    /\ pc \in {"syscall", "return"} => (sp = KernelSp - SAVED - FRAME /\ sscratch = UserSp)
    /\ CodeIntact

(* The constants as integers, and a product grows by one factor.           *)
LEMMA TrapNumbers ==
    /\ STACK_WORDS \in Nat /\ SAVED \in Nat /\ FRAME \in Nat /\ DEPTH \in Nat
    /\ Reach \in Nat /\ UserSp \in Int
    /\ \A n \in Nat : n * FRAME \in Int /\ (n + 1) * FRAME = n * FRAME + FRAME
  BY TrapsAssumption DEF TrapsAssumption, Reach, UserSp

(* The start: nothing of the stack below boot's frames is in use.          *)
LEMMA TrapInitInv == TrapInit => TInv
<1> SUFFICES ASSUME TrapInit PROVE TInv
  OBVIOUS
<1>1. PICK used \in Used : sp = STACK_WORDS - used
  BY DEF TrapInit
<1>2. used \in Int /\ STACK_WORDS \in Int
  BY TrapsAssumption DEF TrapsAssumption
<1>3. ~Smashed
  BY DEF TrapInit, Smashed
<1> QED
  BY <1>1, <1>2, <1>3 DEF TrapInit, TInv, CodeIntact

(* Entering the kernel: the registers go to the words below the kernel's   *)
(* stack pointer, or, on a fault in a system call, below the user's.       *)
LEMMA EnterInv ==
    ASSUME TInv, NEW c \in {"ecall", "fault"}, EnterKernel(c),
           pc = "user" \/ (pc = "syscall" /\ c = "fault")
    PROVE  TInv'
<1> USE TrapNumbers
<1> DEFINE K == KernelSp
<1>0. /\ start_sp' = start_sp /\ calls' = calls /\ cause' = c
      /\ K \in Int /\ KernelSp' = K
  BY DEF EnterKernel, TInv, KernelSp
<1>1. CASE Smashed \/ bus = "faults"
  BY <1>0, <1>1 DEF EnterKernel, TInv, CodeIntact, Smashed, KernelSp
<1>2. CASE ~(Smashed \/ bus = "faults")
  <2>1. /\ sp' = sscratch - SAVED /\ sscratch' = sp
        /\ stack' = Pushed(sscratch - SAVED) /\ pc' = "handler"
    BY <1>2 DEF EnterKernel
  <2>2. (sscratch = K /\ sp = UserSp) \/ (c = "fault" /\ sscratch = UserSp)
    BY DEF TInv
  <2>3. CodeIntact'
    <3> SUFFICES ASSUME K - Reach >= 0, NEW a \in Words, a < 0 PROVE stack'[a] = Code
      BY <1>0 DEF CodeIntact, Smashed, KernelSp
    <3>1. stack[a] = Code
      BY <1>0 DEF TInv, CodeIntact, Smashed, KernelSp
    <3>2. sscratch - SAVED >= 0
      BY <1>0, <2>2 DEF Reach, UserSp
    <3>3. sscratch \in Int /\ a \in Int
      BY DEF TInv, Words
    <3> QED
      BY <2>1, <3>1, <3>2, <3>3 DEF Pushed
  <2> QED
    BY <1>0, <2>1, <2>2, <2>3 DEF TInv, KernelSp
<1> QED
  BY <1>1, <1>2

(* The handler's frame and those of what it calls end above the            *)
(* instructions as long as there is room for a whole trap.                 *)
LEMMA HandlerInv ==
    ASSUME TInv, machine_exception_handler
    PROVE  TInv'
<1> USE TrapNumbers
<1> DEFINE K == KernelSp
<1>0. /\ start_sp' = start_sp /\ calls' = calls /\ cause' = cause /\ sscratch' = sscratch
      /\ sp' = sp - FRAME /\ stack' = Fill(sp - FRAME - DEPTH, sp)
      /\ pc' = IF cause = "ecall" THEN "syscall" ELSE "dead"
      /\ K \in Int /\ KernelSp' = K /\ sp \in Int
  BY DEF machine_exception_handler, TInv, KernelSp
<1>1. \/ sp = K - SAVED /\ sscratch = UserSp
      \/ cause = "fault" /\ sp = UserSp - SAVED
  BY DEF machine_exception_handler, TInv
<1>2. CodeIntact'
  <2> SUFFICES ASSUME K - Reach >= 0, NEW a \in Words, a < 0 PROVE stack'[a] = Code
    BY <1>0 DEF CodeIntact, Smashed, KernelSp
  <2>1. stack[a] = Code
    BY <1>0 DEF TInv, CodeIntact, Smashed, KernelSp
  <2>2. sp - FRAME - DEPTH >= 0
    BY <1>0, <1>1 DEF Reach, UserSp
  <2>3. a \in Int
    BY DEF Words
  <2> QED
    BY <1>0, <2>1, <2>2, <2>3 DEF Fill
<1> QED
  BY <1>0, <1>1, <1>2 DEF TInv, KernelSp

(* The way back leaves the kernel's stack pointer one frame further down.  *)
LEMMA ReturnInv ==
    ASSUME TInv, jump_back_to_userspace
    PROVE  TInv'
<1> USE TrapNumbers
<1>1. /\ pc = "return" /\ pc' = "user" /\ sp' = sscratch /\ sscratch' = sp + SAVED
      /\ calls' = calls + 1 /\ start_sp' = start_sp /\ stack' = stack
  BY DEF jump_back_to_userspace
<1>2. /\ calls \in Nat /\ start_sp \in Int
      /\ sp = KernelSp - SAVED - FRAME /\ sscratch = UserSp /\ CodeIntact
  BY <1>1 DEF TInv
<1>3. KernelSp \in Int /\ KernelSp' = KernelSp - FRAME
  BY <1>1, <1>2 DEF KernelSp
<1>4. CodeIntact'
  BY <1>1, <1>2, <1>3 DEF CodeIntact, Smashed, KernelSp
<1> QED
  BY <1>1, <1>2, <1>3, <1>4 DEF TInv

(* One step of the trap path.                                              *)
LEMMA TrapStepInv == TInv /\ [TrapNext]_trapVars => TInv'
<1> USE TrapNumbers
<1> SUFFICES ASSUME TInv, [TrapNext]_trapVars PROVE TInv'
  OBVIOUS
<1>1. CASE UNCHANGED trapVars
  BY <1>1 DEF trapVars, TInv, CodeIntact, Smashed, KernelSp
<1>2. CASE switch_to_process
  <2>1. /\ sscratch' = sp /\ sp' = UserSp /\ pc = "boot" /\ pc' = "user"
        /\ stack' = stack /\ start_sp' = start_sp /\ calls' = calls
    BY <1>2 DEF switch_to_process
  <2>2. KernelSp' = start_sp /\ sp = start_sp
    BY <2>1 DEF TInv, KernelSp
  <2> QED
    BY <2>1, <2>2 DEF TInv, CodeIntact, Smashed
<1>3. ASSUME NEW c \in {"ecall", "fault"}, Trap(c) PROVE TInv'
  BY <1>3, EnterInv DEF Trap
<1>4. CASE KernelFault
  BY <1>4, EnterInv DEF KernelFault
<1>5. CASE machine_exception_handler
  BY <1>5, HandlerInv
<1>6. CASE ServiceStep
  BY <1>6 DEF ServiceStep, SyscallDone, TInv, CodeIntact, Smashed, KernelSp
<1>7. CASE jump_back_to_userspace
  BY <1>7, ReturnInv
<1> QED
  BY <1>1, <1>2, <1>3, <1>4, <1>5, <1>6, <1>7 DEF TrapNext

(* Every step of process, kernel and console is one of the trap path, or   *)
(* leaves it alone.                                                        *)
LEMMA StepsAreTrapSteps == [Next]_vars => [TrapNext]_trapVars
<1> SUFFICES ASSUME [Next]_vars PROVE [TrapNext]_trapVars
  OBVIOUS
<1>1. CASE UNCHANGED vars
  BY <1>1 DEF vars
<1>2. CASE Start
  BY <1>2 DEF Start, TrapNext
<1>3. CASE Malloc \/ Command
  BY <1>3 DEF Malloc, Command
<1>4. CASE Printf \/ Read \/ Getcwd \/ Open \/ WriteWild
  BY <1>4 DEF Printf, Read, Getcwd, Open, WriteWild, Syscall, TrapNext
<1>5. CASE MallocFaults \/ LoadWild
  BY <1>5 DEF MallocFaults, LoadWild, TrapNext
<1>6. CASE Handler \/ handle_write_faults \/ Return
  BY <1>6 DEF Handler, handle_write_faults, Return, TrapNext
<1>7. CASE handle_write \/ read_full \/ handle_getcwd \/ handle_other
  BY <1>7 DEF handle_write, read_full, handle_getcwd, handle_other, TrapNext, ServiceStep
<1>8. CASE read
  BY <1>8 DEF read, TrapNext, ServiceStep, trapVars
<1>9. ASSUME NEW c \in Chars \cup {CR}, Type(c) PROVE [TrapNext]_trapVars
  BY <1>9 DEF Type
<1> QED
  BY <1>1, <1>2, <1>3, <1>4, <1>5, <1>6, <1>7, <1>8, <1>9 DEF Next, User, Kernel

(* The invariant of the trap path, for every program and everything typed. *)
THEOREM TrapInvariance == Spec => []TInv
<1>1. Init => TInv
  BY TrapInitInv DEF Init
<1>2. TInv /\ [Next]_vars => TInv'
  BY TrapStepInv, StepsAreTrapSteps
<1> QED
  BY <1>1, <1>2, PTL DEF Spec

(* The process gets its stack pointer back after every system call, and    *)
(* the kernel's is one frame of machine_exception_handler further down.    *)
THEOREM StackPointersStayInStep == Spec => []StackPointersInStep
<1>1. TInv => StackPointersInStep
  BY DEF TInv, StackPointersInStep, KernelSp
<1> QED
  BY <1>1, TrapInvariance, PTL

(* boot.s's instructions below the stack stay whole while there is room.   *)
THEOREM CodeStaysIntact == Spec => []CodeIntact
<1>1. TInv => CodeIntact
  BY DEF TInv
<1> QED
  BY <1>1, TrapInvariance, PTL
-----------------------------------------------------------------------------
\* A sequence of calls whose allocations have sizes.
WellFormed(q) ==
    \E S : q \in Seq(S) /\ \A c \in S : Allocates(c) => c.n \in Nat

\* The chunks behind one another, and what is needed to keep them so.
HInv ==
    /\ WellFormed(prog)
    /\ chunks \in Seq(Int \X Int) /\ first_item \in Int
    /\ UserChunksDisjoint

(* The calls of a program are those of some set.                           *)
LEMMA WellFormedFrom ==
    ASSUME NEW S, NEW q \in Seq(S), \A c \in S : Allocates(c) => c.n \in Nat
    PROVE  WellFormed(q)
  BY DEF WellFormed

(* What is left of a program is well formed, and so is its next call.      *)
LEMMA WellFormedTail ==
    ASSUME NEW q, WellFormed(q), q # <<>>
    PROVE  WellFormed(Tail(q)) /\ (Allocates(Head(q)) => Head(q).n \in Nat)
<1>1. PICK S : q \in Seq(S) /\ \A c \in S : Allocates(c) => c.n \in Nat
  BY DEF WellFormed
<1>2. Head(q) \in S /\ Tail(q) \in Seq(S)
  BY <1>1
<1> QED
  BY <1>1, <1>2 DEF WellFormed

(* One program after another.                                              *)
LEMMA WellFormedConcat ==
    ASSUME NEW q, NEW r, WellFormed(q), WellFormed(r)
    PROVE  WellFormed(q \o r)
<1>1. PICK S : q \in Seq(S) /\ \A c \in S : Allocates(c) => c.n \in Nat
  BY DEF WellFormed
<1>2. PICK T : r \in Seq(T) /\ \A c \in T : Allocates(c) => c.n \in Nat
  BY DEF WellFormed
<1>3. q \in Seq(S \cup T) /\ r \in Seq(S \cup T)
  BY <1>1, <1>2
<1>4. q \o r \in Seq(S \cup T)
  BY <1>3, ConcatProperties
<1> QED
  BY <1>1, <1>2, <1>4 DEF WellFormed

(* The shell's commands.                                                   *)
LEMMA CommandsWellFormed == WellFormed(pwd) /\ WellFormed(ls) /\ WellFormed(<<>>)
<1>1. WellFormed(<<>>)
  <2> DEFINE S == {}
             q == <<>>
  <2>1. q \in Seq(S) /\ \A c \in S : Allocates(c) => c.n \in Nat
    OBVIOUS
  <2> HIDE DEF S, q
  <2>2. WellFormed(q)
    BY <2>1, WellFormedFrom
  <2> QED
    BY <2>2 DEF q
<1>2. WellFormed(ls)
  <2> DEFINE a == [op |-> "open"]
             b == [op |-> "printf", arg |-> FALSE, text |-> TEXT]
  <2>1. ls \in Seq({a, b})
    BY DEF ls, puts, printf
  <2>2. \A c \in {a, b} : Allocates(c) => c.n \in Nat
    BY DEF Allocates
  <2> HIDE DEF a, b
  <2> QED
    BY <2>1, <2>2, WellFormedFrom
<1>3. WellFormed(pwd)
  <2> DEFINE a == [op |-> "malloc", n |-> CWD_SIZE]
             b == [op |-> "getcwd", n |-> CWD_SIZE]
             d == [op |-> "printf", arg |-> TRUE, text |-> 0]
  <2>1. pwd \in Seq({a, b, d})
    BY DEF pwd, printf
  <2>2. \A c \in {a, b, d} : Allocates(c) => c.n \in Nat
    BY UserlandAssumption DEF UserlandAssumption, Allocates
  <2> HIDE DEF a, b, d
  <2> QED
    BY <2>1, <2>2, WellFormedFrom
<1> QED
  BY <1>1, <1>2, <1>3

(* The program with which a process starts.                                *)
LEMMA HeapInitInv == Init => HInv
<1> SUFFICES ASSUME Init PROVE HInv
  OBVIOUS
<1> DEFINE first == [op |-> "init_printf", n |-> BUFFER_SIZE]
<1>1. PICK p \in Programs : prog = <<first>> \o p
  BY DEF Init
<1>2. WellFormed(p)
  BY UserlandAssumption DEF UserlandAssumption, WellFormed
<1>3. WellFormed(<<first>>)
  <2> DEFINE S == {first}
             q == <<first>>
  <2>1. q \in Seq(S) /\ \A c \in S : Allocates(c) => c.n \in Nat
    BY UserlandAssumption DEF UserlandAssumption
  <2> HIDE DEF S, q
  <2>2. WellFormed(q)
    BY <2>1, WellFormedFrom
  <2> QED
    BY <2>2 DEF q
<1>4. WellFormed(prog)
  BY <1>1, <1>2, <1>3, WellFormedConcat
<1>5. chunks = <<>> /\ first_item = 0 /\ Mapped(0)
  BY UserlandAssumption DEF Init, UserlandAssumption, Mapped
<1> QED
  BY <1>4, <1>5 DEF HInv, UserChunksDisjoint

(* malloc puts the next chunk where the free item was, and the free item   *)
(* behind it.                                                              *)
LEMMA MallocInv ==
    ASSUME HInv, Malloc
    PROVE  HInv'
<1> DEFINE n == Head(prog).n
           new == <<first_item + HEADER, n>>
<1>1. /\ prog # <<>> /\ Allocates(Head(prog)) /\ ~malloc_faults(n)
      /\ malloc(n) /\ prog' = Tail(prog)
  BY DEF Malloc
<1>2. /\ first_item' = first_item + HEADER + n
      /\ chunks' = Append(chunks, new)
  BY <1>1 DEF malloc
<1>3. n \in Nat /\ WellFormed(prog')
  BY <1>1, WellFormedTail DEF HInv
<1>4. HEADER \in Int
  BY UserlandAssumption DEF UserlandAssumption
<1>5. new \in Int \X Int
  BY <1>3, <1>4 DEF HInv
<1>6. /\ chunks' \in Seq(Int \X Int) /\ chunks' # <<>> /\ Len(chunks') = Len(chunks) + 1
      /\ \A i \in 1 .. Len(chunks) : chunks'[i] = chunks[i]
      /\ chunks'[Len(chunks')] = new
  BY <1>2, <1>5, AppendProperties DEF HInv
<1>7. Mapped(first_item')
  BY <1>1, <1>2 DEF malloc_faults
<1>8. new[1] + new[2] = first_item'
  BY <1>2, <1>3, <1>4 DEF HInv
<1>9. ASSUME NEW i \in 1 .. Len(chunks') - 1
      PROVE  chunks'[i][1] + chunks'[i][2] + HEADER = chunks'[i + 1][1]
  <2>0. Len(chunks) \in Nat /\ i \in 1 .. Len(chunks) /\ Len(chunks') = Len(chunks) + 1
    BY <1>6 DEF HInv
  <2>1. CASE i < Len(chunks)
    <3>1. i \in 1 .. Len(chunks) - 1 /\ i + 1 \in 1 .. Len(chunks)
      BY <2>0, <2>1
    <3> QED
      BY <3>1, <2>0, <1>6 DEF HInv, UserChunksDisjoint
  <2>2. CASE i = Len(chunks)
    <3>1. chunks # <<>> /\ chunks'[i + 1] = new
      BY <2>0, <2>2, <1>6
    <3>2. chunks[i][1] + chunks[i][2] = first_item
      BY <2>2, <3>1 DEF HInv, UserChunksDisjoint, Last
    <3>3. chunks'[i] = chunks[i]
      BY <1>6, <2>0, Zenon
    <3>4. new[1] = first_item + HEADER
      OBVIOUS
    <3>5. chunks'[i][1] + chunks'[i][2] + HEADER = first_item + HEADER
      BY <3>2, <3>3, Zenon
    <3> QED
      BY <3>1, <3>4, <3>5, Zenon
  <2> QED
    BY <2>0, <2>1, <2>2
<1>10. Last(chunks')[1] + Last(chunks')[2] = first_item'
  BY <1>6, <1>8 DEF Last
<1>11. UserChunksDisjoint'
  BY <1>7, <1>9, <1>10 DEF UserChunksDisjoint
<1>12. first_item' \in Int
  BY <1>2, <1>3, <1>4 DEF HInv
<1> QED
  BY <1>3, <1>6, <1>11, <1>12 DEF HInv

(* No other step of process or kernel touches the heap's bookkeeping.      *)
LEMMA HeapStepInv == HInv /\ [Next]_vars => HInv'
<1> SUFFICES ASSUME HInv, [Next]_vars PROVE HInv'
  OBVIOUS
<1>0. ASSUME UNCHANGED <<chunks, first_item>>, WellFormed(prog') PROVE HInv'
  BY <1>0 DEF HInv, UserChunksDisjoint, Mapped
<1>1. CASE UNCHANGED <<prog, chunks, first_item>>
  BY <1>0, <1>1 DEF HInv
<1>2. CASE Malloc
  BY <1>2, MallocInv
<1>3. CASE Command
  <2> DEFINE p == IF strcmp(ptr, Word_pwd) THEN pwd ELSE <<>>
             l == IF strcmp(ptr, Word_ls) THEN ls ELSE <<>>
  <2>1. prog # <<>> /\ prog' = Tail(prog) \o p \o l /\ UNCHANGED <<chunks, first_item>>
    BY <1>3 DEF Command, Running, libVars
  <2>2. WellFormed(Tail(prog)) /\ WellFormed(p) /\ WellFormed(l)
    BY <2>1, WellFormedTail, CommandsWellFormed DEF HInv
  <2>3. WellFormed(Tail(prog) \o p)
    BY <2>2, WellFormedConcat
  <2> QED
    BY <1>0, <2>1, <2>2, <2>3, WellFormedConcat
<1>4. CASE Printf \/ Read \/ Getcwd \/ Open \/ WriteWild
  <2>1. prog # <<>> /\ prog' = Tail(prog) /\ UNCHANGED <<chunks, first_item>>
    BY <1>4 DEF Printf, Read, Getcwd, Open, WriteWild, Syscall, Running, libVars
  <2> QED
    BY <1>0, <2>1, WellFormedTail DEF HInv
<1>5. CASE UNCHANGED vars
  BY <1>1, <1>5 DEF vars, libVars
<1>6. CASE Start \/ MallocFaults \/ LoadWild
  BY <1>1, <1>6 DEF Start, MallocFaults, LoadWild, libVars
<1>7. CASE Kernel
  BY <1>1, <1>7 DEF Kernel, Handler, handle_write, handle_write_faults, read, read_full,
                    handle_getcwd, handle_other, Return, libVars
<1>8. ASSUME NEW c \in Chars \cup {CR}, Type(c) PROVE HInv'
  BY <1>1, <1>8 DEF Type, libVars
<1> QED
  BY <1>2, <1>3, <1>4, <1>5, <1>6, <1>7, <1>8 DEF Next, User

(* For every heap page and every program: what malloc returns lies one     *)
(* chunk behind the other in the page, though malloc checks nothing and    *)
(* misreads the size of its free item after the first call.                *)
THEOREM UserChunksStayDisjoint == Spec => []UserChunksDisjoint
<1>1. Init => HInv
  BY HeapInitInv
<1>2. HInv /\ [Next]_vars => HInv'
  BY HeapStepInv
<1>3. HInv => UserChunksDisjoint
  BY DEF HInv
<1> QED
  BY <1>1, <1>2, <1>3, PTL DEF Spec
-----------------------------------------------------------------------------
(* What buffers hold, for programs that use tlibc the way the shell does.  *)
(* The cells of the page are words or characters, and the free item's      *)
(* first cell is a word, so that a string without a zero ends there.       *)
CellsOK ==
    /\ umem \in [0 .. PAGE_CELLS - 1 -> Int] /\ umem[first_item] >= 0
    /\ rhr \in Int /\ console \in Seq(Int) /\ formatted \in Seq(Int)

\* The chunks in the page, each behind the one before.
Apart ==
    /\ \A i \in 1 .. Len(chunks) :
          /\ chunks[i][1] \in Nat \ {0} /\ chunks[i][2] \in Nat
          /\ chunks[i][1] + chunks[i][2] <= first_item
    /\ \A i, j \in 1 .. Len(chunks) : i < j => chunks[i][1] + chunks[i][2] <= chunks[j][1]

\* Before the process has called init_printf.
FirstCall == [op |-> "init_printf", n |-> BUFFER_SIZE]
NotStarted ==
    /\ \E p \in Programs : prog = <<FirstCall>> \o p
    /\ (pc \in {"boot", "user"} \/ cause = "fault") /\ input = NoInput /\ ptr = 0

\* The program's latest chunk: the last one, if there is one besides printf's buffer.
Room == IF Len(chunks) = 1 THEN NoRoom ELSE chunks[Len(chunks)][2]
Fresh == Len(chunks) = 1 \/ ptr # input.at

\* What is left of the program is careful about it.
Started ==
    /\ chunks[1] = <<buffer, BUFFER_SIZE>>
    /\ ptr = IF Len(chunks) = 1 THEN 0 ELSE chunks[Len(chunks)][1]
    /\ Careful(prog, Room, Fresh)

\* The latest read: where it was asked to put what was typed, and that it is there.
InputOK ==
    /\ input \in [at : Nat, size : Nat, chars : Seq(Int), done : BOOLEAN]
    /\ Len(input.chars) <= input.size
    /\ (input.at = 0 /\ input.size = 0) \/ \E i \in 2 .. Len(chunks) :
          chunks[i][1] = input.at /\ input.size <= chunks[i][2]
    /\ \A k \in 1 .. Len(input.chars) : umem[input.at + k - 1] = input.chars[k]
    /\ (input.done /\ Len(input.chars) < input.size) => umem[input.at + Len(input.chars)] = 0

\* A system call in progress, and what its service counts on.
Busy(number) == pc \in {"handler", "syscall"} /\ cause = "ecall" /\ args.a7 = number

ReadOK ==
    Busy(0) =>
        /\ args.at = input.at /\ args.len = input.size
        /\ ~input.done /\ counter = Len(input.chars)

GetcwdOK ==
    Busy(79) =>
        /\ Len(chunks) > 1 /\ chunks[Len(chunks)][1] = args.at
        /\ PathLength + 1 <= chunks[Len(chunks)][2] /\ args.at # input.at

\* What printf left in its buffer, as long as the console does not have it.
Cells(a, n) == [k \in 1 .. n |-> umem[a + k - 1]]
Pending ==
    /\ args.at \in Nat /\ args.len \in Nat /\ args.at + args.len <= PAGE_CELLS
    /\ \A k \in 1 .. args.len : umem[args.at + k - 1] < 0
    /\ formatted = console \o Cells(args.at, args.len)

ConsoleOK ==
    /\ pc = "syscall" => cause = "ecall"
    /\ Busy(1) => (args.at = PAGE_CELLS /\ args.len = 1) \/ Pending
    /\ (pc \in {"boot", "user", "return"} \/ (pc \in {"handler", "syscall"} /\ cause = "ecall" /\ args.a7 # 1))
          => console = formatted

BInv ==
    /\ HInv /\ CellsOK /\ Apart
    /\ IF chunks = <<>> THEN NotStarted ELSE Started
    /\ InputOK /\ ReadOK /\ GetcwdOK /\ ConsoleOK

-----------------------------------------------------------------------------
(* Careful programs.                                                       *)

\* A weaker demand on the buffer's freshness.
LEMMA FitsWeaker ==
    ASSUME NEW c, NEW r, NEW f, NEW g, f => g, Fits(c, r, f)
    PROVE  Fits(c, r, g)
  BY DEF Fits

(* What is left after the first call is careful about the chunk that is    *)
(* then the latest.                                                        *)
LEMMA CarefulTail ==
    ASSUME NEW S, NEW q \in Seq(S), q # <<>>, NEW r, NEW f \in BOOLEAN, Careful(q, r, f)
    PROVE  /\ Fits(Head(q), r, f)
           /\ Head(q).op = "malloc" => Careful(Tail(q), Head(q).n, TRUE)
           /\ Head(q).op # "malloc" => Careful(Tail(q), r, f /\ Head(q).op # "read")
<1> DEFINE t == Tail(q)
<1>1. /\ Len(q) \in Nat /\ Len(q) >= 1 /\ Len(t) = Len(q) - 1 /\ Head(q) = q[1]
      /\ \A i \in 1 .. Len(t) : t[i] = q[i + 1]
  OBVIOUS
<1>2. ASSUME NEW i \in 1 .. Len(q), NoCall("malloc", q, 1, i - 1)
      PROVE  Fits(q[i], r, f /\ NoCall("read", q, 1, i - 1))
  BY <1>2 DEF Careful
<1>3. ASSUME NEW i \in 1 .. Len(q), NEW j \in 1 .. i - 1, q[j].op = "malloc",
             NoCall("malloc", q, j + 1, i - 1)
      PROVE  Fits(q[i], q[j].n, NoCall("read", q, j + 1, i - 1))
  BY <1>3 DEF Careful
<1> HIDE DEF t
<1>4. ASSUME NEW op, NEW a \in Nat \ {0}, NEW b \in Int, b <= Len(t)
      PROVE  NoCall(op, t, a, b) <=> NoCall(op, q, a + 1, b + 1)
  <2>1. ASSUME NoCall(op, t, a, b), NEW k \in a + 1 .. b + 1 PROVE q[k].op # op
    <3>1. k - 1 \in a .. b /\ k - 1 \in 1 .. Len(t) /\ (k - 1) + 1 = k
      BY <1>1, <1>4
    <3> QED
      BY <1>1, <2>1, <3>1 DEF NoCall
  <2>2. ASSUME NoCall(op, q, a + 1, b + 1), NEW k \in a .. b PROVE t[k].op # op
    <3>1. k + 1 \in a + 1 .. b + 1 /\ k \in 1 .. Len(t)
      BY <1>1, <1>4
    <3> QED
      BY <1>1, <2>2, <3>1 DEF NoCall
  <2> QED
    BY <2>1, <2>2 DEF NoCall
<1>5. Fits(q[1], r, f)
  <2>1. 1 \in 1 .. Len(q) /\ NoCall("malloc", q, 1, 1 - 1)
    BY <1>1 DEF NoCall
  <2> QED
    BY <1>2, <2>1, FitsWeaker
<1>6. ASSUME NEW i \in 1 .. Len(t), NEW j \in 1 .. i - 1, t[j].op = "malloc",
             NoCall("malloc", t, j + 1, i - 1)
      PROVE  Fits(t[i], t[j].n, NoCall("read", t, j + 1, i - 1))
  <2>1. /\ i + 1 \in 1 .. Len(q) /\ j + 1 \in 1 .. (i + 1) - 1 /\ j \in 1 .. Len(t)
        /\ t[i] = q[i + 1] /\ t[j] = q[j + 1] /\ (i - 1) + 1 = (i + 1) - 1
        /\ i - 1 <= Len(t) /\ i - 1 \in Int /\ j + 1 \in Nat \ {0}
    BY <1>1
  <2>2. NoCall("malloc", q, (j + 1) + 1, (i + 1) - 1)
    BY <1>4, <1>6, <2>1
  <2>3. Fits(q[i + 1], q[j + 1].n, NoCall("read", q, (j + 1) + 1, (i + 1) - 1))
    BY <1>3, <1>6, <2>1, <2>2
  <2>4. NoCall("read", q, (j + 1) + 1, (i + 1) - 1) => NoCall("read", t, j + 1, i - 1)
    BY <1>4, <2>1
  <2> QED
    BY <2>1, <2>3, <2>4, FitsWeaker
<1>7. ASSUME NEW i \in 1 .. Len(t), NoCall("malloc", t, 1, i - 1)
      PROVE  /\ q[1].op = "malloc" => Fits(t[i], q[1].n, TRUE /\ NoCall("read", t, 1, i - 1))
             /\ q[1].op # "malloc" =>
                   Fits(t[i], r, (f /\ q[1].op # "read") /\ NoCall("read", t, 1, i - 1))
  <2>1. /\ i + 1 \in 1 .. Len(q) /\ 1 \in 1 .. (i + 1) - 1 /\ t[i] = q[i + 1]
        /\ (i - 1) + 1 = (i + 1) - 1 /\ i - 1 <= Len(t) /\ i - 1 \in Int /\ 1 \in Nat \ {0}
    BY <1>1
  <2>2. NoCall("malloc", q, 1 + 1, (i + 1) - 1)
    BY <1>4, <1>7, <2>1
  <2>3. NoCall("read", q, 1 + 1, (i + 1) - 1) <=> NoCall("read", t, 1, i - 1)
    BY <1>4, <2>1
  <2>4. CASE q[1].op = "malloc"
    <3>1. Fits(q[i + 1], q[1].n, NoCall("read", q, 1 + 1, (i + 1) - 1))
      BY <1>3, <2>1, <2>2, <2>4
    <3>2. NoCall("read", q, 1 + 1, (i + 1) - 1) => (TRUE /\ NoCall("read", t, 1, i - 1))
      BY <2>3, Zenon
    <3>3. Fits(q[i + 1], q[1].n, TRUE /\ NoCall("read", t, 1, i - 1))
      BY <3>1, <3>2, Zenon DEF Fits
    <3> QED
      BY <2>1, <2>4, <3>3, Zenon
  <2>5. CASE q[1].op # "malloc"
    <3>1. \A k \in 1 .. (i + 1) - 1 : k = 1 \/ k \in 1 + 1 .. (i + 1) - 1
      OBVIOUS
    <3>2. NoCall("malloc", q, 1, (i + 1) - 1)
      BY <2>2, <2>5, <3>1 DEF NoCall
    <3>3. Fits(q[i + 1], r, f /\ NoCall("read", q, 1, (i + 1) - 1))
      BY <1>2, <2>1, <3>2
    <3>4. ASSUME NoCall("read", q, 1, (i + 1) - 1)
          PROVE  q[1].op # "read" /\ NoCall("read", q, 1 + 1, (i + 1) - 1)
      <4>1. \A k \in 1 + 1 .. (i + 1) - 1 : k \in 1 .. (i + 1) - 1
        OBVIOUS
      <4> QED
        BY <3>4, <2>1, <4>1, Zenon DEF NoCall
    <3>5. (f /\ NoCall("read", q, 1, (i + 1) - 1)) =>
            ((f /\ q[1].op # "read") /\ NoCall("read", t, 1, i - 1))
      BY <3>4, <2>3, Zenon
    <3>6. Fits(q[i + 1], r, (f /\ q[1].op # "read") /\ NoCall("read", t, 1, i - 1))
      BY <3>3, <3>5, FitsWeaker, Zenon
    <3> QED
      BY <2>1, <2>5, <3>6, Zenon
  <2> QED
    BY <2>4, <2>5
<1>8. CASE q[1].op = "malloc"
  <2>1. Careful(t, q[1].n, TRUE)
    BY <1>6, <1>7, <1>8 DEF Careful
  <2> QED
    BY <1>1, <1>5, <1>8, <2>1 DEF t
<1>9. CASE q[1].op # "malloc"
  <2>1. Careful(t, r, f /\ q[1].op # "read")
    BY <1>6, <1>7, <1>9 DEF Careful
  <2> QED
    BY <1>1, <1>5, <1>9, <2>1 DEF t
<1> QED
  BY <1>8, <1>9

(* A demand on an old buffer is met by a new one.                          *)
LEMMA CarefulWeaker ==
    ASSUME NEW q, NEW r, NEW f, NEW g, f => g, Careful(q, r, f)
    PROVE  Careful(q, r, g)
<1>1. ASSUME NEW i \in 1 .. Len(q), NoCall("malloc", q, 1, i - 1)
      PROVE  Fits(q[i], r, g /\ NoCall("read", q, 1, i - 1))
  <2>1. Fits(q[i], r, f /\ NoCall("read", q, 1, i - 1))
    BY <1>1, Zenon DEF Careful
  <2>2. (f /\ NoCall("read", q, 1, i - 1)) => (g /\ NoCall("read", q, 1, i - 1))
    BY Zenon
  <2> QED
    BY <2>1, <2>2, FitsWeaker, Zenon
<1> QED
  BY <1>1, Zenon DEF Careful

(* A careful program, and behind it one that is careful whatever the       *)
(* latest chunk is.                                                        *)
LEMMA CarefulConcat ==
    ASSUME NEW S, NEW q \in Seq(S), NEW t \in Seq(S), NEW r, NEW f, Careful(q, r, f),
           \A r1, f1 : Careful(t, r1, f1)
    PROVE  Careful(q \o t, r, f)
<1> DEFINE w == q \o t
           m == Len(q)
<1>1. /\ m \in Nat /\ Len(t) \in Nat /\ w \in Seq(S) /\ Len(w) = m + Len(t)
      /\ \A i \in 1 .. m : w[i] = q[i]
      /\ \A i \in 1 .. Len(t) : w[m + i] = t[i]
  OBVIOUS
<1> HIDE DEF w
<1>2. ASSUME NEW op, NEW a \in Nat \ {0}, NEW b \in Int, b <= m
      PROVE  NoCall(op, q, a, b) <=> NoCall(op, w, a, b)
  <2>1. \A k \in a .. b : w[k] = q[k]
    BY <1>1, <1>2
  <2> QED
    BY <2>1 DEF NoCall
<1>3. ASSUME NEW op, NEW a \in Nat \ {0}, NEW b \in Int, b <= Len(t), NEW d \in Int, d <= m + a,
             NoCall(op, w, d, m + b)
      PROVE  NoCall(op, t, a, b)
  <2>1. \A k \in a .. b : w[m + k] = t[k] /\ m + k \in d .. m + b
    BY <1>1, <1>3
  <2> QED
    BY <1>3, <2>1 DEF NoCall
<1>4. ASSUME NEW op, NEW a \in Nat \ {0}, NEW b \in Int, b <= Len(t), NoCall(op, t, a, b)
      PROVE  NoCall(op, w, m + a, m + b)
  <2>1. \A k \in m + a .. m + b : w[k] = t[k - m] /\ k - m \in a .. b
    <3> SUFFICES ASSUME NEW k \in m + a .. m + b PROVE w[k] = t[k - m] /\ k - m \in a .. b
      OBVIOUS
    <3>1. k - m \in a .. b /\ k - m \in 1 .. Len(t) /\ m + (k - m) = k
      BY <1>1, <1>4
    <3> QED
      BY <1>1, <3>1
  <2> QED
    BY <1>4, <2>1 DEF NoCall
<1>5. ASSUME NEW i \in 1 .. Len(w)
      PROVE  /\ NoCall("malloc", w, 1, i - 1) => Fits(w[i], r, f /\ NoCall("read", w, 1, i - 1))
             /\ \A j \in 1 .. i - 1 :
                   (w[j].op = "malloc" /\ NoCall("malloc", w, j + 1, i - 1)) =>
                      Fits(w[i], w[j].n, NoCall("read", w, j + 1, i - 1))
  <2>1. CASE i <= m
    <3>1. i \in 1 .. Len(q) /\ i - 1 \in Int /\ i - 1 <= m /\ 1 \in Nat \ {0} /\ w[i] = q[i]
      BY <1>1, <2>1
    <3>2. /\ NoCall("malloc", q, 1, i - 1) <=> NoCall("malloc", w, 1, i - 1)
          /\ NoCall("read", q, 1, i - 1) => NoCall("read", w, 1, i - 1)
      BY <1>2, <3>1
    <3>3. ASSUME NoCall("malloc", w, 1, i - 1) PROVE Fits(w[i], r, f /\ NoCall("read", w, 1, i - 1))
      <4>1. Fits(q[i], r, f /\ NoCall("read", q, 1, i - 1))
        BY <3>1, <3>2, <3>3, Zenon DEF Careful
      <4>2. (f /\ NoCall("read", q, 1, i - 1)) => (f /\ NoCall("read", w, 1, i - 1))
        BY <3>2, Zenon
      <4> QED
        BY <3>1, <4>1, <4>2, FitsWeaker, Zenon
    <3>4. ASSUME NEW j \in 1 .. i - 1, w[j].op = "malloc", NoCall("malloc", w, j + 1, i - 1)
          PROVE  Fits(w[i], w[j].n, NoCall("read", w, j + 1, i - 1))
      <4>1. j + 1 \in Nat \ {0} /\ w[j] = q[j]
        BY <1>1, <3>1
      <4>2. /\ NoCall("malloc", q, j + 1, i - 1)
            /\ NoCall("read", q, j + 1, i - 1) => NoCall("read", w, j + 1, i - 1)
        BY <1>2, <3>1, <3>4, <4>1
      <4>3. Fits(q[i], q[j].n, NoCall("read", q, j + 1, i - 1))
        BY <3>1, <3>4, <4>1, <4>2, Zenon DEF Careful
      <4> QED
        BY <3>1, <4>1, <4>2, <4>3, FitsWeaker, Zenon
    <3> QED
      BY <3>3, <3>4, Zenon
  <2>2. CASE i > m
    <3> DEFINE l == i - m
    <3>1. /\ l \in 1 .. Len(t) /\ l - 1 \in Int /\ l - 1 <= Len(t) /\ i - 1 = m + (l - 1)
          /\ w[i] = t[l] /\ 1 \in Nat \ {0} /\ m + l = i
      BY <1>1, <2>2
    <3> HIDE DEF l
    <3>2. ASSUME NEW d \in Int, d <= m + 1, NoCall("malloc", w, d, i - 1), NEW n,
                 NEW g
          PROVE  Fits(w[i], n, g)
      <4>1. NoCall("malloc", t, 1, l - 1)
        BY <1>3, <3>1, <3>2
      <4>2. Careful(t, n, g)
        OBVIOUS
      <4>3. Fits(t[l], n, g /\ NoCall("read", t, 1, l - 1))
        BY <3>1, <4>1, <4>2, Zenon DEF Careful
      <4>4. (g /\ NoCall("read", t, 1, l - 1)) => g
        BY Zenon
      <4> QED
        BY <3>1, <4>3, <4>4, FitsWeaker, Zenon
    <3>3. ASSUME NoCall("malloc", w, 1, i - 1) PROVE Fits(w[i], r, f /\ NoCall("read", w, 1, i - 1))
      <4>1. 1 \in Int /\ 1 <= m + 1
        BY <1>1
      <4> QED
        BY <3>2, <3>3, <4>1, Zenon
    <3>4. ASSUME NEW j \in 1 .. i - 1, w[j].op = "malloc", NoCall("malloc", w, j + 1, i - 1)
          PROVE  Fits(w[i], w[j].n, NoCall("read", w, j + 1, i - 1))
      <4>1. CASE j <= m
        <5>1. j + 1 \in Int /\ j + 1 <= m + 1
          BY <1>1, <4>1
        <5> QED
          BY <3>2, <3>4, <5>1, Zenon
      <4>2. CASE j > m
        <5>1. i \in Int /\ j \in Int /\ m \in Int
          BY <1>1
        <5>2. PICK h \in Int : h = j - m
          BY <5>1
        <5>3. /\ h \in 1 .. l - 1 /\ h + 1 \in Nat \ {0} /\ j + 1 = m + (h + 1) /\ w[j] = t[h]
              /\ j + 1 \in Int /\ j + 1 <= m + (h + 1)
          <6>1. h \in 1 .. l - 1 /\ h \in 1 .. Len(t) /\ m + h = j
            BY <1>1, <3>1, <4>2, <5>2
          <6>2. w[m + h] = t[h]
            BY <1>1, <6>1
          <6>3. j + 1 = m + (h + 1)
            BY <1>1, <6>1
          <6>4. h + 1 \in Nat \ {0} /\ j + 1 \in Int /\ j + 1 <= m + (h + 1)
            BY <1>1, <5>1, <6>1, <6>3
          <6> QED
            BY <6>1, <6>2, <6>3, <6>4
        <5>4. NoCall("malloc", t, h + 1, l - 1)
          BY <1>3, <3>1, <3>4, <5>3
        <5>5. NoCall("read", t, h + 1, l - 1) => NoCall("read", w, j + 1, i - 1)
          BY <1>4, <3>1, <5>3
        <5>6. Careful(t, r, f)
          OBVIOUS
        <5>7. Fits(t[l], t[h].n, NoCall("read", t, h + 1, l - 1))
          BY <3>1, <3>4, <5>3, <5>4, <5>6, Zenon DEF Careful
        <5> QED
          BY <3>1, <5>3, <5>5, <5>7, FitsWeaker, Zenon
      <4> QED
        BY <1>1, <4>1, <4>2
    <3> QED
      BY <3>3, <3>4, Zenon
  <2> QED
    BY <1>1, <2>1, <2>2
<1>6. Careful(w, r, f)
  BY <1>5, Zenon DEF Careful
<1> QED
  BY <1>6 DEF w

(* The shell's commands are careful whatever the latest chunk is: pwd      *)
(* allocates a chunk of its own, and ls uses none.                         *)
LEMMA CommandsCareful ==
    ASSUME CarefulPrograms
    PROVE  \A r, f : Careful(pwd, r, f) /\ Careful(ls, r, f) /\ Careful(<<>>, r, f)
<1> SUFFICES ASSUME NEW r, NEW f
             PROVE  Careful(pwd, r, f) /\ Careful(ls, r, f) /\ Careful(<<>>, r, f)
  OBVIOUS
<1>1. Careful(<<>>, r, f)
  BY DEF Careful
<1>2. Careful(ls, r, f)
  <2>1. /\ Len(ls) = 2 /\ ls[1].op = "open" /\ ls[2].op = "printf" /\ ls[2].arg = FALSE
        /\ ls[2].text = TEXT
    BY DEF ls, puts, printf
  <2>2. TEXT \in 0 .. BUFFER_SIZE
    BY UserlandAssumption DEF CarefulPrograms, UserlandAssumption
  <2>3. ASSUME NEW i \in 1 .. Len(ls), NEW r1, NEW f1 PROVE Fits(ls[i], r1, f1)
    <3>1. i = 1 \/ i = 2
      BY <2>1
    <3> QED
      BY <2>1, <2>2, <3>1 DEF Fits
  <2> QED
    BY <2>3, Zenon DEF Careful
<1>3. Careful(pwd, r, f)
  <2>1. /\ Len(pwd) = 3 /\ pwd[1].op = "malloc" /\ pwd[1].n = CWD_SIZE /\ pwd[2].op = "getcwd"
        /\ pwd[3].op = "printf" /\ pwd[3].text = 0
    BY DEF pwd, printf
  <2>2. /\ PathLength + 1 <= CWD_SIZE /\ CWD_SIZE + MAGIC_BYTES <= BUFFER_SIZE
        /\ CWD_SIZE \in Nat /\ BUFFER_SIZE \in Nat /\ MAGIC_BYTES \in Nat
    BY UserlandAssumption DEF CarefulPrograms, UserlandAssumption, MAGIC_BYTES
  <2>3. ASSUME NEW i \in 1 .. Len(pwd), NoCall("malloc", pwd, 1, i - 1), NEW f1
        PROVE  Fits(pwd[i], r, f1)
    <3>1. i = 1
      BY <2>1, <2>3 DEF NoCall
    <3> QED
      BY <2>1, <3>1 DEF Fits
  <2>4. ASSUME NEW i \in 1 .. Len(pwd), NEW j \in 1 .. i - 1, pwd[j].op = "malloc"
        PROVE  Fits(pwd[i], pwd[j].n, NoCall("read", pwd, j + 1, i - 1))
    <3>1. j = 1 /\ (i = 2 \/ i = 3)
      BY <2>1, <2>4
    <3>2. CASE i = 2
      <4>1. NoCall("read", pwd, j + 1, i - 1)
        BY <3>1, <3>2 DEF NoCall
      <4> QED
        BY <2>1, <2>2, <3>1, <3>2, <4>1 DEF Fits
    <3>3. CASE i = 3
      BY <2>1, <2>2, <3>1, <3>3 DEF Fits
    <3> QED
      BY <3>1, <3>2, <3>3
  <2> QED
    BY <2>3, <2>4, Zenon DEF Careful
<1> QED
  BY <1>1, <1>2, <1>3
-----------------------------------------------------------------------------
(* Strings and texts.                                                      *)

\* Every set of natural numbers that is not empty has a least element.
LEMMA NatMin ==
    ASSUME NEW T, T \subseteq Nat, T # {}
    PROVE  \E x \in T : \A y \in T : x <= y
<1> DEFINE R == OpToRel(<, Nat)
<1>1. IsWellFoundedOn(R, Nat)
  BY NatLessThanWellFounded, Zenon
<1>2. \A x, y \in Nat : x < y => <<x, y>> \in R
  BY DEF OpToRel
<1> HIDE DEF R
<1>3. PICK x \in T : \A y \in T : ~(<<y, x>> \in R)
  BY <1>1, WFMin
<1>4. ASSUME NEW y \in T
      PROVE  x <= y
  <2>1. x \in Nat /\ y \in Nat
    OBVIOUS
  <2>2. ~(<<y, x>> \in R)
    BY <1>3
  <2>3. ~(y < x)
    BY <1>2, <2>1, <2>2, Zenon
  <2> QED
    BY <2>1, <2>3
<1> QED
  BY <1>4

(* At most four bytes of a word are read as characters.                    *)
LEMMA BytesRead ==
    ASSUME NEW w
    PROVE  bytes_read(w) \in 0 .. MAGIC_BYTES
<1> DEFINE P(k) == /\ \A i \in 0 .. k - 1 : byte(w, i) # 0
                   /\ k < MAGIC_BYTES => byte(w, k) = 0
<1>1. \E k \in 0 .. MAGIC_BYTES : P(k)
  <2>1. CASE byte(w, 0) = 0
    <3>1. P(0) /\ 0 \in 0 .. MAGIC_BYTES
      BY <2>1 DEF MAGIC_BYTES
    <3> QED
      BY <3>1
  <2>2. CASE byte(w, 0) # 0 /\ byte(w, 1) = 0
    <3>1. \A i \in 0 .. 1 - 1 : i = 0
      OBVIOUS
    <3>2. P(1) /\ 1 \in 0 .. MAGIC_BYTES
      BY <2>2, <3>1 DEF MAGIC_BYTES
    <3> QED
      BY <3>2
  <2>3. CASE byte(w, 0) # 0 /\ byte(w, 1) # 0 /\ byte(w, 2) = 0
    <3>1. \A i \in 0 .. 2 - 1 : i = 0 \/ i = 1
      OBVIOUS
    <3>2. P(2) /\ 2 \in 0 .. MAGIC_BYTES
      BY <2>3, <3>1 DEF MAGIC_BYTES
    <3> QED
      BY <3>2
  <2>4. CASE byte(w, 0) # 0 /\ byte(w, 1) # 0 /\ byte(w, 2) # 0 /\ byte(w, 3) = 0
    <3>1. \A i \in 0 .. 3 - 1 : i = 0 \/ i = 1 \/ i = 2
      OBVIOUS
    <3>2. P(3) /\ 3 \in 0 .. MAGIC_BYTES
      BY <2>4, <3>1 DEF MAGIC_BYTES
    <3> QED
      BY <3>2
  <2>5. CASE byte(w, 0) # 0 /\ byte(w, 1) # 0 /\ byte(w, 2) # 0 /\ byte(w, 3) # 0
    <3>1. \A i \in 0 .. 4 - 1 : i = 0 \/ i = 1 \/ i = 2 \/ i = 3
      OBVIOUS
    <3>2. P(4) /\ 4 \in 0 .. MAGIC_BYTES
      BY <2>5, <3>1 DEF MAGIC_BYTES
    <3> QED
      BY <3>2
  <2> QED
    BY <2>1, <2>2, <2>3, <2>4, <2>5
<1>2. bytes_read(w) = CHOOSE k \in 0 .. MAGIC_BYTES : P(k)
  BY DEF bytes_read
<1> QED
  BY <1>1, <1>2

\* The same negative number, n times.
LEMMA Repeated ==
    ASSUME NEW n \in Nat, NEW c \in Int, c < 0
    PROVE  LET r == [k \in 1 .. n |-> c] IN
           r \in Seq(Int) /\ Len(r) = n /\ \A k \in 1 .. Len(r) : r[k] < 0
  OBVIOUS

(* A string that begins before a word ends there at the latest, and has    *)
(* only characters.                                                        *)
LEMMA StringFacts ==
    ASSUME umem \in [0 .. PAGE_CELLS - 1 -> Int],
           NEW a \in Nat, NEW b \in 0 .. PAGE_CELLS - 1, a <= b, umem[b] >= 0
    PROVE  /\ StringAt(a) \in Seq(Int) /\ Len(StringAt(a)) \in 0 .. b - a + MAGIC_BYTES
           /\ \A k \in 1 .. Len(StringAt(a)) : StringAt(a)[k] < 0
<1> DEFINE T == {x \in a .. b : umem[x] >= 0}
           e == StringEnd(a)
<1>0. PAGE_CELLS \in Nat
  BY UserlandAssumption DEF UserlandAssumption
<1>1. T \subseteq Nat /\ b \in T
  BY <1>0
<1>2. PICK l \in T : \A y \in T : l <= y
  BY <1>1, NatMin
<1>3. l \in a .. PAGE_CELLS - 1 /\ umem[l] >= 0 /\ l <= b
  BY <1>0, <1>2
<1>4. ASSUME NEW x \in a .. l - 1 PROVE umem[x] < 0
  <2>1. x \in a .. b /\ ~(l <= x) /\ x \in 0 .. PAGE_CELLS - 1
    BY <1>0, <1>3
  <2>2. ~(umem[x] >= 0)
    BY <1>2, <2>1
  <2> QED
    BY <2>1, <2>2
<1>5. /\ e \in a .. PAGE_CELLS - 1 /\ umem[e] >= 0 /\ \A x \in a .. e - 1 : umem[x] < 0
  BY <1>3, <1>4 DEF StringEnd
<1> HIDE DEF e
<1>6. e <= b
  <2> SUFFICES ASSUME e > b PROVE FALSE
    BY <1>0, <1>5
  <2>1. b \in a .. e - 1
    BY <1>0, <1>5
  <2>2. umem[b] < 0
    BY <1>5, <2>1
  <2> QED
    BY <1>0, <2>2
<1> DEFINE front == [k \in 1 .. e - a |-> umem[a + k - 1]]
           back == [k \in 1 .. bytes_read(umem[e]) |-> Odd]
<1>7. /\ e - a \in Nat /\ front \in Seq(Int) /\ Len(front) = e - a
      /\ \A k \in 1 .. e - a : front[k] < 0
  <2>1. e - a \in Nat
    BY <1>0, <1>5
  <2>2. ASSUME NEW k \in 1 .. e - a
        PROVE  umem[a + k - 1] \in Int /\ umem[a + k - 1] < 0
    <3>1. a + k - 1 \in a .. e - 1 /\ a + k - 1 \in 0 .. PAGE_CELLS - 1
      BY <1>0, <1>5
    <3> QED
      BY <1>5, <3>1
  <2> QED
    BY <2>1, <2>2
<1>8. back \in Seq(Int) /\ Len(back) \in 0 .. 4 /\ \A k \in 1 .. Len(back) : back[k] < 0
  <2>1. PICK m \in 0 .. 4 : m = bytes_read(umem[e])
    BY BytesRead DEF MAGIC_BYTES
  <2>2. Odd \in Int /\ Odd < 0
    BY DEF Odd
  <2>3. back = [k \in 1 .. m |-> Odd]
    BY <2>1
  <2> HIDE DEF back
  <2> QED
    BY <2>2, <2>3, Repeated
<1>9. StringAt(a) = front \o back
  BY DEF StringAt, e
<1> HIDE DEF front, back
<1>10. /\ front \o back \in Seq(Int) /\ Len(front \o back) = Len(front) + Len(back)
       /\ \A k \in 1 .. Len(front \o back) :
             (front \o back)[k] = IF k <= Len(front) THEN front[k] ELSE back[k - Len(front)]
  BY <1>7, <1>8, ConcatProperties
<1>11. ASSUME NEW k \in 1 .. Len(front \o back) PROVE (front \o back)[k] < 0
  <2>1. CASE k <= Len(front)
    BY <1>7, <1>10, <2>1
  <2>2. CASE ~(k <= Len(front))
    <3>1. k - Len(front) \in 1 .. Len(back)
      BY <1>7, <1>8, <1>10, <2>2
    <3> QED
      BY <1>8, <1>10, <2>2, <3>1
  <2> QED
    BY <2>1, <2>2
<1>12. Len(front \o back) \in 0 .. b - a + MAGIC_BYTES
  <2>1. e \in Int /\ b \in Int /\ Len(back) \in 0 .. 4 /\ Len(front \o back) = (e - a) + Len(back)
    BY <1>0, <1>5, <1>7, <1>8, <1>10
  <2>2. PICK n \in 0 .. 4 : n = Len(back)
    BY <2>1
  <2>3. PICK d \in Nat : d = e - a
    BY <1>7
  <2>4. d <= b - a
    BY <1>6, <2>1, <2>3
  <2>5. d + n \in 0 .. b - a + 4
    BY <2>1, <2>4
  <2> QED
    BY <2>1, <2>2, <2>3, <2>5 DEF MAGIC_BYTES
<1> QED
  BY <1>9, <1>10, <1>11, <1>12

(* A text without a zero is printed as a whole.                            *)
LEMMA NoZero ==
    ASSUME NEW text \in Seq(Int), \A k \in 1 .. Len(text) : text[k] < 0
    PROVE  FirstZero(text) = 0
<1>1. ASSUME NEW k \in 1 .. Len(text) PROVE ~(text[k] >= 0)
  <2>1. text[k] \in Int
    OBVIOUS
  <2> QED
    BY <2>1
<1> QED
  BY <1>1 DEF FirstZero, SelectInSeq
-----------------------------------------------------------------------------
(* What the invariant says of the page and of the next call.               *)

\* Numbers and bounds of the chunks.
LEMMA Layout ==
    ASSUME BInv
    PROVE  /\ PAGE_CELLS \in Nat /\ HEADER \in Nat /\ HEADER >= 3
           /\ first_item \in 0 .. PAGE_CELLS - 1 /\ Len(chunks) \in Nat
           /\ \A i \in 1 .. Len(chunks) :
                 /\ chunks[i][1] \in Nat \ {0} /\ chunks[i][2] \in Nat
                 /\ chunks[i][1] + chunks[i][2] <= first_item
           /\ chunks # <<>> => /\ Len(chunks) >= 1
                               /\ chunks[Len(chunks)][1] + chunks[Len(chunks)][2] = first_item
<1>1. PAGE_CELLS \in Nat /\ HEADER \in Nat /\ HEADER >= 3
  BY UserlandAssumption DEF UserlandAssumption
<1>2. first_item \in 0 .. PAGE_CELLS - 1 /\ chunks \in Seq(Int \X Int) /\ Len(chunks) \in Nat
  BY DEF BInv, HInv, UserChunksDisjoint, Mapped
<1>3. ASSUME chunks # <<>>
      PROVE  Len(chunks) >= 1 /\ chunks[Len(chunks)][1] + chunks[Len(chunks)][2] = first_item
  BY <1>2, <1>3 DEF BInv, HInv, UserChunksDisjoint, Last
<1> QED
  BY <1>1, <1>2, <1>3 DEF BInv, Apart

\* A process that has not called init_printf calls it next.
LEMMA FirstIsInit ==
    ASSUME NotStarted
    PROVE  /\ prog # <<>> /\ Head(prog).op = "init_printf" /\ Head(prog).n = BUFFER_SIZE
           /\ Tail(prog) \in Programs
<1>1. PICK p \in Programs : prog = <<FirstCall>> \o p
  BY DEF NotStarted
<1>2. PICK S : p \in Seq(S)
  BY UserlandAssumption DEF UserlandAssumption
<1> DEFINE T == S \cup {FirstCall}
<1>3. PICK x : x = FirstCall
  OBVIOUS
<1>4. x \in T /\ p \in Seq(T)
  BY <1>2, <1>3
<1> HIDE DEF T
<1>5. Head(<<x>> \o p) = x /\ Tail(<<x>> \o p) = p /\ <<x>> \o p # <<>>
  BY <1>4
<1>6. Head(prog) = x /\ Tail(prog) = p /\ prog # <<>>
  BY <1>1, <1>3, <1>5
<1>7. x.op = "init_printf" /\ x.n = BUFFER_SIZE
  BY <1>3 DEF FirstCall
<1> QED
  BY <1>6, <1>7

(* After that, the next call is careful, and so is what is left then.      *)
LEMMA NextCall ==
    ASSUME BInv, chunks # <<>>, prog # <<>>
    PROVE  /\ Fits(Head(prog), Room, Fresh)
           /\ Head(prog).op = "malloc" => Careful(Tail(prog), Head(prog).n, TRUE)
           /\ Head(prog).op # "malloc" => Careful(Tail(prog), Room, Fresh /\ Head(prog).op # "read")
<1>1. PICK S : prog \in Seq(S)
  BY DEF BInv, HInv, WellFormed
<1>2. Careful(prog, Room, Fresh) /\ Fresh \in BOOLEAN
  BY DEF BInv, Started, Fresh
<1> QED
  BY <1>1, <1>2, CarefulTail

(* A call other than init_printf comes after it.                           *)
LEMMA CallsAfterInit ==
    ASSUME BInv, prog # <<>>, Head(prog).op # "init_printf"
    PROVE  chunks # <<>>
  BY FirstIsInit DEF BInv

\* The cells of a chunk that hold what was typed, and the one behind them.
LEMMA Within ==
    ASSUME NEW a \in Nat, NEW n \in Nat, NEW z \in Nat, NEW c \in Nat, n <= z, z <= c
    PROVE  /\ \A k \in 1 .. n : a + k - 1 \in a .. a + c - 1
           /\ n < z => a + n \in a .. a + c - 1
  OBVIOUS

(* What read stored stays when no cell of its chunk is written.            *)
LEMMA InputStays ==
    ASSUME InputOK, UNCHANGED input, chunks \in Seq(Int \X Int), Apart,
           \A i \in 2 .. Len(chunks) : chunks[i][1] = input.at =>
              /\ i \in 2 .. Len(chunks') /\ chunks'[i] = chunks[i]
              /\ \A x \in chunks[i][1] .. chunks[i][1] + chunks[i][2] - 1 : umem'[x] = umem[x]
    PROVE  InputOK'
<1>1. CASE input.at = 0 /\ input.size = 0
  <2>1. Len(input.chars) = 0
    BY <1>1 DEF InputOK
  <2> QED
    BY <1>1, <2>1 DEF InputOK
<1>2. CASE ~(input.at = 0 /\ input.size = 0)
  <2>1. PICK i \in 2 .. Len(chunks) : chunks[i][1] = input.at /\ input.size <= chunks[i][2]
    BY <1>2 DEF InputOK
  <2>2. /\ i \in 2 .. Len(chunks') /\ chunks'[i] = chunks[i]
        /\ \A x \in chunks[i][1] .. chunks[i][1] + chunks[i][2] - 1 : umem'[x] = umem[x]
    BY <2>1
  <2>3. /\ Len(input.chars) \in Nat /\ Len(input.chars) <= input.size /\ input.at \in Nat
        /\ input.size \in Nat /\ i \in 1 .. Len(chunks)
    BY DEF InputOK
  <2>4. chunks[i][2] \in Nat
    BY <2>3 DEF Apart
  <2>5. /\ chunks[i][1] = input.at /\ chunks[i][2] \in Nat /\ input.at \in Nat
        /\ Len(input.chars) \in Nat /\ input.size \in Nat
        /\ Len(input.chars) <= input.size /\ input.size <= chunks[i][2]
    BY <2>1, <2>3, <2>4
  <2>6. /\ \A k \in 1 .. Len(input.chars) :
              input.at + k - 1 \in chunks[i][1] .. chunks[i][1] + chunks[i][2] - 1
        /\ Len(input.chars) < input.size =>
              input.at + Len(input.chars) \in chunks[i][1] .. chunks[i][1] + chunks[i][2] - 1
    <3>1. PICK a \in Nat, n \in Nat, z \in Nat, c \in Nat :
             /\ a = input.at /\ n = Len(input.chars) /\ z = input.size /\ c = chunks[i][2]
      BY <2>5, Zenon
    <3>2. n <= z /\ z <= c
      BY <2>5, <3>1, Zenon
    <3>3. /\ \A k \in 1 .. n : a + k - 1 \in a .. a + c - 1
          /\ n < z => a + n \in a .. a + c - 1
      BY <3>2, Within, Zenon
    <3> QED
      BY <2>5, <3>1, <3>3, Zenon
  <2>7. /\ \A k \in 1 .. Len(input.chars) : umem[input.at + k - 1] = input.chars[k]
        /\ (input.done /\ Len(input.chars) < input.size) => umem[input.at + Len(input.chars)] = 0
    BY Zenon DEF InputOK
  <2>8. ASSUME NEW k \in 1 .. Len(input.chars) PROVE umem'[input.at + k - 1] = input.chars[k]
    <3>1. input.at + k - 1 \in chunks[i][1] .. chunks[i][1] + chunks[i][2] - 1
      BY <2>6
    <3> QED
      BY <2>2, <2>7, <3>1
  <2>9. ASSUME input.done, Len(input.chars) < input.size
        PROVE  umem'[input.at + Len(input.chars)] = 0
    <3>1. input.at + Len(input.chars) \in chunks[i][1] .. chunks[i][1] + chunks[i][2] - 1
      BY <2>6, <2>9
    <3> QED
      BY <2>2, <2>7, <2>9, <3>1
  <2>10. \E j \in 2 .. Len(chunks') : chunks'[j][1] = input.at /\ input.size <= chunks'[j][2]
    BY <2>1, <2>2
  <2> QED
    BY <2>8, <2>9, <2>10 DEF InputOK
<1> QED
  BY <1>1, <1>2

(* A step that leaves page, program and input alone.                       *)
LEMMA Quiet ==
    ASSUME BInv, UNCHANGED <<umem, first_item, chunks, buffer, ptr, input, prog>>,
           rhr' \in Int, console' \in Seq(Int), formatted' \in Seq(Int),
           chunks = <<>> => (pc' \in {"boot", "user"} \/ cause' = "fault")
    PROVE  /\ CellsOK' /\ Apart' /\ InputOK'
           /\ IF chunks' = <<>> THEN NotStarted' ELSE Started'
<1>1. CellsOK'
  BY DEF BInv, CellsOK
<1>4. Apart'
  BY DEF BInv, Apart
<1>5. InputOK'
  BY DEF BInv, InputOK
<1>2. ASSUME chunks = <<>> PROVE chunks' = <<>> /\ NotStarted'
  BY <1>2 DEF BInv, NotStarted
<1>3. ASSUME chunks # <<>> PROVE chunks' # <<>> /\ Started'
  <2>1. Started
    BY <1>3 DEF BInv
  <2>2. Room' = Room /\ Fresh' = Fresh
    BY DEF Room, Fresh
  <2>3. Careful(prog, Room, Fresh)'
    BY <2>1, <2>2 DEF Started
  <2>4. Started'
    BY <2>1, <2>3 DEF Started
  <2> QED
    BY <1>3, <2>4
<1> QED
  BY <1>1, <1>2, <1>3, <1>4, <1>5

(* A step of the trap path that begins no system call, and what it leaves  *)
(* of the one in progress.                                                 *)
LEMMA QuietCall ==
    ASSUME BInv, UNCHANGED <<umem, chunks, input, args, counter, console, formatted>>,
           (pc' \in {"handler", "syscall"} /\ cause' = "ecall") =>
               (pc \in {"handler", "syscall"} /\ cause = "ecall"),
           pc' = "syscall" => cause' = "ecall",
           pc' \in {"boot", "user", "return"} =>
               (pc \in {"boot", "user", "return"} \/ (pc = "syscall" /\ args.a7 # 1))
    PROVE  ReadOK' /\ GetcwdOK' /\ ConsoleOK'
<1>1. \A n : Busy(n)' => Busy(n)
  BY DEF Busy
<1>2. ReadOK'
  BY <1>1 DEF BInv, ReadOK
<1>3. GetcwdOK'
  BY <1>1 DEF BInv, GetcwdOK
<1>4. Pending => Pending'
  BY DEF Pending, Cells
<1>5. Busy(1)' => ((args.at = PAGE_CELLS /\ args.len = 1) \/ Pending)'
  BY <1>1, <1>4 DEF BInv, ConsoleOK
<1>6. ASSUME \/ pc' \in {"boot", "user", "return"}
             \/ pc' \in {"handler", "syscall"} /\ cause' = "ecall" /\ args'.a7 # 1
      PROVE  console' = formatted'
  <2>1. CASE pc' \in {"boot", "user", "return"}
    BY <2>1 DEF BInv, ConsoleOK
  <2>2. CASE pc' \in {"handler", "syscall"} /\ cause' = "ecall" /\ args'.a7 # 1
    BY <2>2 DEF BInv, ConsoleOK
  <2> QED
    BY <1>6, <2>1, <2>2
<1> QED
  BY <1>2, <1>3, <1>5, <1>6 DEF ConsoleOK

(* The steps of trap path and UART that move nothing else, and a call that *)
(* does nothing to the process.                                            *)
LEMMA PlainSteps ==
    ASSUME BInv, Start \/ MallocFaults \/ LoadWild \/ Handler \/ handle_write_faults \/ handle_other
                   \/ Return \/ (\E c \in Chars \cup {CR} : Type(c)) \/ UNCHANGED vars
    PROVE  BInv'
<1>1. UNCHANGED <<umem, first_item, chunks, buffer, ptr, input, prog, args, counter, console, formatted>>
  BY DEF Start, MallocFaults, LoadWild, Handler, handle_write_faults, handle_other, Return, Type,
         vars, libVars, sysVars
<1>2. rhr' \in Int
  <2>1. rhr' = rhr \/ \E c \in Chars \cup {CR} : rhr' = c
    BY DEF Start, MallocFaults, LoadWild, Handler, handle_write_faults, handle_other, Return, Type,
           vars, sysVars
  <2>2. \A c \in Chars \cup {CR} : c \in Int
    <3>1. Chars \subseteq Int
      BY UserlandAssumption, Zenon DEF UserlandAssumption
    <3>2. CR \in Int
      BY DEF CR
    <3> QED
      BY <3>1, <3>2, Zenon
  <2> QED
    BY <2>1, <2>2 DEF BInv, CellsOK
<1>3. \/ pc = "boot" /\ pc' = "user"
      \/ pc \in {"user", "syscall"} /\ pc' \in {"handler", "wild"} /\ cause' = "fault"
      \/ pc = "handler" /\ cause' = cause /\ pc' = IF cause = "ecall" THEN "syscall" ELSE "dead"
      \/ pc = "syscall" /\ args.a7 # 1 /\ pc' = "return" /\ cause' = cause
      \/ pc = "return" /\ pc' = "user" /\ cause' = cause
      \/ pc' = pc /\ cause' = cause
  <2>1. CASE Start
    BY <2>1 DEF Start, switch_to_process
  <2>2. CASE MallocFaults \/ LoadWild
    BY <2>2 DEF MallocFaults, LoadWild, Trap, EnterKernel
  <2>3. CASE Handler
    BY <2>3 DEF Handler, machine_exception_handler
  <2>4. CASE handle_write_faults
    BY <2>4 DEF handle_write_faults, KernelFault, EnterKernel
  <2>5. CASE handle_other
    BY <2>5 DEF handle_other, SyscallDone
  <2>6. CASE Return
    BY <2>6 DEF Return, jump_back_to_userspace
  <2>7. CASE \E c \in Chars \cup {CR} : Type(c)
    BY <2>7 DEF Type, trapVars
  <2>8. CASE UNCHANGED vars
    BY <2>8 DEF vars, trapVars
  <2> QED
    BY <2>1, <2>2, <2>3, <2>4, <2>5, <2>6, <2>7, <2>8
<1>4. pc = "syscall" => cause = "ecall"
  BY DEF BInv, ConsoleOK
<1>5. chunks = <<>> => (pc \in {"boot", "user"} \/ cause = "fault")
  BY DEF BInv, NotStarted
<1>6. /\ CellsOK' /\ Apart' /\ InputOK'
      /\ IF chunks' = <<>> THEN NotStarted' ELSE Started'
  <2>1. console' \in Seq(Int) /\ formatted' \in Seq(Int)
    BY <1>1 DEF BInv, CellsOK
  <2>2. chunks = <<>> => (pc' \in {"boot", "user"} \/ cause' = "fault")
    BY <1>3, <1>4, <1>5
  <2>3. UNCHANGED <<umem, first_item, chunks, buffer, ptr, input, prog>>
    BY <1>1
  <2> QED
    BY <1>2, <2>1, <2>2, <2>3, Quiet
<1>7. ReadOK' /\ GetcwdOK' /\ ConsoleOK'
  <2>1. /\ (pc' \in {"handler", "syscall"} /\ cause' = "ecall") =>
               (pc \in {"handler", "syscall"} /\ cause = "ecall")
        /\ pc' = "syscall" => cause' = "ecall"
        /\ pc' \in {"boot", "user", "return"} =>
               (pc \in {"boot", "user", "return"} \/ (pc = "syscall" /\ args.a7 # 1))
    BY <1>3, <1>4
  <2>2. UNCHANGED <<umem, chunks, input, args, counter, console, formatted>>
    BY <1>1
  <2> QED
    BY <2>1, <2>2, QuietCall
<1>8. HInv'
  BY <1>1 DEF BInv, HInv, UserChunksDisjoint, Mapped
<1> QED
  BY <1>6, <1>7, <1>8 DEF BInv

(* The process has been started when a system call is served.              *)
LEMMA Serving ==
    ASSUME BInv, pc = "syscall"
    PROVE  chunks # <<>> /\ Started /\ Busy(args.a7)
  BY DEF BInv, ConsoleOK, NotStarted, Busy

(* What is left of the program stays careful.                              *)
LEMMA StartedStays ==
    ASSUME Started, UNCHANGED <<prog, chunks, buffer, ptr>>, input'.at = input.at
    PROVE  Started'
<1>1. Room' = Room /\ Fresh' = Fresh
  BY DEF Room, Fresh
<1>2. Careful(prog, Room, Fresh)'
  BY <1>1 DEF Started
<1> QED
  BY <1>2 DEF Started

(* write puts on the console what printf left in its buffer.               *)
LEMMA WriteBInv ==
    ASSUME BInv, handle_write
    PROVE  BInv'
<1> DEFINE text == Cells(args.at, args.len)
<1>1. /\ pc = "syscall" /\ args.a7 = 1 /\ ~WriteFaults /\ pc' = "return"
      /\ console' = console \o (IF FirstZero(text) = 0 THEN text
                                ELSE SubSeq(text, 1, FirstZero(text) - 1))
      /\ UNCHANGED <<umem, first_item, chunks, buffer, ptr, input, prog, args, counter, formatted, rhr>>
  BY DEF handle_write, Service, SyscallDone, libVars, Cells
<1>2. Busy(1) /\ chunks # <<>>
  BY <1>1, Serving
<1>3. PAGE_CELLS \in Nat
  BY UserlandAssumption DEF UserlandAssumption
<1>4. ~(args.at = PAGE_CELLS /\ args.len = 1)
  BY <1>1, <1>3 DEF WriteFaults, Mapped
<1>5. Pending
  BY <1>2, <1>4 DEF BInv, ConsoleOK
<1>6. text \in Seq(Int) /\ \A k \in 1 .. Len(text) : text[k] < 0
  <2>1. ASSUME NEW k \in 1 .. args.len PROVE umem[args.at + k - 1] \in Int
    <3>1. args.at + k - 1 \in 0 .. PAGE_CELLS - 1
      BY <1>3, <1>5 DEF Pending
    <3> QED
      BY <3>1 DEF BInv, CellsOK
  <2>2. args.len \in Nat /\ \A k \in 1 .. args.len : umem[args.at + k - 1] < 0
    BY <1>5 DEF Pending
  <2> QED
    BY <2>1, <2>2 DEF Cells
<1> HIDE DEF text
<1>7. console' = console \o text
  BY <1>1, <1>6, NoZero
<1>8. console' = formatted'
  BY <1>1, <1>5, <1>7 DEF Pending, text
<1>9. console' \in Seq(Int) /\ rhr' \in Int /\ formatted' \in Seq(Int)
  BY <1>1, <1>8 DEF BInv, CellsOK
<1>10. /\ CellsOK' /\ Apart' /\ InputOK' /\ IF chunks' = <<>> THEN NotStarted' ELSE Started'
  BY <1>1, <1>2, <1>9, Quiet
<1>11. ReadOK' /\ GetcwdOK' /\ ConsoleOK'
  BY <1>1, <1>8 DEF ReadOK, GetcwdOK, ConsoleOK, Busy
<1>12. HInv'
  BY <1>1 DEF BInv, HInv, UserChunksDisjoint, Mapped
<1> QED
  BY <1>10, <1>11, <1>12 DEF BInv

(* read returns because its buffer is full: there is no cell for a zero.   *)
LEMMA ReadFullBInv ==
    ASSUME BInv, read_full
    PROVE  BInv'
<1>1. /\ pc = "syscall" /\ args.a7 = 0 /\ ~ReadMore /\ pc' = "return"
      /\ input' = [input EXCEPT !.done = TRUE]
      /\ UNCHANGED <<umem, first_item, chunks, buffer, ptr, prog, args, counter, console, formatted, rhr>>
  BY DEF read_full, Service, SyscallDone, libVars
<1>2. Busy(0) /\ chunks # <<>> /\ Started
  BY <1>1, Serving
<1>3. /\ input \in [at : Nat, size : Nat, chars : Seq(Int), done : BOOLEAN]
      /\ Len(input.chars) <= input.size
  BY DEF BInv, InputOK
<1>4. /\ input'.at = input.at /\ input'.size = input.size /\ input'.chars = input.chars
      /\ input' \in [at : Nat, size : Nat, chars : Seq(Int), done : BOOLEAN]
  BY <1>1, <1>3
<1>5. ~(Len(input.chars) < input.size)
  BY <1>1, <1>2 DEF BInv, ReadOK, ReadMore
<1>6. InputOK'
  <2>1. /\ \A k \in 1 .. Len(input.chars) : umem[input.at + k - 1] = input.chars[k]
        /\ \/ input.at = 0 /\ input.size = 0
           \/ \E i \in 2 .. Len(chunks) : chunks[i][1] = input.at /\ input.size <= chunks[i][2]
    BY Zenon DEF BInv, InputOK
  <2> QED
    BY <1>1, <1>3, <1>4, <1>5, <2>1 DEF InputOK
<1>7. Started'
  BY <1>1, <1>2, <1>4, StartedStays
<1>8. CellsOK' /\ Apart' /\ HInv'
  BY <1>1 DEF BInv, CellsOK, Apart, HInv, UserChunksDisjoint, Mapped
<1>9. console' = formatted'
  BY <1>1, <1>2 DEF BInv, ConsoleOK, Busy
<1>10. ReadOK' /\ GetcwdOK' /\ ConsoleOK'
  BY <1>1, <1>9 DEF ReadOK, GetcwdOK, ConsoleOK, Busy
<1> QED
  BY <1>1, <1>2, <1>6, <1>7, <1>8, <1>10 DEF BInv

\* A step that writes cells of one chunk only.
StoresIn(c) ==
    /\ c \in 1 .. Len(chunks)
    /\ \A x \in 0 .. PAGE_CELLS - 1 :
          (x < chunks[c][1] \/ x >= chunks[c][1] + chunks[c][2]) => umem'[x] = umem[x]

(* The cells of a text that is stored.                                     *)
LEMMA StoredFacts ==
    ASSUME umem \in [0 .. PAGE_CELLS - 1 -> Int], NEW a \in Nat, NEW text \in Seq(Int)
    PROVE  /\ Stored(a, text) \in [0 .. PAGE_CELLS - 1 -> Int]
           /\ \A x \in 0 .. PAGE_CELLS - 1 :
                 (x < a \/ x >= a + Len(text)) => Stored(a, text)[x] = umem[x]
           /\ \A k \in 1 .. Len(text) :
                 a + k - 1 \in 0 .. PAGE_CELLS - 1 => Stored(a, text)[a + k - 1] = text[k]
<1>0. PAGE_CELLS \in Nat /\ Len(text) \in Nat /\ DOMAIN umem = 0 .. PAGE_CELLS - 1
  BY UserlandAssumption DEF UserlandAssumption
<1>1. ASSUME NEW x \in 0 .. PAGE_CELLS - 1, x >= a /\ x < a + Len(text)
      PROVE  text[x - a + 1] \in Int
  <2>1. x - a + 1 \in 1 .. Len(text)
    BY <1>0, <1>1
  <2> QED
    BY <2>1
<1>2. Stored(a, text) \in [0 .. PAGE_CELLS - 1 -> Int]
  BY <1>0, <1>1 DEF Stored
<1>3. ASSUME NEW x \in 0 .. PAGE_CELLS - 1, x < a \/ x >= a + Len(text)
      PROVE  Stored(a, text)[x] = umem[x]
  BY <1>0, <1>3 DEF Stored
<1>4. ASSUME NEW k \in 1 .. Len(text), a + k - 1 \in 0 .. PAGE_CELLS - 1
      PROVE  Stored(a, text)[a + k - 1] = text[k]
  <2>1. a + k - 1 >= a /\ a + k - 1 < a + Len(text) /\ (a + k - 1) - a + 1 = k
    BY <1>0
  <2> QED
    BY <1>0, <1>4, <2>1 DEF Stored
<1> QED
  BY <1>2, <1>3, <1>4

(* A step that stores in one chunk, and not in that of the latest read,    *)
(* leaves the input and the free item's first cell alone.                  *)
LEMMA StoreInChunk ==
    ASSUME BInv, UNCHANGED <<first_item, chunks, input>>, NEW c \in 1 .. Len(chunks),
           c = 1 \/ chunks[c][1] # input.at,
           \A x \in 0 .. PAGE_CELLS - 1 :
              (x < chunks[c][1] \/ x >= chunks[c][1] + chunks[c][2]) => umem'[x] = umem[x]
    PROVE  umem'[first_item] = umem[first_item] /\ InputOK'
<1>1. /\ PAGE_CELLS \in Nat /\ first_item \in 0 .. PAGE_CELLS - 1 /\ Len(chunks) \in Nat
      /\ \A i \in 1 .. Len(chunks) :
            /\ chunks[i][1] \in Nat \ {0} /\ chunks[i][2] \in Nat
            /\ chunks[i][1] + chunks[i][2] <= first_item
  BY Layout
<1>2. umem'[first_item] = umem[first_item]
  <2>1. first_item >= chunks[c][1] + chunks[c][2]
    BY <1>1
  <2> QED
    BY <1>1, <2>1
<1>3. ASSUME NEW i \in 2 .. Len(chunks), chunks[i][1] = input.at,
             NEW x \in chunks[i][1] .. chunks[i][1] + chunks[i][2] - 1
      PROVE  umem'[x] = umem[x]
  <2>1. i # c /\ i \in 1 .. Len(chunks)
    BY <1>1, <1>3
  <2>2. i < c \/ c < i
    BY <1>1, <2>1
  <2>3. chunks[i][1] + chunks[i][2] <= chunks[c][1] \/ chunks[c][1] + chunks[c][2] <= chunks[i][1]
    BY <2>1, <2>2 DEF BInv, Apart
  <2>4. PICK a \in Nat, n \in Nat, b \in Nat, m \in Nat :
          a = chunks[i][1] /\ n = chunks[i][2] /\ b = chunks[c][1] /\ m = chunks[c][2]
    BY <1>1, <2>1
  <2>5. x \in 0 .. PAGE_CELLS - 1 /\ (x < b \/ x >= b + m)
    <3>1. a + n <= first_item /\ (a + n <= b \/ b + m <= a) /\ x \in a .. a + n - 1
      BY <1>1, <2>1, <2>3, <2>4
    <3> QED
      BY <1>1, <3>1
  <2> QED
    BY <2>4, <2>5
<1>4. InputOK'
  <2>1. InputOK /\ Apart /\ chunks \in Seq(Int \X Int)
    BY DEF BInv, HInv
  <2>2. \A i \in 2 .. Len(chunks) : chunks[i][1] = input.at =>
              /\ i \in 2 .. Len(chunks') /\ chunks'[i] = chunks[i]
              /\ \A x \in chunks[i][1] .. chunks[i][1] + chunks[i][2] - 1 : umem'[x] = umem[x]
    BY <1>3, Zenon
  <2> QED
    BY <2>1, <2>2, InputStays
<1> QED
  BY <1>2, <1>4

(* getcwd copies a path that fits in the chunk it was given.               *)
LEMMA GetcwdServedBInv ==
    ASSUME BInv, handle_getcwd
    PROVE  BInv' /\ StoresIn(Len(chunks))
<1>1. /\ pc = "syscall" /\ args.a7 = 79 /\ pc' = "return" /\ umem' = Stored(args.at, copy_into)
      /\ UNCHANGED <<first_item, chunks, buffer, ptr, prog, args, counter, console, formatted, rhr, input>>
  BY DEF handle_getcwd, Service, SyscallDone, sysVars
<1>2. Busy(79) /\ chunks # <<>> /\ Started
  BY <1>1, Serving
<1> DEFINE c == Len(chunks)
<1>3. /\ c > 1 /\ chunks[c][1] = args.at /\ PathLength + 1 <= chunks[c][2] /\ args.at # input.at
  BY <1>2 DEF BInv, GetcwdOK
<1>4. c \in 1 .. Len(chunks) /\ chunks[c][1] \in Nat /\ chunks[c][2] \in Nat /\ PathLength \in Nat
  BY <1>3, Layout, UserlandAssumption DEF UserlandAssumption
<1> HIDE DEF c
<1>5. PICK text : text = copy_into
  OBVIOUS
<1>6. text \in Seq(Int) /\ Len(text) = PathLength + 1
  <2> DEFINE f == [k \in 1 .. PathLength |-> PathChar]
             o == <<Odd>>
  <2>1. f \in Seq(Int) /\ Len(f) = PathLength /\ o \in Seq(Int) /\ Len(o) = 1
    BY <1>4 DEF PathChar, Odd
  <2>2. text = f \o o
    BY <1>5 DEF copy_into
  <2> HIDE DEF f, o
  <2>3. f \o o \in Seq(Int) /\ Len(f \o o) = Len(f) + Len(o)
    BY <2>1, ConcatProperties
  <2>4. Len(f \o o) = PathLength + 1
    BY <2>1, <2>3
  <2> QED
    BY <2>2, <2>3, <2>4
<1>7. umem \in [0 .. PAGE_CELLS - 1 -> Int]
  BY DEF BInv, CellsOK
<1>8. /\ umem' \in [0 .. PAGE_CELLS - 1 -> Int]
      /\ \A x \in 0 .. PAGE_CELLS - 1 :
            (x < args.at \/ x >= args.at + Len(text)) => umem'[x] = umem[x]
  <2>1. args.at \in Nat
    BY <1>3, <1>4
  <2> QED
    BY <1>1, <1>5, <1>6, <1>7, <2>1, StoredFacts
<1>9. ASSUME NEW x \in 0 .. PAGE_CELLS - 1, x < chunks[c][1] \/ x >= chunks[c][1] + chunks[c][2]
      PROVE  umem'[x] = umem[x]
  <2>1. PAGE_CELLS \in Nat
    BY UserlandAssumption DEF UserlandAssumption
  <2>2. x < args.at \/ x >= args.at + Len(text)
    BY <1>3, <1>4, <1>6, <1>9, <2>1
  <2> QED
    BY <1>8, <2>2
<1>10. umem'[first_item] = umem[first_item] /\ InputOK'
  BY <1>1, <1>3, <1>4, <1>9, StoreInChunk
<1>11. CellsOK'
  BY <1>1, <1>8, <1>10 DEF BInv, CellsOK
<1>12. Apart' /\ HInv'
  BY <1>1 DEF BInv, Apart, HInv, UserChunksDisjoint, Mapped
<1>13. Started'
  BY <1>1, <1>2, StartedStays
<1>14. ReadOK' /\ GetcwdOK' /\ ConsoleOK'
  BY <1>1, <1>2 DEF BInv, ReadOK, GetcwdOK, ConsoleOK, Busy
<1>15. StoresIn(Len(chunks))
  BY <1>4, <1>9, Zenon DEF StoresIn, c
<1> QED
  BY <1>1, <1>2, <1>10, <1>11, <1>12, <1>13, <1>14, <1>15 DEF BInv

(* One turn of read stores what was typed, or the zero behind it, in the   *)
(* cell behind what it has stored.                                         *)
LEMMA ReadTurnBInv ==
    ASSUME BInv, read
    PROVE  BInv' /\ \E c \in 1 .. Len(chunks) : StoresIn(c)
<1>1. /\ pc = "syscall" /\ args.a7 = 0 /\ ReadMore /\ cause' = cause /\ rhr' = None
      /\ console' = Append(console, Echo(rhr)) /\ formatted' = Append(formatted, Echo(rhr))
      /\ UNCHANGED <<first_item, chunks, buffer, ptr, prog, args>>
  BY DEF read, Service
<1>2. Busy(0) /\ chunks # <<>> /\ Started
  BY <1>1, Serving
<1>3. /\ args.at = input.at /\ args.len = input.size /\ ~input.done /\ counter = Len(input.chars)
  BY <1>2 DEF BInv, ReadOK
<1>4. /\ input \in [at : Nat, size : Nat, chars : Seq(Int), done : BOOLEAN]
      /\ \A k \in 1 .. Len(input.chars) : umem[input.at + k - 1] = input.chars[k]
  BY Zenon DEF BInv, InputOK
<1> DEFINE n == Len(input.chars)
           a == input.at
<1>5. n \in Nat /\ n < input.size /\ a \in Nat /\ input.size \in Nat /\ input.chars \in Seq(Int)
  BY <1>1, <1>3, <1>4 DEF ReadMore
<1>6. PICK i \in 2 .. Len(chunks) : chunks[i][1] = a /\ input.size <= chunks[i][2]
  BY <1>5 DEF BInv, InputOK
<1>7. a + n \in 0 .. PAGE_CELLS - 1 /\ a + n < first_item /\ first_item \in 0 .. PAGE_CELLS - 1
  <2>1. i \in 1 .. Len(chunks)
    BY <1>6, Layout
  <2>2. /\ chunks[i][2] \in Nat /\ a + chunks[i][2] <= first_item /\ PAGE_CELLS \in Nat
        /\ first_item \in 0 .. PAGE_CELLS - 1
    BY <1>6, <2>1, Layout
  <2> QED
    BY <1>5, <1>6, <2>2
<1>8. umem \in [0 .. PAGE_CELLS - 1 -> Int] /\ umem[first_item] >= 0 /\ rhr \in Int
  BY DEF BInv, CellsOK
<1>9. /\ console = formatted /\ console \in Seq(Int) /\ Echo(rhr) \in Int
  BY <1>2, <1>8 DEF BInv, ConsoleOK, CellsOK, Busy, Echo, NL
<1>10. console' = formatted' /\ console' \in Seq(Int) /\ formatted' \in Seq(Int)
  BY <1>1, <1>9
<1>11. PICK v \in Int : umem' = [umem EXCEPT ![a + n] = v] /\ (rhr = CR => v = 0) /\ (rhr # CR => v = rhr)
  <2>1. CASE rhr = CR
    BY <1>3, <2>1 DEF read, ZeroAt
  <2>2. CASE rhr # CR
    BY <1>3, <1>8, <2>2 DEF read
  <2> QED
    BY <2>1, <2>2
<1>12. /\ umem' \in [0 .. PAGE_CELLS - 1 -> Int] /\ umem'[a + n] = v
       /\ \A x \in 0 .. PAGE_CELLS - 1 : x # a + n => umem'[x] = umem[x]
  BY <1>7, <1>8, <1>11
<1>13. umem'[first_item] = umem[first_item]
  BY <1>5, <1>7, <1>12
<1>14. ASSUME NEW k \in 1 .. n PROVE umem'[a + k - 1] = input.chars[k]
  <2>0. PAGE_CELLS \in Nat
    BY UserlandAssumption DEF UserlandAssumption
  <2>2. umem[a + k - 1] = input.chars[k]
    BY <1>4
  <2> HIDE DEF n, a
  <2>1. a + k - 1 \in 0 .. PAGE_CELLS - 1 /\ a + k - 1 # a + n
    BY <1>5, <1>7, <2>0
  <2> QED
    BY <1>12, <2>1, <2>2
<1>15. CellsOK' /\ Apart' /\ HInv'
  <2>1. rhr' \in Int
    BY <1>1 DEF None
  <2> QED
    BY <1>1, <1>8, <1>10, <1>12, <1>13, <2>1
       DEF BInv, CellsOK, Apart, HInv, UserChunksDisjoint, Mapped
<1>16. \E c \in 1 .. Len(chunks) : StoresIn(c)
  <2>1. i \in 1 .. Len(chunks)
    BY <1>6, Layout
  <2>2. chunks[i][2] \in Nat /\ PAGE_CELLS \in Nat
    BY <2>1, Layout
  <2> HIDE DEF n, a
  <2>3. ASSUME NEW x \in 0 .. PAGE_CELLS - 1, x < chunks[i][1] \/ x >= chunks[i][1] + chunks[i][2]
        PROVE  x # a + n
    BY <1>5, <1>6, <2>2, <2>3
  <2>4. StoresIn(i)
    BY <1>12, <2>1, <2>3 DEF StoresIn
  <2> QED
    BY <2>1, <2>4
<1>17. CASE rhr = CR
  <2>1. /\ input' = [input EXCEPT !.done = TRUE] /\ pc' = "return" /\ counter' = counter
    BY <1>17 DEF read, SyscallDone
  <2>2. /\ input'.at = a /\ input'.size = input.size /\ input'.chars = input.chars
        /\ input' \in [at : Nat, size : Nat, chars : Seq(Int), done : BOOLEAN]
    BY <1>4, <2>1
  <2>3. umem'[a + n] = 0
    BY <1>11, <1>12, <1>17
  <2>4. InputOK'
    BY <1>1, <1>5, <1>6, <1>14, <2>2, <2>3 DEF InputOK
  <2>5. Started'
    BY <1>1, <1>2, <2>2, StartedStays
  <2>6. ReadOK' /\ GetcwdOK' /\ ConsoleOK'
    BY <1>10, <2>1 DEF ReadOK, GetcwdOK, ConsoleOK, Busy
  <2> QED
    BY <1>1, <1>2, <1>15, <1>16, <2>4, <2>5, <2>6 DEF BInv
<1>18. CASE rhr # CR
  <2>1. /\ input' = [input EXCEPT !.chars = Append(@, rhr)] /\ pc' = pc /\ counter' = counter + 1
    BY <1>18 DEF read
  <2>2. /\ Append(input.chars, rhr) \in Seq(Int) /\ Len(Append(input.chars, rhr)) = n + 1
        /\ \A k \in 1 .. n : Append(input.chars, rhr)[k] = input.chars[k]
        /\ Append(input.chars, rhr)[n + 1] = rhr
    BY <1>5, <1>8, AppendProperties
  <2>3. /\ input'.at = a /\ input'.size = input.size /\ input'.done = input.done
        /\ input'.chars = Append(input.chars, rhr)
        /\ input' \in [at : Nat, size : Nat, chars : Seq(Int), done : BOOLEAN]
    BY <1>4, <2>1, <2>2
  <2> HIDE DEF n, a
  <2>4. ASSUME NEW k \in 1 .. n + 1 PROVE umem'[a + k - 1] = input'.chars[k]
    <3>1. CASE k = n + 1
      <4>1. a + k - 1 = a + n
        BY <1>5, <3>1
      <4> QED
        BY <1>11, <1>12, <1>18, <2>2, <2>3, <3>1, <4>1
    <3>2. CASE k # n + 1
      <4>1. k \in 1 .. n
        BY <1>5, <3>2
      <4> QED
        BY <1>14, <2>2, <2>3, <4>1
    <3> QED
      BY <3>1, <3>2
  <2>5. Len(input'.chars) = n + 1 /\ n + 1 <= input'.size
    BY <1>5, <2>2, <2>3
  <2>6. InputOK'
    BY <1>1, <1>3, <1>6, <2>3, <2>4, <2>5 DEF InputOK
  <2>7. Started'
    BY <1>1, <1>2, <2>3, StartedStays DEF a
  <2>8. ReadOK'
    BY <1>1, <1>2, <1>3, <1>5, <2>1, <2>3, <2>5 DEF ReadOK, Busy, n, a
  <2>9. GetcwdOK' /\ ConsoleOK'
    BY <1>1, <1>2, <1>10, <2>1 DEF BInv, GetcwdOK, ConsoleOK, Busy
  <2> QED
    BY <1>1, <1>2, <1>15, <1>16, <2>6, <2>7, <2>8, <2>9 DEF BInv
<1> QED
  BY <1>16, <1>17, <1>18

(* What printf formats fits in its buffer and is all characters.           *)
LEMMA FormattedFacts ==
    ASSUME CarefulPrograms, BInv, chunks # <<>>, prog # <<>>, Head(prog).op = "printf"
    PROVE  /\ Formatted(Head(prog)) \in Seq(Int)
           /\ Len(Formatted(Head(prog))) \in 0 .. BUFFER_SIZE
           /\ \A k \in 1 .. Len(Formatted(Head(prog))) : Formatted(Head(prog))[k] < 0
<1> DEFINE o == Texts(Head(prog))
<1>1. PICK m \in 0 .. BUFFER_SIZE : m = Head(prog).text
  BY NextCall DEF Fits
<1>2. BUFFER_SIZE \in Nat
  BY UserlandAssumption DEF UserlandAssumption
<1>3. o \in Seq(Int) /\ Len(o) = m /\ \A k \in 1 .. Len(o) : o[k] < 0
  <2>1. Text \in Int /\ Text < 0 /\ m \in Nat
    BY <1>2 DEF Text
  <2>2. o = [k \in 1 .. m |-> Text]
    BY <1>1 DEF Texts
  <2> HIDE DEF o
  <2> QED
    BY <2>1, <2>2, Repeated
<1> HIDE DEF o
<1>4. CASE ~Head(prog).arg
  <2>1. Formatted(Head(prog)) = o
    BY <1>4 DEF Formatted, o
  <2> QED
    BY <1>3, <2>1
<1>5. CASE Head(prog).arg
  <2>1. Room >= 0 /\ m + Room + 4 <= BUFFER_SIZE
    BY <1>1, <1>5, NextCall DEF Fits, MAGIC_BYTES
  <2>2. Len(chunks) # 1
    BY <2>1 DEF Room, NoRoom
  <2>3. ptr = chunks[Len(chunks)][1] /\ Room = chunks[Len(chunks)][2]
    BY <2>2 DEF BInv, Started, Room
  <2>4. /\ ptr \in Nat /\ Room \in Nat /\ ptr + Room = first_item /\ first_item \in 0 .. PAGE_CELLS - 1
        /\ PAGE_CELLS \in Nat
    <3>1. Len(chunks) \in 1 .. Len(chunks)
      BY Layout
    <3> QED
      BY <2>3, <3>1, Layout
  <2>5. umem \in [0 .. PAGE_CELLS - 1 -> Int] /\ umem[first_item] >= 0
    BY DEF BInv, CellsOK
  <2>6. ptr <= first_item /\ first_item - ptr + 4 = Room + 4
    BY <2>4
  <2>7. PICK t : t = StringAt(ptr)
    OBVIOUS
  <2>8. t \in Seq(Int) /\ Len(t) \in 0 .. first_item - ptr + 4 /\ \A k \in 1 .. Len(t) : t[k] < 0
    BY <2>4, <2>5, <2>6, <2>7, StringFacts DEF MAGIC_BYTES
  <2>9. Formatted(Head(prog)) = o \o t
    BY <1>5, <2>7 DEF Formatted, o
  <2>10. /\ o \o t \in Seq(Int) /\ Len(o \o t) = Len(o) + Len(t)
         /\ \A k \in 1 .. Len(o \o t) : (o \o t)[k] = IF k <= Len(o) THEN o[k] ELSE t[k - Len(o)]
    BY <1>3, <2>8, ConcatProperties
  <2>11. Len(o \o t) \in 0 .. BUFFER_SIZE
    <3>1. PICK l \in 0 .. Room + 4 : l = Len(t)
      BY <2>6, <2>8
    <3>2. m + l \in 0 .. BUFFER_SIZE
      BY <1>2, <2>1, <2>4
    <3> QED
      BY <1>3, <2>10, <3>1, <3>2
  <2>12. ASSUME NEW k \in 1 .. Len(o \o t) PROVE (o \o t)[k] < 0
    <3>1. CASE k <= Len(o)
      BY <1>3, <2>10, <3>1
    <3>2. CASE ~(k <= Len(o))
      <4>1. k - Len(o) \in 1 .. Len(t) /\ (o \o t)[k] = t[k - Len(o)]
        BY <1>3, <2>8, <2>10, <3>2
      <4> QED
        BY <2>8, <4>1
    <3> QED
      BY <3>1, <3>2
  <2> QED
    BY <2>9, <2>10, <2>11, <2>12
<1> QED
  BY <1>4, <1>5

(* What is left of a program after a call that is neither malloc nor read. *)
LEMMA TailStays ==
    ASSUME BInv, chunks # <<>>, prog # <<>>, Head(prog).op \notin {"malloc", "read"},
           prog' = Tail(prog), UNCHANGED <<chunks, buffer, ptr>>, input'.at = input.at
    PROVE  Started'
<1>1. Room' = Room /\ Fresh' = Fresh
  BY DEF Room, Fresh
<1>2. Careful(Tail(prog), Room, Fresh /\ Head(prog).op # "read")
  BY NextCall
<1>3. (Fresh /\ Head(prog).op # "read") => Fresh
  BY Zenon
<1>4. Careful(Tail(prog), Room, Fresh)
  BY <1>2, <1>3, CarefulWeaker, Zenon
<1>5. Careful(prog, Room, Fresh)'
  BY <1>1, <1>4
<1>6. Started
  BY DEF BInv
<1> QED
  BY <1>5, <1>6 DEF Started

(* A call of printf.                                                       *)
LEMMA PrintfBInv ==
    ASSUME CarefulPrograms, BInv, Printf
    PROVE  BInv' /\ StoresIn(1)
<1> DEFINE text == Formatted(Head(prog))
<1>1. /\ pc = "user" /\ prog # <<>> /\ Head(prog).op = "printf" /\ prog' = Tail(prog)
      /\ umem' = Stored(buffer, text) /\ formatted' = formatted \o text
      /\ args' = [a7 |-> 1, at |-> buffer, len |-> Len(text)]
      /\ pc' \in {"handler", "wild"} /\ cause' = "ecall"
      /\ UNCHANGED <<first_item, chunks, buffer, ptr, input, console, rhr>>
  BY DEF Printf, Running, Syscall, Trap, EnterKernel
<1>2. chunks # <<>>
  BY <1>1, CallsAfterInit
<1>3. text \in Seq(Int) /\ Len(text) \in 0 .. BUFFER_SIZE /\ \A k \in 1 .. Len(text) : text[k] < 0
  BY <1>1, <1>2, FormattedFacts
<1> HIDE DEF text
<1>4. chunks[1] = <<buffer, BUFFER_SIZE>>
  BY <1>2 DEF BInv, Started
<1>5. /\ PAGE_CELLS \in Nat /\ first_item \in 0 .. PAGE_CELLS - 1 /\ 1 \in 1 .. Len(chunks)
      /\ chunks[1][1] \in Nat /\ chunks[1][2] \in Nat /\ chunks[1][1] + chunks[1][2] <= first_item
  BY <1>2, Layout
<1>6. buffer \in Nat /\ BUFFER_SIZE \in Nat /\ buffer + BUFFER_SIZE <= first_item
      /\ chunks[1][1] = buffer /\ chunks[1][2] = BUFFER_SIZE
  BY <1>4, <1>5
<1>7. PICK n \in 0 .. BUFFER_SIZE : n = Len(text)
  BY <1>3
<1>8. /\ umem' \in [0 .. PAGE_CELLS - 1 -> Int]
      /\ \A x \in 0 .. PAGE_CELLS - 1 : (x < buffer \/ x >= buffer + n) => umem'[x] = umem[x]
      /\ \A k \in 1 .. n : buffer + k - 1 \in 0 .. PAGE_CELLS - 1 => umem'[buffer + k - 1] = text[k]
  <2>1. umem \in [0 .. PAGE_CELLS - 1 -> Int]
    BY DEF BInv, CellsOK
  <2> QED
    BY <1>1, <1>3, <1>6, <1>7, <2>1, StoredFacts
<1>9. ASSUME NEW x \in 0 .. PAGE_CELLS - 1, x < buffer \/ x >= buffer + BUFFER_SIZE
      PROVE  umem'[x] = umem[x]
  <2>1. x < buffer \/ x >= buffer + n
    BY <1>5, <1>6, <1>9
  <2> QED
    BY <1>8, <2>1
<1>10. umem'[first_item] = umem[first_item] /\ InputOK'
  BY <1>1, <1>5, <1>6, <1>9, StoreInChunk
<1>11. ASSUME NEW k \in 1 .. n PROVE umem'[buffer + k - 1] = text[k] /\ text[k] < 0
  <2>1. buffer + k - 1 \in 0 .. PAGE_CELLS - 1
    BY <1>5, <1>6
  <2> QED
    BY <1>3, <1>7, <1>8, <2>1
<1>12. Cells(args.at, args.len)' = text
  <2>1. args'.at = buffer /\ args'.len = n
    BY <1>1, <1>7
  <2>2. Cells(args.at, args.len)' = [k \in 1 .. n |-> text[k]]
    BY <1>11, <2>1 DEF Cells
  <2>3. text = [k \in 1 .. n |-> text[k]]
    BY <1>3, <1>7
  <2> QED
    BY <2>2, <2>3
<1>13. console = formatted
  BY <1>1 DEF BInv, ConsoleOK
<1>14. Pending'
  <2>1. /\ args'.at = buffer /\ args'.len = n /\ n \in Nat /\ buffer + n <= PAGE_CELLS
    BY <1>1, <1>5, <1>6, <1>7
  <2>2. formatted' = console' \o Cells(args.at, args.len)'
    BY <1>1, <1>12, <1>13
  <2> QED
    BY <1>6, <1>11, <2>1, <2>2 DEF Pending
<1>15. CellsOK'
  <2>1. formatted' \in Seq(Int)
    BY <1>1, <1>3 DEF BInv, CellsOK
  <2> QED
    BY <1>1, <1>8, <1>10, <2>1 DEF BInv, CellsOK
<1>16. Started'
  BY <1>1, <1>2, TailStays
<1>17. Apart'
  BY <1>1 DEF BInv, Apart
<1>18. ReadOK' /\ GetcwdOK' /\ ConsoleOK'
  BY <1>1, <1>14 DEF ReadOK, GetcwdOK, ConsoleOK, Busy
<1>19. HInv'
  <2>1. WellFormed(prog')
    BY <1>1, WellFormedTail DEF BInv, HInv
  <2> QED
    BY <1>1, <2>1 DEF BInv, HInv, UserChunksDisjoint, Mapped
<1>20. StoresIn(1)
  BY <1>5, <1>6, <1>9 DEF StoresIn
<1> QED
  BY <1>1, <1>2, <1>10, <1>15, <1>16, <1>17, <1>18, <1>19, <1>20 DEF BInv

(* The calls that only hand their arguments to the kernel.  read begins a  *)
(* new input; getcwd has a chunk that nothing was read into.               *)
LEMMA CallBInv ==
    ASSUME BInv, Read \/ Getcwd \/ Open \/ WriteWild
    PROVE  BInv'
<1>1. /\ pc = "user" /\ prog # <<>> /\ prog' = Tail(prog)
      /\ Head(prog).op \in {"read", "getcwd", "open", "write_wild"}
      /\ pc' \in {"handler", "wild"} /\ cause' = "ecall" /\ counter' = 0
      /\ UNCHANGED <<umem, first_item, chunks, buffer, ptr, console, formatted, rhr>>
  BY DEF Read, Getcwd, Open, WriteWild, Running, Syscall, Trap, EnterKernel, libVars
<1>2. chunks # <<>>
  BY <1>1, CallsAfterInit
<1>3. Fits(Head(prog), Room, Fresh) /\ Started
  BY <1>1, <1>2, NextCall DEF BInv
<1>4. CellsOK' /\ Apart'
  BY <1>1 DEF BInv, CellsOK, Apart
<1>5. HInv'
  <2>1. WellFormed(prog')
    BY <1>1, WellFormedTail DEF BInv, HInv
  <2> QED
    BY <1>1, <2>1 DEF BInv, HInv, UserChunksDisjoint, Mapped
<1>6. console' = formatted'
  BY <1>1 DEF BInv, ConsoleOK
<1>7. ASSUME Room >= 0
      PROVE  /\ Len(chunks) \in 2 .. Len(chunks) /\ ptr = chunks[Len(chunks)][1]
             /\ Room = chunks[Len(chunks)][2] /\ ptr \in Nat \ {0} /\ Room \in Nat
  <2>1. Len(chunks) # 1
    BY <1>7 DEF Room, NoRoom
  <2>0. Len(chunks) \in Nat /\ Len(chunks) >= 1
    BY <1>2, Layout
  <2>2. Len(chunks) \in 2 .. Len(chunks) /\ Len(chunks) \in 1 .. Len(chunks)
    <3>1. PICK m \in Nat : m = Len(chunks)
      BY <2>0
    <3>2. m \in 2 .. m /\ m \in 1 .. m
      BY <2>0, <2>1, <3>1
    <3> QED
      BY <3>1, <3>2
  <2>3. ptr = chunks[Len(chunks)][1] /\ Room = chunks[Len(chunks)][2]
    BY <1>3, <2>1 DEF Started, Room
  <2> QED
    BY <2>2, <2>3, Layout
<1>8. CASE Read
  <2> DEFINE n == Head(prog).n
  <2>1. /\ Head(prog).op = "read" /\ args' = [a7 |-> 0, at |-> ptr, len |-> n]
        /\ input' = [at |-> ptr, size |-> n, chars |-> <<>>, done |-> FALSE]
    BY <1>8 DEF Read, Running, Syscall
  <2>2. n \in 0 .. Room
    BY <1>3, <2>1 DEF Fits
  <2>3. Room \in Int
    BY <1>2, Layout DEF Room, NoRoom
  <2>4. n \in Nat /\ n <= Room /\ Room >= 0
    BY <2>2, <2>3
  <2> HIDE DEF n
  <2>5. /\ input'.at = ptr /\ input'.size = n /\ input'.chars = <<>> /\ input'.done = FALSE
        /\ input' \in [at : Nat, size : Nat, chars : Seq(Int), done : BOOLEAN]
    BY <1>7, <2>1, <2>4
  <2>6. InputOK'
    <3>1. \E i \in 2 .. Len(chunks') : chunks'[i][1] = input'.at /\ input'.size <= chunks'[i][2]
      BY <1>1, <1>7, <2>4, <2>5
    <3> QED
      BY <2>4, <2>5, <3>1 DEF InputOK
  <2>7. ReadOK' /\ GetcwdOK' /\ ConsoleOK'
    <3>1. args'.a7 = 0 /\ args'.at = ptr /\ args'.len = n
      BY <2>1
    <3> QED
      BY <1>1, <1>6, <2>5, <3>1 DEF ReadOK, GetcwdOK, ConsoleOK, Busy
  <2>8. Started'
    <3>1. Careful(Tail(prog), Room, Fresh /\ Head(prog).op # "read")
      BY <1>1, <1>2, <2>1, NextCall
    <3>2. (Fresh /\ Head(prog).op # "read") => FALSE
      BY <2>1
    <3>3. Careful(Tail(prog), Room, FALSE)
      BY <3>1, <3>2, CarefulWeaker, Zenon
    <3>4. Room' = Room /\ Fresh' = FALSE
      BY <1>1, <1>7, <2>4, <2>5 DEF Room, Fresh
    <3>5. Careful(prog, Room, Fresh)'
      BY <1>1, <3>3, <3>4
    <3> QED
      BY <1>1, <1>3, <3>5 DEF Started
  <2> QED
    BY <1>1, <1>2, <1>4, <1>5, <2>6, <2>7, <2>8 DEF BInv
<1>9. CASE ~Read
  <2>1. Head(prog).op \notin {"malloc", "read"} /\ input' = input
    BY <1>9 DEF Read, Getcwd, Open, WriteWild, Running
  <2>2. Started'
    BY <1>1, <1>2, <2>1, TailStays
  <2>3. InputOK'
    BY <1>1, <2>1 DEF BInv, InputOK
  <2>4. args'.a7 # 0 /\ (args'.a7 = 1 => (args'.at = PAGE_CELLS /\ args'.len = 1))
    BY <1>9 DEF Getcwd, Open, WriteWild, Syscall
  <2>5. GetcwdOK'
    <3>1. CASE Getcwd
      <4>1. Head(prog).op = "getcwd" /\ args'.at = ptr
        BY <3>1 DEF Getcwd, Running, Syscall
      <4>2. Fresh /\ PathLength + 1 <= Room
        BY <1>3, <4>1 DEF Fits
      <4>3. PathLength \in Nat /\ Room \in Int
        BY <1>2, Layout, UserlandAssumption DEF UserlandAssumption, Room, NoRoom
      <4>4. Room >= 0
        BY <4>2, <4>3
      <4>5. Len(chunks) > 1 /\ ptr = chunks[Len(chunks)][1] /\ Room = chunks[Len(chunks)][2]
        BY <1>7, <4>4
      <4>6. ptr # input.at
        BY <4>2, <4>5 DEF Fresh
      <4> QED
        BY <1>1, <2>1, <4>1, <4>2, <4>5, <4>6 DEF GetcwdOK
    <3>2. CASE ~Getcwd
      BY <1>9, <3>2 DEF Open, WriteWild, Syscall, GetcwdOK, Busy
    <3> QED
      BY <3>1, <3>2
  <2>6. ReadOK' /\ ConsoleOK'
    BY <1>1, <1>6, <2>4 DEF ReadOK, ConsoleOK, Busy
  <2> QED
    BY <1>1, <1>2, <1>4, <1>5, <2>2, <2>3, <2>5, <2>6 DEF BInv
<1> QED
  BY <1>8, <1>9

(* The shell goes on with the command that was typed.                      *)
LEMMA CommandBInv ==
    ASSUME CarefulPrograms, BInv, Command
    PROVE  BInv'
<1> DEFINE p == IF strcmp(ptr, Word_pwd) THEN pwd ELSE <<>>
           l == IF strcmp(ptr, Word_ls) THEN ls ELSE <<>>
<1>1. /\ prog # <<>> /\ Head(prog).op = "command" /\ prog' = Tail(prog) \o p \o l
      /\ UNCHANGED <<umem, first_item, chunks, buffer, ptr, input, args, counter, console, formatted, rhr>>
      /\ UNCHANGED <<pc, cause>>
  BY DEF Command, Running, libVars, sysVars, trapVars
<1>2. chunks # <<>>
  BY <1>1, CallsAfterInit
<1>3. /\ WellFormed(Tail(prog)) /\ WellFormed(p) /\ WellFormed(l)
  BY <1>1, WellFormedTail, CommandsWellFormed DEF BInv, HInv
<1>4. \A r, f : Careful(p, r, f) /\ Careful(l, r, f)
  BY CommandsCareful
<1> HIDE DEF p, l
<1>5. PICK S : Tail(prog) \in Seq(S) /\ p \in Seq(S) /\ l \in Seq(S)
  <2>1. PICK S1, S2, S3 : Tail(prog) \in Seq(S1) /\ p \in Seq(S2) /\ l \in Seq(S3)
    BY <1>3 DEF WellFormed
  <2> DEFINE T == S1 \cup S2 \cup S3
  <2>2. Tail(prog) \in Seq(T) /\ p \in Seq(T) /\ l \in Seq(T)
    BY <2>1
  <2> QED
    BY <2>2, Zenon
<1>6. Careful(Tail(prog), Room, Fresh)
  <2>1. Careful(Tail(prog), Room, Fresh /\ Head(prog).op # "read")
    BY <1>1, <1>2, NextCall
  <2>2. (Fresh /\ Head(prog).op # "read") => Fresh
    BY Zenon
  <2> QED
    BY <2>1, <2>2, CarefulWeaker, Zenon
<1>7. Careful(Tail(prog) \o p, Room, Fresh)
  BY <1>4, <1>5, <1>6, CarefulConcat, Zenon
<1>8. Tail(prog) \o p \in Seq(S)
  BY <1>5
<1>9. Careful(Tail(prog) \o p \o l, Room, Fresh)
  BY <1>4, <1>5, <1>7, <1>8, CarefulConcat, Zenon
<1>10. Started'
  <2>1. Room' = Room /\ Fresh' = Fresh
    BY <1>1 DEF Room, Fresh
  <2>2. Careful(prog, Room, Fresh)'
    BY <1>1, <1>9, <2>1
  <2>3. Started
    BY <1>2 DEF BInv
  <2> QED
    BY <1>1, <2>2, <2>3 DEF Started
<1>11. HInv'
  <2>1. WellFormed(prog')
    BY <1>1, <1>3, WellFormedConcat
  <2> QED
    BY <1>1, <2>1 DEF BInv, HInv, UserChunksDisjoint, Mapped
<1>12. CellsOK' /\ Apart' /\ InputOK'
  BY <1>1 DEF BInv, CellsOK, Apart, InputOK
<1>13. ReadOK' /\ GetcwdOK' /\ ConsoleOK'
  BY <1>1, QuietCall DEF BInv, ConsoleOK
<1> QED
  BY <1>1, <1>2, <1>10, <1>11, <1>12, <1>13 DEF BInv

(* malloc writes behind all chunks, and the free item it makes begins with *)
(* a word.                                                                 *)
LEMMA MallocBInv ==
    ASSUME CarefulPrograms, BInv, Malloc
    PROVE  BInv' /\ chunks' # chunks
<1> DEFINE n == Head(prog).n
           new == <<first_item + HEADER, n>>
           free == first_item + HEADER + n
<1>1. /\ pc = "user" /\ prog # <<>> /\ Allocates(Head(prog)) /\ ~malloc_faults(n) /\ prog' = Tail(prog)
      /\ first_item' = free /\ chunks' = Append(chunks, new)
      /\ umem' = [umem EXCEPT ![first_item] = MAGIC_STRING, ![first_item + 1] = n,
                              ![free] = (MAGIC_STRING - (n + HEADER)) % WORD]
      /\ UNCHANGED <<pc, cause, input, args, counter, console, formatted, rhr>>
  BY DEF Malloc, malloc, trapVars, sysVars
<1>2. n \in Nat
  BY <1>1, WellFormedTail DEF BInv, HInv
<1>3. /\ PAGE_CELLS \in Nat /\ HEADER \in Nat /\ HEADER >= 3 /\ MAGIC_STRING \in Nat
      /\ WORD \in Nat /\ WORD > 0
      /\ first_item \in 0 .. PAGE_CELLS - 1 /\ Len(chunks) \in Nat
      /\ \A i \in 1 .. Len(chunks) :
            /\ chunks[i][1] \in Nat \ {0} /\ chunks[i][2] \in Nat
            /\ chunks[i][1] + chunks[i][2] <= first_item
  BY Layout, UserlandAssumption DEF UserlandAssumption
<1> HIDE DEF n
<1>4. first_item + 1 \in 0 .. PAGE_CELLS - 1 /\ free \in 0 .. PAGE_CELLS - 1
  BY <1>1 DEF malloc_faults, Mapped
<1>5. PICK rest \in Nat : rest = (MAGIC_STRING - (n + HEADER)) % WORD
  BY <1>2, <1>3
<1>6. umem \in [0 .. PAGE_CELLS - 1 -> Int] /\ chunks \in Seq(Int \X Int)
  BY DEF BInv, CellsOK, HInv
<1>7. first_item \in Int /\ free > first_item + 1
  BY <1>2, <1>3
<1>8. /\ umem' \in [0 .. PAGE_CELLS - 1 -> Int] /\ umem'[free] >= 0
      /\ \A x \in 0 .. PAGE_CELLS - 1 : x < first_item => umem'[x] = umem[x]
  <2>1. umem' = [umem EXCEPT ![first_item] = MAGIC_STRING, ![first_item + 1] = n, ![free] = rest]
    BY <1>1, <1>5
  <2>2. umem' \in [0 .. PAGE_CELLS - 1 -> Int]
    BY <1>2, <1>3, <1>4, <1>6, <2>1
  <2>3. umem'[free] = rest
    BY <1>4, <1>6, <2>1
  <2>4. ASSUME NEW x \in 0 .. PAGE_CELLS - 1, x < first_item PROVE umem'[x] = umem[x]
    <3>1. x # first_item /\ x # first_item + 1 /\ x # free
      BY <1>3, <1>7, <2>4
    <3> QED
      BY <1>6, <2>1, <3>1
  <2> QED
    BY <2>2, <2>3, <2>4
<1>9. /\ Len(chunks') = Len(chunks) + 1 /\ chunks' \in Seq(Int \X Int)
      /\ \A i \in 1 .. Len(chunks) : chunks'[i] = chunks[i]
      /\ chunks'[Len(chunks) + 1][1] = first_item + HEADER /\ chunks'[Len(chunks) + 1][2] = n
  <2>1. new \in Int \X Int /\ new[1] = first_item + HEADER /\ new[2] = n
    BY <1>2, <1>3
  <2> HIDE DEF new
  <2> QED
    BY <1>1, <1>6, <2>1, AppendProperties
<1> HIDE DEF new, free
<1>10. HInv'
  BY MallocInv DEF BInv
<1>11. CellsOK'
  BY <1>1, <1>8 DEF BInv, CellsOK
<1>12. first_item' \in Nat /\ first_item' = first_item + HEADER + n
  BY <1>1, <1>2, <1>3 DEF free
<1>13. Apart'
  <2> DEFINE m == Len(chunks)
  <2>1. ASSUME NEW i \in 1 .. Len(chunks')
        PROVE  /\ chunks'[i][1] \in Nat \ {0} /\ chunks'[i][2] \in Nat
               /\ chunks'[i][1] + chunks'[i][2] <= first_item'
    <3>1. CASE i <= m
      <4>1. i \in 1 .. m /\ chunks'[i] = chunks[i]
        BY <1>3, <1>9, <3>1
      <4>2. /\ chunks[i][1] \in Nat \ {0} /\ chunks[i][2] \in Nat
            /\ chunks[i][1] + chunks[i][2] <= first_item
        BY <1>3, <4>1
      <4> QED
        BY <1>2, <1>3, <1>12, <4>1, <4>2
    <3>2. CASE i > m
      <4>1. i = m + 1
        BY <1>3, <1>9, <3>2
      <4> QED
        BY <1>2, <1>3, <1>9, <1>12, <4>1
    <3> QED
      BY <1>3, <3>1, <3>2
  <2>2. ASSUME NEW i \in 1 .. Len(chunks'), NEW j \in 1 .. Len(chunks'), i < j
        PROVE  chunks'[i][1] + chunks'[i][2] <= chunks'[j][1]
    <3>1. m \in Nat /\ i \in 1 .. m + 1 /\ j \in 1 .. m + 1
      BY <1>3, <1>9
    <3>2. PICK l \in Nat : l = m
      BY <3>1
    <3>3. i \in 1 .. l /\ (j \in 1 .. l \/ j = l + 1)
      BY <2>2, <3>1, <3>2
    <3>4. i \in 1 .. m /\ chunks'[i] = chunks[i] /\ (j \in 1 .. m \/ j = m + 1)
      BY <1>9, <3>2, <3>3
    <3>5. CASE j \in 1 .. m
      BY <1>9, <2>2, <3>4, <3>5 DEF BInv, Apart
    <3>6. CASE j = m + 1
      <4>1. /\ chunks[i][1] \in Nat \ {0} /\ chunks[i][2] \in Nat
            /\ chunks[i][1] + chunks[i][2] <= first_item
        BY <1>3, <3>4
      <4>2. chunks'[j][1] = first_item + HEADER /\ chunks'[i][1] = chunks[i][1] /\ chunks'[i][2] = chunks[i][2]
        BY <1>9, <3>4, <3>6
      <4>3. first_item \in Nat /\ HEADER \in Nat
        BY <1>3
      <4>4. PICK a \in Nat, z \in Nat : a = chunks[i][1] /\ z = chunks[i][2]
        BY <4>1
      <4>5. a + z <= first_item + HEADER
        BY <4>1, <4>3, <4>4
      <4> QED
        BY <4>2, <4>4, <4>5
    <3> QED
      BY <3>4, <3>5, <3>6
  <2> QED
    BY <2>1, <2>2 DEF Apart
<1>14. InputOK'
  <2>1. ASSUME NEW i \in 2 .. Len(chunks), NEW x \in chunks[i][1] .. chunks[i][1] + chunks[i][2] - 1
        PROVE  umem'[x] = umem[x]
    <3>1. i \in 1 .. Len(chunks)
      BY <1>3
    <3>2. PICK a \in Nat, z \in Nat : a = chunks[i][1] /\ z = chunks[i][2]
      BY <1>3, <3>1
    <3>3. a + z <= first_item /\ x \in a .. a + z - 1
      BY <1>3, <3>1, <3>2
    <3>4. x \in 0 .. PAGE_CELLS - 1 /\ x < first_item
      BY <1>3, <3>3
    <3> QED
      BY <1>8, <3>4
  <2>2. \A i \in 2 .. Len(chunks) : i \in 2 .. Len(chunks') /\ chunks'[i] = chunks[i]
    BY <1>3, <1>9
  <2>3. InputOK /\ Apart /\ input' = input
    BY <1>1 DEF BInv
  <2> QED
    BY <1>6, <2>1, <2>2, <2>3, InputStays
<1>15. console' = formatted'
  BY <1>1 DEF BInv, ConsoleOK
<1>16. ReadOK' /\ GetcwdOK' /\ ConsoleOK'
  BY <1>1, <1>15 DEF ReadOK, GetcwdOK, ConsoleOK, Busy
<1>17. chunks' # <<>> /\ chunks' # chunks
  BY <1>3, <1>6, <1>9
<1>18. Started'
  <2>1. CASE chunks = <<>>
    <3>1. NotStarted
      BY <2>1 DEF BInv
    <3>2. Head(prog).op = "init_printf" /\ n = BUFFER_SIZE /\ Tail(prog) \in Programs
      BY <3>1, FirstIsInit DEF n
    <3>3. buffer' = first_item + HEADER /\ ptr' = 0
      BY <3>1, <3>2 DEF Malloc, Running, NotStarted
    <3>4. Len(chunks) = 0 /\ Len(chunks') = 1 /\ chunks'[1] = <<buffer', BUFFER_SIZE>>
      <4>1. Len(chunks) = 0
        BY <2>1
      <4>2. chunks'[1] = new
        BY <1>1, <1>6, <1>9, <2>1 DEF new
      <4> QED
        BY <1>9, <3>2, <3>3, <4>1, <4>2 DEF new
    <3>5. Room' = NoRoom /\ Fresh' = TRUE
      BY <3>4 DEF Room, Fresh
    <3>6. Careful(Tail(prog), NoRoom, TRUE)
      BY <3>2 DEF CarefulPrograms
    <3>7. Careful(prog, Room, Fresh)'
      BY <1>1, <3>5, <3>6
    <3> QED
      BY <3>3, <3>4, <3>7 DEF Started
  <2>2. CASE chunks # <<>>
    <3>1. Head(prog).op = "malloc"
      BY <1>1, <2>2, NextCall DEF Fits, Allocates
    <3>2. ptr' = first_item + HEADER /\ buffer' = buffer
      BY <1>1, <3>1 DEF Malloc, Running
    <3>3. Started /\ Careful(Tail(prog), n, TRUE)
      BY <1>1, <2>2, <3>1, NextCall DEF BInv, n
    <3>4. Len(chunks) >= 1 /\ Len(chunks') # 1 /\ chunks'[1] = chunks[1]
      BY <1>3, <1>9, <2>2, Layout
    <3>5. ptr' = chunks'[Len(chunks')][1] /\ Room' = n
      BY <1>9, <3>2, <3>4 DEF Room
    <3>6. ptr' # input'.at
      <4>1. input.at <= first_item /\ input.at \in Nat
        <5>1. CASE input.at = 0
          BY <1>3, <5>1
        <5>2. CASE input.at # 0
          <6>1. PICK i \in 2 .. Len(chunks) : chunks[i][1] = input.at
            BY <5>2 DEF BInv, InputOK
          <6>2. i \in 1 .. Len(chunks)
            BY <1>3
          <6> QED
            BY <1>3, <6>1, <6>2
        <5> QED
          BY <5>1, <5>2
      <4> QED
        BY <1>1, <1>3, <3>2, <4>1
    <3>7. Fresh' = TRUE
      BY <3>6 DEF Fresh
    <3>8. Careful(prog, Room, Fresh)'
      BY <1>1, <3>3, <3>5, <3>7
    <3> QED
      BY <3>2, <3>3, <3>4, <3>5, <3>8 DEF Started
  <2> QED
    BY <2>1, <2>2
<1> QED
  BY <1>10, <1>11, <1>13, <1>14, <1>16, <1>17, <1>18 DEF BInv

(* A process before its first instruction.                                 *)
LEMMA InitBInv == Init => BInv
<1> SUFFICES ASSUME Init PROVE BInv
  OBVIOUS
<1>1. /\ prog \in {<<FirstCall>> \o p : p \in Programs} /\ pc = "boot"
      /\ umem = [x \in 0 .. PAGE_CELLS - 1 |->
                   IF x = 0 THEN PAGE_CELLS ELSE IF x = 1 THEN 1 ELSE 0]
      /\ first_item = 0 /\ chunks = <<>> /\ ptr = 0 /\ input = NoInput /\ rhr = 0
      /\ console = <<>> /\ formatted = <<>>
  BY DEF Init, TrapInit, FirstCall, None
<1>2. PAGE_CELLS \in Nat /\ PAGE_CELLS >= 3
  BY UserlandAssumption DEF UserlandAssumption
<1>3. HInv
  BY HeapInitInv
<1>4. CellsOK
  <2>1. umem \in [0 .. PAGE_CELLS - 1 -> Int] /\ umem[0] = PAGE_CELLS
    BY <1>1, <1>2
  <2> QED
    BY <1>1, <1>2, <2>1 DEF CellsOK
<1>5. Apart
  BY <1>1 DEF Apart
<1>6. NotStarted
  <2>1. \E p \in Programs : prog = <<FirstCall>> \o p
    BY <1>1, Zenon
  <2> QED
    BY <1>1, <2>1 DEF NotStarted
<1>7. InputOK
  <2>1. /\ input.at = 0 /\ input.size = 0 /\ input.chars = <<>> /\ input.done = FALSE
        /\ input \in [at : Nat, size : Nat, chars : Seq(Int), done : BOOLEAN]
    BY <1>1 DEF NoInput
  <2> QED
    BY <2>1 DEF InputOK
<1>8. ReadOK /\ GetcwdOK /\ ConsoleOK
  BY <1>1 DEF ReadOK, GetcwdOK, ConsoleOK, Busy
<1> QED
  BY <1>1, <1>3, <1>4, <1>5, <1>6, <1>7, <1>8 DEF BInv

(* Every step of process, kernel and console.  A step that writes cells    *)
(* and does not allocate writes those of one chunk.                        *)
LEMMA NextBInv ==
    ASSUME CarefulPrograms, BInv, [Next]_vars
    PROVE  /\ BInv'
           /\ (umem' # umem /\ chunks' = chunks) => \E c \in 1 .. Len(chunks) : StoresIn(c)
<1>1. CASE \/ Start \/ MallocFaults \/ LoadWild \/ Handler \/ handle_write_faults \/ handle_other
           \/ Return \/ (\E c \in Chars \cup {CR} : Type(c)) \/ UNCHANGED vars
  <2>1. umem' = umem
    BY <1>1 DEF Start, MallocFaults, LoadWild, Handler, handle_write_faults, handle_other, Return,
                Type, vars, libVars
  <2> QED
    BY <1>1, <2>1, PlainSteps
<1>2. CASE Malloc
  BY <1>2, MallocBInv
<1>3. CASE Printf
  <2>1. BInv' /\ StoresIn(1)
    BY <1>3, PrintfBInv
  <2> QED
    BY <2>1 DEF StoresIn
<1>4. CASE Read \/ Getcwd \/ Open \/ WriteWild
  <2>1. umem' = umem
    BY <1>4 DEF Read, Getcwd, Open, WriteWild, libVars
  <2> QED
    BY <1>4, <2>1, CallBInv
<1>5. CASE Command
  <2>1. umem' = umem
    BY <1>5 DEF Command, libVars
  <2> QED
    BY <1>5, <2>1, CommandBInv
<1>6. CASE handle_write
  <2>1. umem' = umem
    BY <1>6 DEF handle_write, libVars
  <2> QED
    BY <1>6, <2>1, WriteBInv
<1>7. CASE read_full
  <2>1. umem' = umem
    BY <1>7 DEF read_full, libVars
  <2> QED
    BY <1>7, <2>1, ReadFullBInv
<1>8. CASE read
  BY <1>8, ReadTurnBInv
<1>9. CASE handle_getcwd
  <2>1. BInv' /\ StoresIn(Len(chunks))
    BY <1>9, GetcwdServedBInv
  <2> QED
    BY <2>1 DEF StoresIn
<1> QED
  BY <1>1, <1>2, <1>3, <1>4, <1>5, <1>6, <1>7, <1>8, <1>9 DEF Next, User, Kernel

(* For every page, buffer size and set of careful programs, and whatever   *)
(* is typed: chunks apart, the latest read in its chunk, what printf left  *)
(* for the console whole.                                                  *)
THEOREM BuffersAreKept ==
    ASSUME CarefulPrograms PROVE Spec => []BInv
<1>1. Init => BInv
  BY InitBInv
<1>2. BInv /\ [Next]_vars => BInv'
  BY NextBInv
<1> QED
  BY <1>1, <1>2, PTL DEF Spec

(* What read took from the UART stays in the program's buffer, in order    *)
(* and with a zero if there is room, whatever malloc, printf, getcwd and   *)
(* the kernel do later.                                                    *)
THEOREM InputStaysKept ==
    ASSUME CarefulPrograms PROVE Spec => []InputKept
<1>1. BInv => InputKept
  BY DEF BInv, InputOK, InputKept
<1> QED
  BY <1>1, BuffersAreKept, PTL

(* What printf formats and read echoes is on the console, complete and in  *)
(* order, whenever the process runs.                                       *)
THEOREM ConsoleStaysFaithful ==
    ASSUME CarefulPrograms PROVE Spec => []ConsoleFaithful
<1>1. BInv => ConsoleFaithful
  BY DEF BInv, ConsoleOK, ConsoleFaithful
<1> QED
  BY <1>1, BuffersAreKept, PTL

(* printf, read and getcwd stay in the chunk of their buffer, though none  *)
(* of them looks at its size.                                              *)
THEOREM FillsStayInOneChunk ==
    ASSUME CarefulPrograms PROVE Spec => FillsOneChunk
<1> DEFINE A == (umem' # umem /\ chunks' = chunks) =>
                  \E c \in ToSet(chunks) :
                     \A x \in DOMAIN umem : umem'[x] # umem[x] => (c[1] <= x /\ x < c[1] + c[2])
<1>1. BInv /\ [Next]_vars => [A]_vars
  <2> SUFFICES ASSUME BInv, [Next]_vars, umem' # umem, chunks' = chunks
               PROVE  \E c \in ToSet(chunks) :
                        \A x \in DOMAIN umem : umem'[x] # umem[x] => (c[1] <= x /\ x < c[1] + c[2])
    OBVIOUS
  <2>1. PICK i \in 1 .. Len(chunks) : StoresIn(i)
    BY NextBInv
  <2>2. DOMAIN umem = 0 .. PAGE_CELLS - 1 /\ PAGE_CELLS \in Nat /\ chunks \in Seq(Int \X Int)
    BY UserlandAssumption DEF BInv, CellsOK, HInv, UserlandAssumption
  <2>3. chunks[i] \in ToSet(chunks) /\ chunks[i][1] \in Int /\ chunks[i][2] \in Int
    BY <2>2 DEF ToSet
  <2>4. ASSUME NEW x \in DOMAIN umem, umem'[x] # umem[x]
        PROVE  chunks[i][1] <= x /\ x < chunks[i][1] + chunks[i][2]
    <3>1. x \in Int /\ ~(x < chunks[i][1] \/ x >= chunks[i][1] + chunks[i][2])
      BY <2>1, <2>2, <2>4 DEF StoresIn
    <3> QED
      BY <2>3, <3>1
  <2> QED
    BY <2>3, <2>4
<1> QED
  BY <1>1, BuffersAreKept, PTL DEF Spec, FillsOneChunk

(* The shell is a careful program: it reads no more than its buffer of     *)
(* INPUT_SIZE holds, and printf's buffer has room for that, for the four   *)
(* bytes of the word behind it and for the longest text: in the code       *)
(* 20 + 4 + 36 <= 200.                                                     *)
THEOREM ShellIsCareful ==
    ASSUME TEXT + INPUT_SIZE + MAGIC_BYTES <= BUFFER_SIZE
    PROVE  Careful(shell_main, NoRoom, TRUE)
<1> DEFINE q == shell_main
<1>0. /\ INPUT_SIZE \in Nat /\ BUFFER_SIZE \in Nat /\ TEXT \in Nat /\ MAGIC_BYTES \in Nat
      /\ TEXT \in 0 .. BUFFER_SIZE
  BY UserlandAssumption DEF UserlandAssumption, MAGIC_BYTES
<1>1. /\ Len(q) = 11 /\ q[1].op = "malloc" /\ q[1].n = INPUT_SIZE
      /\ q[9].op = "read" /\ q[9].n = INPUT_SIZE /\ q[11].op = "command"
      /\ q[10].op = "printf" /\ q[10].text = TEXT
      /\ q[6].op = "open"
      /\ \A i \in {2, 3, 4, 5, 7, 8} : q[i].op = "printf" /\ ~q[i].arg /\ q[i].text = TEXT
  BY DEF shell_main, ls, puts, printf
<1> HIDE DEF q
<1>2. \A i \in 1 .. Len(q) : i = 1 \/ i = 6 \/ i = 9 \/ i = 10 \/ i = 11 \/ i \in {2, 3, 4, 5, 7, 8}
  BY <1>1
<1>3. ASSUME NEW i \in 1 .. Len(q), NEW f PROVE Fits(q[i], INPUT_SIZE, f)
  BY <1>0, <1>1, <1>2 DEF Fits
<1>4. ASSUME NEW j \in 1 .. Len(q), q[j].op = "malloc" PROVE j = 1
  BY <1>1, <1>2, <1>4
<1>5. ASSUME NEW i \in 1 .. Len(q), NoCall("malloc", q, 1, i - 1), NEW f PROVE Fits(q[i], NoRoom, f)
  <2>1. i = 1
    BY <1>1, <1>5 DEF NoCall
  <2> QED
    BY <1>1, <2>1 DEF Fits
<1>6. ASSUME NEW i \in 1 .. Len(q), NEW j \in 1 .. i - 1, q[j].op = "malloc"
      PROVE  Fits(q[i], q[j].n, NoCall("read", q, j + 1, i - 1))
  <2>1. j \in 1 .. Len(q)
    BY <1>1
  <2>2. q[j].n = INPUT_SIZE
    BY <1>1, <1>4, <1>6, <2>1
  <2> QED
    BY <1>3, <2>2, Zenon
<1>7. Careful(q, NoRoom, TRUE)
  BY <1>5, <1>6, Zenon DEF Careful
<1> QED
  BY <1>7 DEF q
=============================================================================
