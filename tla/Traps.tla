------------------------------- MODULE Traps --------------------------------
(***************************************************************************)
(* Into the kernel and back: jump_to_machine_exception_handler (boot.s),   *)
(* machine_exception_handler (exception.cpp), jump_back_to_userspace       *)
(* (exception.s) and switch_to_process (process.s).  State are the stack   *)
(* pointer, sscratch, the registers s0 to s11 and the words of the kernel  *)
(* stack.  What a system call does is left to the module that extends this *)
(* one.  Addresses are words: those of the kernel stack are 0 to           *)
(* STACK_WORDS - 1, below are the instructions that boot.s has before      *)
(* `stacks', and above are the user's.                                     *)
(***************************************************************************)
EXTENDS Integers

CONSTANTS
    STACK_WORDS,   \* STACK_SIZE in words (1024)
    SAVED,         \* registers saved on entry (12)
    FRAME,         \* words of machine_exception_handler's own frame (compiler)
    DEPTH,         \* words that the functions it calls need at most (compiler)
    Used           \* words in use when run_next_process leaves for the process

ASSUME TrapsAssumption ==
    /\ STACK_WORDS \in Nat /\ SAVED \in Nat /\ FRAME \in Nat \ {0} /\ DEPTH \in Nat
    /\ Used \subseteq 0 .. STACK_WORDS

\* The lowest word written by a trap that begins on an intact stack.
Reach == SAVED + FRAME + DEPTH
Words == -Reach .. STACK_WORDS - 1
Code == -1             \* an instruction of boot.s
KernelWord == 0        \* a word of some kernel function's frame
UserSp == STACK_WORDS + Reach

VARIABLES
    pc,          \* "boot", "user", "handler", "syscall", "return", "dead" or "wild"
    cause,       \* mcause: "ecall" or "fault"
    sp, sscratch,
    s,           \* the callee-saved registers; the user keeps i in register i
    stack,       \* the words of the kernel stack and of the code below it
    start_sp,    \* history: the kernel's sp when the process was started
    calls,       \* history: system calls that have returned
    bus          \* what becomes of a machine-mode store to a virtual address
trapVars == <<pc, cause, sp, sscratch, s, stack, start_sp, calls, bus>>

Registers == 1 .. SAVED
Smashed == \E a \in Words : a < 0 /\ stack[a] # Code

TrapTypeOK ==
    /\ pc \in {"boot", "user", "handler", "syscall", "return", "dead", "wild"}
    /\ cause \in {"ecall", "fault"}
    /\ sp \in Int /\ sscratch \in Int /\ start_sp \in 0 .. STACK_WORDS /\ calls \in Nat
    /\ s \in [Registers -> Int] /\ stack \in [Words -> Int]
    /\ bus \in {"truncates", "ignores", "faults"}
-----------------------------------------------------------------------------
(* The entry stores s0 to s11 through the kernel's virtual sp, but machine *)
(* mode does not translate: the bus may drop the upper bits of the address *)
(* (and hit the stack), ignore the store, or fault.                        *)
TrapInit ==
    /\ pc = "boot" /\ cause = "ecall" /\ calls = 0
    /\ \E used \in Used : sp = STACK_WORDS - used
    /\ start_sp = sp /\ sscratch = 0
    /\ s = [i \in Registers |-> i]
    /\ stack = [a \in Words |-> IF a < 0 THEN Code ELSE KernelWord]
    /\ bus \in {"truncates", "ignores", "faults"}

switch_to_process ==
    /\ pc = "boot"
    /\ sscratch' = sp /\ sp' = UserSp /\ pc' = "user"
    /\ UNCHANGED <<cause, s, stack, start_sp, calls, bus>>

\* Kernel frames fill the words from low to high - 1 with values of their own.
Fill(low, high) ==
    [a \in Words |-> IF low <= a /\ a < high THEN KernelWord ELSE stack[a]]

Pushed(top) ==
    [a \in Words |-> IF bus = "truncates" /\ top <= a /\ a < top + SAVED
                     THEN s[a - top + 1] ELSE stack[a]]

(* The stack pointers are swapped, whoever was interrupted.  Instructions  *)
(* overwritten by the stack (the entry itself is among them), or a store   *)
(* that faults and enters again for ever, end the model.                   *)
EnterKernel(c) ==
    /\ cause' = c
    /\ IF Smashed \/ bus = "faults"
       THEN pc' = "wild" /\ UNCHANGED <<sp, sscratch, stack>>
       ELSE /\ sp' = sscratch - SAVED
            /\ sscratch' = sp
            /\ stack' = Pushed(sscratch - SAVED)
            /\ pc' = "handler"
    /\ UNCHANGED <<s, start_sp, calls, bus>>

Trap(c) == pc = "user" /\ EnterKernel(c)

\* A fault inside a system call takes the same way: sscratch is the user's.
KernelFault == pc = "syscall" /\ EnterKernel("fault")

\* Parameters, cause and mepc are copied to the frame.  What is not a system
\* call is logged, and the handler loops for ever.
machine_exception_handler ==
    /\ pc = "handler"
    /\ sp' = sp - FRAME
    /\ stack' = Fill(sp - FRAME - DEPTH, sp)
    /\ pc' = IF cause = "ecall" THEN "syscall" ELSE "dead"
    /\ UNCHANGED <<cause, sscratch, s, start_sp, calls, bus>>

\* handle_syscall has come back.
SyscallDone == pc = "syscall" /\ pc' = "return"

\* Mutant: sscratch is not written back.
jump_back_to_userspace_keep ==
    /\ pc = "return"
    /\ s' = [i \in Registers |-> stack[sp + i - 1]]
    /\ sp' = sscratch /\ pc' = "user" /\ calls' = calls + 1
    /\ UNCHANGED <<sscratch, cause, stack, start_sp, bus>>

\* Mutant: the words of the registers are not taken off the stack.
jump_back_to_userspace_no_pop ==
    /\ pc = "return"
    /\ s' = [i \in Registers |-> stack[sp + i - 1]]
    /\ sp' = sscratch
    /\ sscratch' = sp
    /\ pc' = "user" /\ calls' = calls + 1
    /\ UNCHANGED <<cause, stack, start_sp, bus>>

\* The registers come from where sp is now, which is the handler's frame and not
\* the words stored on entry; then sp moves up by the size of those.
jump_back_to_userspace ==
    /\ pc = "return"
    /\ s' = [i \in Registers |-> stack[sp + i - 1]]
    /\ sp' = sscratch
    /\ sscratch' = sp + SAVED
    /\ pc' = "user" /\ calls' = calls + 1
    /\ UNCHANGED <<cause, stack, start_sp, bus>>
-----------------------------------------------------------------------------
(* Whenever the process runs it has its own stack pointer back, and        *)
(* sscratch holds a kernel address: exactly one handler frame further down *)
(* for every system call so far, since jump_back_to_userspace is called    *)
(* with the frame of machine_exception_handler still on the stack.         *)
StackPointersInStep ==
    pc = "user" =>
        /\ sp = UserSp
        /\ sscratch = start_sp - calls * FRAME

(* The instructions below the stack stay intact until the frames left      *)
(* behind by earlier system calls leave no room for another one.           *)
CodeIntact ==
    (start_sp - calls * FRAME - Reach >= 0) => ~Smashed

(* The comments of boot.s and exception.s: s0 to s11 are put on the stack  *)
(* on entry and loaded from it on return, so that the process finds its    *)
(* registers as it left them.                                              *)
SavedRegistersRestored == pc = "user" => \A i \in Registers : s[i] = i
=============================================================================
