----------------------------- MODULE MCUserland -----------------------------
(* The shell, and other short programs, for TLC. *)
EXTENDS Userland

Typed == {CR - 1, CR - 2}

\* Calls that every program may make, and two that exhaust heap and kernel stack.
AnyCall == {[op |-> "malloc", n |-> k] : k \in {1, PAGE_CELLS, MAGIC_STRING}}
             \cup {[op |-> "open"], [op |-> "write_wild"], [op |-> "load_wild"], puts}
Many(call) == [k \in 1 .. 8 |-> call]
AllPrograms == {shell_main, Many([op |-> "malloc", n |-> 0]), Many(puts)}
                 \cup {<<c, d>> : c \in AnyCall, d \in AnyCall}

\* What the proofs about the contents of buffers assume of programs.
ASSUME CarefulAssumption == CarefulPrograms
=============================================================================
