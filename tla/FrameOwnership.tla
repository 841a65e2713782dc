--------------------------- MODULE FrameOwnership ---------------------------
(***************************************************************************)
(* What the kernel expects of a physical frame allocator: a frame has at   *)
(* most one holder; it is handed out only while nobody holds it and comes  *)
(* back only from its holder.  The allocator cannot say "no memory left"   *)
(* (kalloc_frame has no failure result), so the promise ends when a        *)
(* request comes while every frame is held, and not before.                *)
(***************************************************************************)
EXTENDS Naturals

CONSTANT Frames     \* the frames the promise is about

VARIABLES
    holders,        \* how many callers hold each frame
    overrun         \* a request has come with every frame held
vars == <<holders, overrun>>

Init ==
    /\ holders = [f \in Frames |-> 0]
    /\ overrun = FALSE

Acquire(f) ==
    /\ holders[f] = 0
    /\ holders' = [holders EXCEPT ![f] = 1]

Release(f) ==
    /\ holders[f] = 1
    /\ holders' = [holders EXCEPT ![f] = 0]

Overrun ==
    /\ \A f \in Frames : holders[f] = 1
    /\ overrun' = TRUE

Next ==
    \/ /\ ~overrun /\ ~overrun'
       /\ \E f \in Frames : Acquire(f) \/ Release(f)
    \/ Overrun
    \/ overrun /\ overrun'

Spec == Init /\ [][Next]_vars
=============================================================================
