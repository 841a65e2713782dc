------------------------------ MODULE SyncDisk ------------------------------
(***************************************************************************)
(* What callers of the block driver see: a disk behind a synchronous call. *)
(* A call is performed on the disk exactly once, after it was made and     *)
(* before it returns; nothing else changes the disk.                       *)
(***************************************************************************)
CONSTANTS Ops, Apply(_, _)    \* Apply(op, disk) = the disk after op

VARIABLES disk, op, stage
vars == <<disk, op, stage>>

Init == stage = "idle"

Call ==
    /\ stage = "idle" /\ stage' = "called"
    /\ op' \in Ops
    /\ UNCHANGED disk

\* The device carries the operation out, or reports an error and leaves the disk.
Perform ==
    /\ stage = "called" /\ stage' = "performed"
    /\ disk' \in {disk, Apply(op, disk)}
    /\ UNCHANGED op

Return ==
    /\ stage = "performed" /\ stage' = "idle"
    /\ UNCHANGED <<disk, op>>

Next == Call \/ Perform \/ Return

Spec == Init /\ [][Next]_vars
=============================================================================
