---------------------------- MODULE MCVirtioBlk -----------------------------
(***************************************************************************)
(* VirtioBlk on a disk of 4 sectors of 3 bytes, partition at sector 1, and *)
(* pages of 4 bytes.                                                       *)
(***************************************************************************)
EXTENDS VirtioBlk

\* Aligned and not, and one that needs one sector more than read asks for.
AnyReads ==
    {[offset |-> 0, length |-> 1], [offset |-> 4, length |-> 2], [offset |-> 0, length |-> 3],
     [offset |-> 2, length |-> 2]}

BlockWrites == {[sector |-> 2, length |-> 3], [sector |-> 1, length |-> 4]}

\* Frames in a row; and one page's frame taken by somebody else, so that the
\* second page follows the third.
HeapPlaces ==
    {[start |-> 3, frame |-> [i \in 0 .. 2 |-> 4 + i]],
     [start |-> 3, frame |-> [i \in 0 .. 2 |-> IF i = 0 THEN 4 ELSE 7 - i]]}
=============================================================================
