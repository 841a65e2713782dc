------------------------------ MODULE MCLoader ------------------------------
(***************************************************************************)
(* ELF files for Loader.  Bytes are numbered by segment.                   *)
(***************************************************************************)
EXTENDS Loader

Segment(vaddr, memsz, bytes) ==
    [load |-> TRUE, vaddr |-> vaddr, memsz |-> memsz, bytes |-> bytes]
Note == [load |-> FALSE, vaddr |-> 0, memsz |-> 1, bytes |-> <<>>]

\* What the first n bytes of a segment hold.
Bytes(tag, n) == [k \in 1 .. n |-> tag + k]

(* A text and a data segment, each inside a page of its own, with and      *)
(* without bytes that are not in the file, aligned or not, and a header    *)
(* that is not loaded before or between them.                              *)
Texts == {Segment(2, 2, Bytes(10, 2)), Segment(3, 1, Bytes(10, 1)), Segment(2, 1, Bytes(10, 1))}
Data == {Segment(4, 2, Bytes(20, 1)), Segment(5, 1, Bytes(30, 1)), Segment(8, 1, Bytes(40, 1)),
         Segment(9, 1, <<>>)}
OnePageFiles ==
    {<<t, d>> : t \in Texts, d \in Data} \cup {<<Note, t>> : t \in Texts}
        \cup {<<Segment(10, 2, Bytes(50, 2))>>, <<Segment(8, 1, Bytes(50, 1))>>}
        \cup {<<t, Note, d>> : t \in Texts, d \in Data}

(* Segments that do not stay inside one page.                              *)
LargeFiles == {<<Segment(2, 3, Bytes(10, 3))>>, <<Segment(3, 2, Bytes(10, 2))>>}
AllFiles ==
    OnePageFiles \cup LargeFiles
        \cup {<<Segment(2, 1, Bytes(10, 1)), Segment(3, 1, Bytes(20, 1))>>}
=============================================================================
