---------------------------- MODULE AddressSpace ----------------------------
(***************************************************************************)
(* What the rest of the kernel expects of map_page and of                  *)
(* get_physical_address_of_virtual_address: a map from pages to frames     *)
(* that changes one page at a time, always to a frame that nobody had      *)
(* before, while page tables take other frames on the side.                *)
(***************************************************************************)
CONSTANTS Pages, Frames, Null

VARIABLES
    mapping,    \* the frame each page is translated to
    owned,      \* the frames that have been given to a page
    tables      \* the frames that hold page tables
vars == <<mapping, owned, tables>>

Init ==
    /\ mapping = [p \in Pages |-> Null]
    /\ owned = {}
    /\ tables = {}

\* More frames become page tables.
AddTables ==
    /\ tables \subseteq tables'
    /\ tables' \cap owned' = {}

Reserve ==
    /\ AddTables
    /\ UNCHANGED <<mapping, owned>>

Map(p, f) ==
    /\ f \notin owned \cup tables
    /\ mapping' = [mapping EXCEPT ![p] = f]
    /\ owned' = owned \cup {f}
    /\ AddTables

Next == Reserve \/ \E p \in Pages, f \in Frames : Map(p, f)

Spec == Init /\ [][Next]_vars
=============================================================================
