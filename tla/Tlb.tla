-------------------------------- MODULE Tlb ---------------------------------
(***************************************************************************)
(* Paging with the hart's cache of translations.  The hart may walk the    *)
(* tables and keep the result, "not mapped" included, at any time, and may *)
(* drop it at any time.  switch_to_new_page_table ends with sfence.vma,    *)
(* which drops everything; map_page has no fence.                          *)
(***************************************************************************)
EXTENDS Paging

CONSTANT Cacheable   \* the pages whose cached translation is followed

ASSUME TlbAssumption == Cacheable \subseteq Pages

None == -2

VARIABLES
    tlb,        \* tlb[v] = the cached entry for page v, or None
    remapped    \* history: the pages map_page has been called for more than once
tlbVars == <<pagingVars, tlb, remapped>>

\* Cached entries are entries.
TlbTypeOK ==
    /\ tlb \in [Cacheable -> Entries \cup {None}]
    /\ remapped \subseteq mapped
-----------------------------------------------------------------------------
TlbInit ==
    /\ PagingInit
    /\ tlb = [v \in Cacheable |-> None]
    /\ remapped = {}

\* Mutant: satp is written without the fence.
switch_to_new_page_table_no_fence == UNCHANGED tlb
switch_to_new_page_table == tlb' = [v \in Cacheable |-> None]

Switch ==
    /\ paging_init
    /\ switch_to_new_page_table
    /\ UNCHANGED remapped

Map(v) ==
    /\ MapNewPage(v)
    /\ remapped' = remapped \cup (mapped \cap {v})
    /\ UNCHANGED tlb

\* Before paging_init the walk is that of the boot tables, which nobody cleared.
Walked(v) ==
    IF paging_on THEN {get_physical_address_of_virtual_address(Memory, v)} ELSE Entries

Fill(v) ==
    /\ tlb[v] = None
    /\ \E e \in Walked(v) : tlb' = [tlb EXCEPT ![v] = e]
    /\ UNCHANGED <<pagingVars, remapped>>

Evict(v) ==
    /\ tlb[v] # None
    /\ tlb' = [tlb EXCEPT ![v] = None]
    /\ UNCHANGED <<pagingVars, remapped>>

TlbNext == Switch \/ (\E v \in Pages : Map(v)) \/ \E v \in Cacheable : Fill(v) \/ Evict(v)

TlbSpec == TlbInit /\ [][TlbNext]_tlbVars
-----------------------------------------------------------------------------
(* Without a fence in map_page, a page that was mapped once is never       *)
(* reached through an outdated frame, however many pages were mapped after *)
(* it: what is cached is its frame, or at worst that it is not mapped.     *)
(* Only pages that the loader maps again can be read and written in a      *)
(* frame they no longer have.                                              *)
MappedOnceIsCurrent ==
    paging_on => \A v \in Cacheable \ remapped : tlb[v] \in {None, Invalid, Translation[v]}

(* Even an outdated translation leads to a frame of the page's own: no     *)
(* other page is translated to it, by the tables or from the cache, and it *)
(* holds no page table.  So a missing fence never lets a page's accesses   *)
(* reach another page.                                                     *)
CachedApart ==
    paging_on =>
        \A v \in Cacheable : tlb[v] \notin {None, Invalid} =>
            /\ tlb[v] \in Frames
            /\ level[tlb[v]] = 0
            /\ \A w \in Pages \ {v} : Translation[w] # tlb[v]
            /\ \A w \in Cacheable \ {v} : tlb[w] # tlb[v]
=============================================================================
