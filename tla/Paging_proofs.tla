--------------------------- MODULE Paging_proofs ----------------------------
(***************************************************************************)
(* Proofs about Paging and the cache of translations on top of it (Tlb),   *)
(* for every table size and every number of frames, on frames that hold    *)
(* zeros when they are handed out (StaleFrames = {}).                      *)
(***************************************************************************)
EXTENDS Tlb, TLAPS

Mem == [next : 0 .. NumFrames,
        table : [Frames -> [Index -> Entries]],
        level : [Frames -> -1 .. 4]]

Walk(m, v) == get_physical_address_of_virtual_address(m, v)

(* The invariant of the page tables, of a memory value so that it can be   *)
(* followed through the steps inside one call of map_page.                 *)
LevelsMatchAllocator(m) == \A f \in Frames : m.level[f] = -1 <=> f >= m.next
OnlyTablesHaveEntries(m) ==
    \A f \in Frames, i \in Index : m.table[f][i] # Invalid => m.level[f] >= 1
ChildrenOneBelow(m) ==
    \A f \in Frames, i \in Index :
        m.table[f][i] \in Frames => m.level[m.table[f][i]] = m.level[f] - 1
OneParent(m) ==
    \A f, g \in Frames, i, j \in Index :
        (m.table[f][i] \in Frames /\ m.table[f][i] = m.table[g][j]) => (f = g /\ i = j)
DirectMapOnlyThere(m) ==
    \A f \in Frames, i \in Index :
        m.table[f][i] = DirectMap => (i < DirectGigas /\ m.table[Root][KERNEL_HALF] = f)
RootOnTop(m) == m.level[Root] = 4

MemInv(m) ==
    /\ m \in Mem
    /\ LevelsMatchAllocator(m)
    /\ OnlyTablesHaveEntries(m)
    /\ ChildrenOneBelow(m)
    /\ OneParent(m)
    /\ DirectMapOnlyThere(m)
    /\ RootOnTop(m)

Unreferenced(m, p) == \A f \in Frames, i \in Index : m.table[f][i] # p

\* What the assumption on the constants gives, spelled out.
LEMMA Constants ==
    /\ RADIX \in Nat /\ RADIX >= 2
    /\ NumFrames \in Nat /\ NumFrames >= 2
    /\ Root \in Frames /\ 1 \in Frames
    /\ Frames \subseteq Nat /\ Index \subseteq Nat
    /\ Frames \subseteq Entries /\ Invalid \in Entries /\ DirectMap \in Entries
    /\ Invalid \notin Frames /\ DirectMap \notin Frames /\ Invalid # DirectMap
    /\ KERNEL_HALF \in Index /\ DirectGigas \in Nat
BY PagingAssumption DEF Frames, Index, Root, Entries, Invalid, DirectMap

\* What setEntry changes.
LEMMA SetEntryFields ==
    ASSUME NEW m \in Mem, NEW t \in Frames, NEW i \in Index, NEW e \in Entries
    PROVE  LET n == setEntry(m, t, i, e) IN
           /\ n \in Mem
           /\ n.next = m.next
           /\ n.level = m.level
           /\ \A f \in Frames, j \in Index :
                n.table[f][j] = IF f = t /\ j = i THEN e ELSE m.table[f][j]
<1> DEFINE row == [m.table[t] EXCEPT ![i] = e]
           tab == [m.table EXCEPT ![t] = row]
           n == setEntry(m, t, i, e)
<1>1. m.table \in [Frames -> [Index -> Entries]] /\ m.next \in 0 .. NumFrames
      /\ m.level \in [Frames -> -1 .. 4]
    BY DEF Mem
<1>2. row \in [Index -> Entries] /\ \A j \in Index : row[j] = IF j = i THEN e ELSE m.table[t][j]
    BY <1>1
<1> HIDE DEF row
<1>3. tab \in [Frames -> [Index -> Entries]]
      /\ \A f \in Frames : tab[f] = IF f = t THEN row ELSE m.table[f]
    BY <1>1, <1>2
<1>4. n = [m EXCEPT !.table = tab]
    BY DEF setEntry, row
<1> HIDE DEF tab, n
<1>5. n \in Mem /\ n.next = m.next /\ n.level = m.level /\ n.table = tab
    BY <1>1, <1>3, <1>4 DEF Mem
<1>6. ASSUME NEW f \in Frames, NEW j \in Index
      PROVE  n.table[f][j] = IF f = t /\ j = i THEN e ELSE m.table[f][j]
    BY <1>2, <1>3, <1>5
<1> QED BY <1>5, <1>6 DEF n

\* What kalloc_frame changes.
LEMMA TakeFrameFields ==
    ASSUME NEW m \in Mem, m.next < NumFrames, NEW use \in -1 .. 4
    PROVE  LET n == TakeFrame(m, use) IN
           /\ n \in Mem
           /\ n.next = m.next + 1
           /\ m.next \in Frames
           /\ n.table = m.table
           /\ \A f \in Frames : n.level[f] = IF f = m.next THEN use ELSE m.level[f]
<1> DEFINE n == TakeFrame(m, use)
           lev == [m.level EXCEPT ![m.next] = use]
<1>1. m.table \in [Frames -> [Index -> Entries]] /\ m.next \in 0 .. NumFrames
      /\ m.level \in [Frames -> -1 .. 4]
    BY DEF Mem
<1>2. m.next \in Frames /\ m.next + 1 \in 0 .. NumFrames
    BY <1>1, Constants DEF Frames
<1>3. lev \in [Frames -> -1 .. 4]
      /\ \A f \in Frames : lev[f] = IF f = m.next THEN use ELSE m.level[f]
    BY <1>1, <1>2
<1>4. n = [m EXCEPT !.next = m.next + 1, !.level = lev]
    BY DEF TakeFrame
<1> HIDE DEF lev, n
<1>5. n \in Mem /\ n.next = m.next + 1 /\ n.level = lev /\ n.table = m.table
    BY <1>1, <1>2, <1>3, <1>4 DEF Mem
<1> QED BY <1>2, <1>3, <1>5 DEF n
-----------------------------------------------------------------------------
\* The quotient of a number below a product.
LEMMA DivLess ==
    ASSUME NEW x \in Nat, NEW n \in Nat \ {0}, NEW k \in Nat, x < k * n
    PROVE  x \div n \in Nat /\ x \div n < k
BY SMT

(* The four digits of a page are indices of page tables.                   *)
LEMMA VpnIndex ==
    ASSUME NEW v \in Pages
    PROVE  /\ get_vpn_0(v) \in Index /\ get_vpn_1(v) \in Index
           /\ get_vpn_2(v) \in Index /\ get_vpn_3(v) \in Index
<1> DEFINE q1 == v \div RADIX
           q2 == q1 \div RADIX
           q3 == q2 \div RADIX
           r2 == RADIX * RADIX
           r3 == r2 * RADIX
<1>1. RADIX \in Nat \ {0} /\ r2 \in Nat /\ r3 \in Nat
    BY Constants
<1>2. v \in Nat /\ v < r3 * RADIX
    BY <1>1 DEF Pages
<1>3. q1 \in Nat /\ q1 < r3
    <2> HIDE DEF r3
    <2> QED BY <1>1, <1>2, DivLess
<1>4. q2 \in Nat /\ q2 < r2
    <2> HIDE DEF r2, q1
    <2> QED BY <1>1, <1>3, DivLess
<1>5. q3 \in Nat /\ q3 < RADIX
    <2> HIDE DEF q2
    <2> QED BY <1>1, <1>4, DivLess
<1> HIDE DEF q1, q2, q3
<1>6. \A x \in Nat : x % RADIX \in Index
    BY <1>1 DEF Index
<1>7. v % RADIX \in Index /\ q1 % RADIX \in Index /\ q2 % RADIX \in Index
    BY <1>2, <1>3, <1>4, <1>6
<1>8. q3 \in Index
    BY <1>1, <1>5 DEF Index
<1> QED BY <1>7, <1>8 DEF get_vpn_0, get_vpn_1, get_vpn_2, get_vpn_3, q1, q2, q3

\* Quotient and remainder determine the number.
LEMMA DivModUnique ==
    ASSUME NEW x \in Nat, NEW y \in Nat, NEW n \in Nat \ {0},
           x \div n = y \div n, x % n = y % n
    PROVE  x = y
<1>1. x = n * (x \div n) + (x % n)
    BY SMT
<1>2. y = n * (y \div n) + (y % n)
    BY SMT
<1> QED BY <1>1, <1>2

(* Two pages with the same four digits are the same page.                  *)
LEMMA VpnInjective ==
    ASSUME NEW v \in Pages, NEW w \in Pages,
           get_vpn_0(v) = get_vpn_0(w), get_vpn_1(v) = get_vpn_1(w),
           get_vpn_2(v) = get_vpn_2(w), get_vpn_3(v) = get_vpn_3(w)
    PROVE  v = w
<1> DEFINE a1 == v \div RADIX
           a2 == a1 \div RADIX
           b1 == w \div RADIX
           b2 == b1 \div RADIX
<1>1. RADIX \in Nat \ {0} /\ v \in Nat /\ w \in Nat
    BY Constants DEF Pages
<1>2. a1 \in Nat /\ b1 \in Nat
    BY <1>1
<1>3. a2 \in Nat /\ b2 \in Nat
    <2> HIDE DEF a1, b1
    <2> QED BY <1>1, <1>2
<1>4. /\ v % RADIX = w % RADIX /\ a1 % RADIX = b1 % RADIX /\ a2 % RADIX = b2 % RADIX
      /\ a2 \div RADIX = b2 \div RADIX
    BY DEF get_vpn_0, get_vpn_1, get_vpn_2, get_vpn_3
<1>5. a2 = b2
    <2> HIDE DEF a2, b2
    <2> QED BY <1>1, <1>3, <1>4, DivModUnique
<1>6. a1 = b1
    <2> HIDE DEF a1, b1
    <2> QED BY <1>1, <1>2, <1>4, <1>5, DivModUnique DEF a2, b2
<1> QED BY <1>1, <1>4, <1>6, DivModUnique
-----------------------------------------------------------------------------
(* Taking a frame from the allocator keeps the invariant, and no entry     *)
(* leads to a frame that was not handed out before.                        *)
LEMMA TakeInv ==
    ASSUME NEW m, MemInv(m), m.next < NumFrames, NEW use \in 0 .. 4
    PROVE  LET n == TakeFrame(m, use) IN
           /\ MemInv(n)
           /\ n.table = m.table
           /\ n.next = m.next + 1
           /\ m.next \in Frames
           /\ n.level[m.next] = use
           /\ m.level[m.next] = -1
           /\ \A f \in Frames : f # m.next => n.level[f] = m.level[f]
           /\ Unreferenced(n, m.next)
           /\ \A j \in Index : n.table[m.next][j] = Invalid
<1> DEFINE n == TakeFrame(m, use)
<1>1. /\ m \in Mem /\ n \in Mem
      /\ n.next = m.next + 1 /\ m.next \in Frames /\ n.table = m.table
      /\ \A f \in Frames : n.level[f] = IF f = m.next THEN use ELSE m.level[f]
    BY TakeFrameFields DEF MemInv
<1> HIDE DEF n
<1>2. /\ m.table \in [Frames -> [Index -> Entries]] /\ m.next \in Nat
      /\ m.level \in [Frames -> -1 .. 4]
    BY <1>1 DEF Mem
<1>3. m.level[m.next] = -1
    BY <1>1, <1>2 DEF MemInv, LevelsMatchAllocator
<1>4. Unreferenced(m, m.next)
    <2> SUFFICES ASSUME NEW f \in Frames, NEW i \in Index, m.table[f][i] = m.next
                 PROVE  FALSE
        BY DEF Unreferenced
    <2>1. m.level[f] = 0
        BY <1>1, <1>2, <1>3 DEF MemInv, ChildrenOneBelow
    <2>2. m.table[f][i] # Invalid
        BY <1>1, Constants
    <2> QED BY <2>1, <2>2 DEF MemInv, OnlyTablesHaveEntries
<1>5. \A j \in Index : m.table[m.next][j] = Invalid
    BY <1>1, <1>3 DEF MemInv, OnlyTablesHaveEntries
<1>6. LevelsMatchAllocator(n)
    <2> SUFFICES ASSUME NEW f \in Frames
                 PROVE  n.level[f] = -1 <=> f >= n.next
        BY DEF LevelsMatchAllocator
    <2>1. m.level[f] = -1 <=> f >= m.next
        BY DEF MemInv, LevelsMatchAllocator
    <2>2. f \in Nat /\ use # -1
        BY Constants
    <2>3. CASE f = m.next
        BY <1>1, <1>2, <2>2, <2>3
    <2>4. CASE f # m.next
        BY <1>1, <1>2, <2>1, <2>2, <2>4
    <2> QED BY <2>3, <2>4
<1>7. OnlyTablesHaveEntries(n)
    BY <1>1, <1>5 DEF MemInv, OnlyTablesHaveEntries
<1>8. ChildrenOneBelow(n)
    <2> SUFFICES ASSUME NEW f \in Frames, NEW i \in Index, m.table[f][i] \in Frames
                 PROVE  n.level[m.table[f][i]] = n.level[f] - 1
        BY <1>1 DEF ChildrenOneBelow
    <2>1. m.table[f][i] # m.next
        BY <1>4 DEF Unreferenced
    <2>2. f # m.next
        BY <1>5, Constants
    <2> QED BY <1>1, <2>1, <2>2 DEF MemInv, ChildrenOneBelow
<1>9. OneParent(n) /\ DirectMapOnlyThere(n)
    BY <1>1 DEF MemInv, OneParent, DirectMapOnlyThere
<1>10. RootOnTop(n)
    BY <1>1, <1>3, Constants DEF MemInv, RootOnTop
<1>11. Unreferenced(n, m.next)
    BY <1>1, <1>4 DEF Unreferenced
<1>12. MemInv(n)
    BY <1>1, <1>6, <1>7, <1>8, <1>9, <1>10 DEF MemInv
<1> QED BY <1>1, <1>3, <1>5, <1>11, <1>12 DEF n

(* Pointing an entry to a frame one level below that no entry leads to     *)
(* keeps the invariant; an entry of the root may only be filled in.        *)
LEMMA LinkInv ==
    ASSUME NEW m, MemInv(m), NEW t \in Frames, NEW i \in Index, NEW p \in Frames,
           Unreferenced(m, p), m.level[p] >= 0, m.level[t] = m.level[p] + 1,
           t # Root \/ m.table[t][i] = Invalid
    PROVE  MemInv(setEntry(m, t, i, p))
<1> DEFINE n == setEntry(m, t, i, p)
<1>0. m \in Mem /\ p \in Entries
    BY Constants DEF MemInv
<1>1. /\ n \in Mem
      /\ n.next = m.next /\ n.level = m.level
      /\ \A f \in Frames, j \in Index :
            n.table[f][j] = IF f = t /\ j = i THEN p ELSE m.table[f][j]
    BY <1>0, SetEntryFields
<1> HIDE DEF n
<1>2. /\ m.table \in [Frames -> [Index -> Entries]] /\ m.level \in [Frames -> -1 .. 4]
    BY <1>0 DEF Mem
<1>3. LevelsMatchAllocator(n) /\ RootOnTop(n)
    BY <1>1 DEF MemInv, LevelsMatchAllocator, RootOnTop
<1>4. OnlyTablesHaveEntries(n)
    BY <1>1, <1>2 DEF MemInv, OnlyTablesHaveEntries
<1>5. ChildrenOneBelow(n)
    BY <1>1, <1>2 DEF MemInv, ChildrenOneBelow
<1>6. OneParent(n)
    BY <1>1 DEF MemInv, OneParent, Unreferenced
<1>7. DirectMapOnlyThere(n)
    <2> SUFFICES ASSUME NEW f \in Frames, NEW j \in Index, n.table[f][j] = DirectMap
                 PROVE  j < DirectGigas /\ n.table[Root][KERNEL_HALF] = f
        BY DEF DirectMapOnlyThere
    <2>1. m.table[f][j] = DirectMap
        BY <1>1, Constants
    <2>2. j < DirectGigas /\ m.table[Root][KERNEL_HALF] = f
        BY <2>1 DEF MemInv, DirectMapOnlyThere
    <2>3. ~(t = Root /\ i = KERNEL_HALF)
        BY <2>2, Constants
    <2> QED BY <1>1, <2>2, <2>3, Constants
<1> QED BY <1>1, <1>3, <1>4, <1>5, <1>6, <1>7 DEF MemInv, n
-----------------------------------------------------------------------------
(* The frames a walk passes through.                                       *)
W1(m, v) == Follow(m, Root, get_vpn_3(v))
W2(m, v) == Follow(m, W1(m, v), get_vpn_2(v))
W3(m, v) == Follow(m, W2(m, v), get_vpn_1(v))

\* The walk, one table at a time.
LEMMA WalkSplit ==
    ASSUME NEW m, NEW v
    PROVE  Walk(m, v) = Follow(m, W3(m, v), get_vpn_0(v))
BY DEF Walk, get_physical_address_of_virtual_address, W1, W2, W3

\* One step of the walk through a table.
LEMMA FollowStep ==
    ASSUME NEW m, MemInv(m), NEW a, NEW j \in Index
    PROVE  /\ Follow(m, a, j) \in Entries
           /\ Follow(m, a, j) # Invalid =>
                 a \in Frames /\ Follow(m, a, j) = m.table[a][j]
           /\ Follow(m, a, j) \in Frames =>
                 a \in Frames /\ m.level[a] = m.level[Follow(m, a, j)] + 1
<1>1. m.table \in [Frames -> [Index -> Entries]] /\ m.level \in [Frames -> -1 .. 4]
    BY DEF MemInv, Mem
<1>2. CASE a \in Frames
    <2>1. Follow(m, a, j) = m.table[a][j] /\ m.table[a][j] \in Entries
        BY <1>1, <1>2 DEF Follow
    <2> QED BY <1>1, <1>2, <2>1 DEF MemInv, ChildrenOneBelow
<1>3. CASE a \notin Frames
    BY <1>3, Constants DEF Follow
<1> QED BY <1>2, <1>3

(* A walk never meets a gigabyte leaf, since the pages of the direct map   *)
(* are not among Pages, and the frames it meets have levels 3, 2, 1 and 0. *)
LEMMA WalkLevels ==
    ASSUME NEW m, MemInv(m), NEW v \in Pages
    PROVE  /\ W1(m, v) \in Frames \cup {Invalid}
           /\ W2(m, v) \in Frames \cup {Invalid}
           /\ W3(m, v) \in Frames \cup {Invalid}
           /\ Walk(m, v) \in Frames \cup {Invalid}
           /\ W1(m, v) \in Frames => m.level[W1(m, v)] = 3
           /\ W2(m, v) \in Frames => m.level[W2(m, v)] = 2
           /\ W3(m, v) \in Frames => m.level[W3(m, v)] = 1
           /\ Walk(m, v) \in Frames => m.level[Walk(m, v)] = 0
<1> DEFINE a == W1(m, v)
           b == W2(m, v)
           c == W3(m, v)
           d == Walk(m, v)
<1>1. m.table \in [Frames -> [Index -> Entries]] /\ m.level \in [Frames -> -1 .. 4]
    BY DEF MemInv, Mem
<1>2. a = Follow(m, Root, get_vpn_3(v)) /\ b = Follow(m, a, get_vpn_2(v))
      /\ c = Follow(m, b, get_vpn_1(v)) /\ d = Follow(m, c, get_vpn_0(v))
    BY WalkSplit DEF W1, W2, W3
<1>3. /\ get_vpn_0(v) \in Index /\ get_vpn_1(v) \in Index
      /\ get_vpn_2(v) \in Index /\ get_vpn_3(v) \in Index
    BY VpnIndex
<1> HIDE DEF a, b, c, d
<1>4. a \in Frames => m.level[a] = 3
    BY <1>1, <1>2, <1>3, FollowStep DEF MemInv, RootOnTop
<1>5. b \in Frames => m.level[b] = 2
    BY <1>1, <1>2, <1>3, <1>4, FollowStep
<1>6. c \in Frames => m.level[c] = 1
    BY <1>1, <1>2, <1>3, <1>5, FollowStep
<1>7. d \in Frames => m.level[d] = 0
    BY <1>1, <1>2, <1>3, <1>6, FollowStep
<1>8. a \in Entries /\ b \in Entries /\ c \in Entries /\ d \in Entries
    BY <1>2, <1>3, FollowStep
<1>9. \A f \in Frames, j \in Index :
         m.table[f][j] = DirectMap => /\ m.level[f] = 3 /\ j < DirectGigas
                                      /\ m.table[Root][KERNEL_HALF] = f
    <2> SUFFICES ASSUME NEW f \in Frames, NEW j \in Index, m.table[f][j] = DirectMap
                 PROVE  /\ m.level[f] = 3 /\ j < DirectGigas
                        /\ m.table[Root][KERNEL_HALF] = f
        OBVIOUS
    <2>1. j < DirectGigas /\ m.table[Root][KERNEL_HALF] = f
        BY DEF MemInv, DirectMapOnlyThere
    <2>2. m.level[f] = m.level[Root] - 1
        BY <2>1, Constants DEF MemInv, ChildrenOneBelow
    <2> QED BY <2>1, <2>2 DEF MemInv, RootOnTop
<1>0. Invalid # DirectMap /\ Root \in Frames /\ KERNEL_HALF \in Index
      /\ DirectMap \notin Frames
    BY Constants
<1> DEFINE Met(x, y, j) == y = DirectMap => x \in Frames /\ m.table[x][j] = DirectMap
<1>a. Met(Root, a, get_vpn_3(v))
    BY <1>0, <1>2, Zenon DEF Follow
<1>b. Met(a, b, get_vpn_2(v))
    BY <1>0, <1>2, Zenon DEF Follow
<1>c. Met(b, c, get_vpn_1(v))
    BY <1>0, <1>2, Zenon DEF Follow
<1>d. Met(c, d, get_vpn_0(v))
    BY <1>0, <1>2, Zenon DEF Follow
<1>10. a # DirectMap
    BY <1>0, <1>3, <1>9, <1>a DEF MemInv, RootOnTop
<1>11. b # DirectMap
    <2> SUFFICES ASSUME b = DirectMap PROVE FALSE
        OBVIOUS
    <2>1. a \in Frames /\ m.table[a][get_vpn_2(v)] = DirectMap
        BY <1>b
    <2>2. get_vpn_2(v) < DirectGigas /\ m.table[Root][KERNEL_HALF] = a
        BY <1>3, <1>9, <2>1
    <2>3. m.table[Root][get_vpn_3(v)] = a
        BY <1>0, <1>2, <1>3, <2>1 DEF Follow
    <2>4. get_vpn_3(v) = KERNEL_HALF
        BY <1>0, <1>3, <2>1, <2>2, <2>3 DEF MemInv, OneParent
    <2> QED BY <2>2, <2>4 DEF Pages, InDirectMap
<1>12. c # DirectMap
    BY <1>3, <1>5, <1>9, <1>c
<1>13. d # DirectMap
    BY <1>3, <1>6, <1>9, <1>d
<1>14. \A e \in Entries : e # DirectMap => e \in Frames \cup {Invalid}
    BY DEF Entries
<1> QED BY <1>4, <1>5, <1>6, <1>7, <1>8, <1>10, <1>11, <1>12, <1>13, <1>14 DEF a, b, c, d
-----------------------------------------------------------------------------
(* Filling an invalid entry with an empty table changes no translation.    *)
LEMMA LinkTableWalk ==
    ASSUME NEW m, MemInv(m), NEW t \in Frames, NEW i \in Index, NEW p \in Frames,
           NEW v \in Pages,
           Unreferenced(m, p), m.level[p] >= 1, m.level[t] = m.level[p] + 1,
           m.table[t][i] = Invalid, \A j \in Index : m.table[p][j] = Invalid
    PROVE  Walk(setEntry(m, t, i, p), v) = Walk(m, v)
<1> DEFINE n == setEntry(m, t, i, p)
           Near(x, y) == y = x \/ (x = Invalid /\ y = p)
<1>0. m \in Mem /\ p \in Entries
    BY Constants DEF MemInv
<1>1. /\ n.level = m.level
      /\ \A f \in Frames, j \in Index :
            n.table[f][j] = IF f = t /\ j = i THEN p ELSE m.table[f][j]
    BY <1>0, SetEntryFields
<1>2. m.level \in [Frames -> -1 .. 4]
    BY <1>0 DEF Mem
<1>3. MemInv(n)
    BY <1>2, LinkInv
<1> HIDE DEF n
<1>4. ASSUME NEW x, NEW y, Near(x, y), NEW j \in Index
      PROVE  Near(Follow(m, x, j), Follow(n, y, j))
    <2>1. CASE y = x
        BY <1>1, <2>1 DEF Follow
    <2>2. CASE x = Invalid /\ y = p
        <3>1. Follow(m, x, j) = Invalid
            BY <2>2, Constants DEF Follow
        <3>2. p # t
            BY <1>2
        <3>3. Follow(n, y, j) = Invalid
            BY <1>1, <2>2, <3>2 DEF Follow
        <3> QED BY <3>1, <3>3
    <2> QED BY <1>4, <2>1, <2>2
<1>5. /\ get_vpn_0(v) \in Index /\ get_vpn_1(v) \in Index
      /\ get_vpn_2(v) \in Index /\ get_vpn_3(v) \in Index
    BY VpnIndex
<1>6. Near(W1(m, v), W1(n, v))
    BY <1>4, <1>5 DEF W1
<1>7. Near(W2(m, v), W2(n, v))
    <2> HIDE DEF Near
    <2> QED BY <1>4, <1>5, <1>6 DEF W2
<1>8. Near(W3(m, v), W3(n, v))
    <2> HIDE DEF Near
    <2> QED BY <1>4, <1>5, <1>7 DEF W3
<1>9. Near(Walk(m, v), Walk(n, v))
    <2> HIDE DEF Near
    <2> QED BY <1>4, <1>5, <1>8, WalkSplit
<1>10. Walk(n, v) # p
    <2>1. Walk(n, v) \in Frames => n.level[Walk(n, v)] = 0
        BY <1>3, WalkLevels
    <2> QED BY <1>1, <1>2, <2>1
<1> QED BY <1>9, <1>10 DEF n

(* Going up from a frame, every step is determined: two walks that meet    *)
(* in a last table and use the same entry of it are for the same page.     *)
LEMMA FollowInjective ==
    ASSUME NEW m, MemInv(m), NEW a, NEW b, NEW i \in Index, NEW j \in Index,
           Follow(m, a, i) = Follow(m, b, j), Follow(m, a, i) \in Frames
    PROVE  a = b /\ i = j /\ a \in Frames
<1>1. a \in Frames /\ b \in Frames
    BY FollowStep
<1> QED BY <1>1 DEF Follow, MemInv, OneParent

\* Pages at the same index of the same last table are the same page.
LEMMA SameLastTable ==
    ASSUME NEW m, MemInv(m), NEW v \in Pages, NEW w \in Pages,
           W3(m, w) = W3(m, v), W3(m, v) \in Frames, get_vpn_0(w) = get_vpn_0(v)
    PROVE  w = v
<1>1. \A x \in Pages : /\ get_vpn_0(x) \in Index /\ get_vpn_1(x) \in Index
                        /\ get_vpn_2(x) \in Index /\ get_vpn_3(x) \in Index
    BY VpnIndex
<1>2. W2(m, w) = W2(m, v) /\ get_vpn_1(w) = get_vpn_1(v) /\ W2(m, v) \in Frames
    BY <1>1, FollowInjective DEF W3
<1>3. W1(m, w) = W1(m, v) /\ get_vpn_2(w) = get_vpn_2(v) /\ W1(m, v) \in Frames
    BY <1>1, <1>2, FollowInjective DEF W2
<1>4. get_vpn_3(w) = get_vpn_3(v)
    BY <1>1, <1>3, FollowInjective DEF W1
<1> QED BY <1>2, <1>3, <1>4, VpnInjective

\* Two pages that are translated to the same frame are the same page.
LEMMA WalkInjective ==
    ASSUME NEW m, MemInv(m), NEW v \in Pages, NEW w \in Pages,
           Walk(m, w) = Walk(m, v), Walk(m, v) \in Frames
    PROVE  w = v
<1>1. get_vpn_0(v) \in Index /\ get_vpn_0(w) \in Index
    BY VpnIndex
<1>2. W3(m, w) = W3(m, v) /\ get_vpn_0(w) = get_vpn_0(v) /\ W3(m, v) \in Frames
    BY <1>1, FollowInjective, WalkSplit
<1> QED BY <1>2, SameLastTable

(* Setting an entry of the last table on the way of v changes the          *)
(* translation of v and of no other page.                                  *)
LEMMA LinkPageWalk ==
    ASSUME NEW m, MemInv(m), NEW v \in Pages, NEW p \in Frames,
           Unreferenced(m, p), m.level[p] = 0, W3(m, v) \in Frames
    PROVE  LET n == setEntry(m, W3(m, v), get_vpn_0(v), p) IN
           /\ MemInv(n)
           /\ Walk(n, v) = p
           /\ \A w \in Pages : w # v => Walk(n, w) = Walk(m, w)
<1> DEFINE t == W3(m, v)
           n == setEntry(m, t, get_vpn_0(v), p)
<1>0. m \in Mem /\ p \in Entries
    BY Constants DEF MemInv
<1>1. \A w \in Pages : /\ get_vpn_0(w) \in Index /\ get_vpn_1(w) \in Index
                        /\ get_vpn_2(w) \in Index /\ get_vpn_3(w) \in Index
    BY VpnIndex
<1>2. m.level[t] = 1
    BY WalkLevels
<1>3. t \in Frames /\ t # Root
    BY <1>2 DEF MemInv, RootOnTop
<1>4. \A f \in Frames, j \in Index :
        n.table[f][j] = IF f = t /\ j = get_vpn_0(v) THEN p ELSE m.table[f][j]
    <2> HIDE DEF t
    <2> QED BY <1>0, <1>1, <1>3, SetEntryFields
<1>5. MemInv(n)
    <2> HIDE DEF t
    <2> QED BY <1>1, <1>2, <1>3, LinkInv
<1> HIDE DEF n
<1>6. ASSUME NEW a, NEW j \in Index, a # t
      PROVE  Follow(n, a, j) = Follow(m, a, j)
    BY <1>4, <1>6 DEF Follow
<1>7. ASSUME NEW w \in Pages
      PROVE  W3(n, w) = W3(m, w)
    <2>1. W1(n, w) = W1(m, w)
        BY <1>1, <1>3, <1>6 DEF W1
    <2>2. W1(m, w) # t
        BY <1>2, <1>3, WalkLevels
    <2>3. W2(n, w) = W2(m, w)
        BY <1>1, <1>6, <2>1, <2>2 DEF W2
    <2>4. W2(m, w) # t
        BY <1>2, <1>3, WalkLevels
    <2> QED BY <1>1, <1>6, <2>3, <2>4 DEF W3
<1>8. Walk(n, v) = p
    <2>1. Walk(n, v) = Follow(n, t, get_vpn_0(v))
        BY <1>7, WalkSplit
    <2> QED BY <1>1, <1>3, <1>4, <2>1 DEF Follow
<1>9. ASSUME NEW w \in Pages, w # v
      PROVE  Walk(n, w) = Walk(m, w)
    <2>1. Walk(n, w) = Follow(n, W3(m, w), get_vpn_0(w))
          /\ Walk(m, w) = Follow(m, W3(m, w), get_vpn_0(w))
        BY <1>7, WalkSplit
    <2>2. CASE W3(m, w) # t
        BY <1>1, <1>6, <2>1, <2>2
    <2>3. CASE W3(m, w) = t /\ get_vpn_0(w) # get_vpn_0(v)
        BY <1>1, <1>3, <1>4, <2>1, <2>3 DEF Follow
    <2>4. CASE W3(m, w) = t /\ get_vpn_0(w) = get_vpn_0(v)
        <3>5. w = v
            BY <1>3, <2>4, SameLastTable
        <3> QED BY <1>9, <3>5
    <2> QED BY <2>2, <2>3, <2>4
<1> QED BY <1>5, <1>8, <1>9 DEF n
-----------------------------------------------------------------------------
(* n is m after some more tables were added: nothing that was there has    *)
(* moved, no frame has become a page, and every page is translated as      *)
(* before.                                                                 *)
Grown(m, n) ==
    /\ MemInv(n)
    /\ \A f \in Frames : m.level[f] # -1 => n.level[f] = m.level[f]
    /\ \A f \in Frames : m.level[f] = -1 => n.level[f] # 0
    /\ \A p \in Frames : (Unreferenced(m, p) /\ m.level[p] # -1) => Unreferenced(n, p)
    /\ \A f \in Frames, j \in Index :
          m.table[f][j] \in Frames => n.table[f][j] = m.table[f][j]
    /\ \A v \in Pages : Walk(n, v) = Walk(m, v)

\* Growing twice is growing.
LEMMA GrownTransitive ==
    ASSUME NEW m, NEW n, NEW o, Grown(m, n), Grown(n, o)
    PROVE  Grown(m, o)
BY DEF Grown

(* One level of map_page.                                                  *)
LEMMA EnsureGrows ==
    ASSUME NEW m, MemInv(m), NEW t \in Frames, NEW i \in Index,
           m.level[t] \in 2 .. 4, m.table[t][i] # DirectMap, m.next < NumFrames
    PROVE  LET n == EnsureEntry(m, t, i) IN
           /\ Grown(m, n)
           /\ n.table[t][i] \in Frames
           /\ n.next \in m.next .. m.next + 1
<1> DEFINE n == EnsureEntry(m, t, i)
<1>1. /\ m \in Mem
      /\ m.table \in [Frames -> [Index -> Entries]] /\ m.next \in Nat
      /\ m.level \in [Frames -> -1 .. 4]
    BY DEF MemInv, Mem
<1>2. CASE isEntryValid(m, t, i)
    <2>1. n = m
        BY <1>2 DEF EnsureEntry
    <2>2. m.table[t][i] \in Frames
        BY <1>1, <1>2 DEF isEntryValid, Entries
    <2>3. Grown(m, m)
        BY <1>1 DEF Grown
    <2> HIDE DEF n
    <2> QED BY <1>1, <2>1, <2>2, <2>3 DEF n
<1>3. CASE ~isEntryValid(m, t, i)
    <2> DEFINE p == m.next
               k == TakeFrame(m, m.level[t] - 1)
               o == setEntry(k, t, i, p)
    <2>1. n = o
        BY <1>3 DEF EnsureEntry
    <2>2. /\ MemInv(k) /\ k.table = m.table /\ k.next = m.next + 1
          /\ p \in Frames /\ k.level[p] = m.level[t] - 1 /\ m.level[p] = -1
          /\ \A f \in Frames : f # p => k.level[f] = m.level[f]
          /\ Unreferenced(k, p)
          /\ \A j \in Index : k.table[p][j] = Invalid
        BY <1>1, TakeInv
    <2> HIDE DEF n, k, p
    <2>3. t # p /\ k.level[t] = k.level[p] + 1 /\ k.level[p] >= 1
        BY <1>1, <2>2
    <2>4. k.table[t][i] = Invalid
        BY <1>3, <2>2 DEF isEntryValid
    <2>5. MemInv(o)
        BY <1>1, <2>2, <2>3, <2>4, LinkInv
    <2>6. \A v \in Pages : Walk(o, v) = Walk(k, v)
        BY <2>2, <2>3, <2>4, LinkTableWalk
    <2>7. \A v \in Pages : Walk(k, v) = Walk(m, v)
        BY <2>2 DEF Walk, get_physical_address_of_virtual_address, Follow
    <2>8. /\ o.next = k.next /\ o.level = k.level
          /\ \A f \in Frames, j \in Index :
                o.table[f][j] = IF f = t /\ j = i THEN p ELSE k.table[f][j]
        <3>1. k \in Mem /\ p \in Entries
            BY <2>2, Constants DEF MemInv
        <3> QED BY <3>1, SetEntryFields
    <2> HIDE DEF o
    <2>9. \A f \in Frames : m.level[f] # -1 => o.level[f] = m.level[f]
        BY <2>2, <2>8
    <2>10. \A f \in Frames : m.level[f] = -1 => o.level[f] # 0
        BY <2>2, <2>3, <2>8
    <2>11. \A q \in Frames : (Unreferenced(m, q) /\ m.level[q] # -1) => Unreferenced(o, q)
        BY <2>2, <2>8 DEF Unreferenced
    <2>12. \A f \in Frames, j \in Index :
              m.table[f][j] \in Frames => o.table[f][j] = m.table[f][j]
        BY <2>2, <2>4, <2>8, Constants
    <2>13. Grown(m, o)
        BY <2>5, <2>6, <2>7, <2>9, <2>10, <2>11, <2>12 DEF Grown
    <2>14. o.table[t][i] \in Frames /\ o.next \in m.next .. m.next + 1
        BY <1>1, <2>2, <2>8
    <2> QED BY <2>1, <2>13, <2>14 DEF n
<1> QED BY <1>2, <1>3

(* The three levels above the last table.                                  *)
LEMMA TablesGrow ==
    ASSUME NEW m, MemInv(m), NEW v \in Pages, m.next + 3 <= NumFrames
    PROVE  LET n == EnsureTables(m, v) IN
           /\ Grown(m, n)
           /\ W3(n, v) \in Frames
           /\ FourthTable(n, v) = W3(n, v)
           /\ n.next \in m.next .. m.next + 3
<1> DEFINE a == EnsureSecond(m, v)
           b == EnsureThird(a, v)
           c == EnsureFourth(b, v)
           s == SecondTable(a, v)
           t == ThirdTable(b, v)
           u == FourthTable(c, v)
<1>1. /\ get_vpn_1(v) \in Index /\ get_vpn_2(v) \in Index /\ get_vpn_3(v) \in Index
      /\ Root \in Frames /\ NumFrames \in Nat /\ Invalid \notin Frames
      /\ DirectMap \notin Frames /\ DirectMap # Invalid
    BY VpnIndex, Constants
<1>2. \A k : MemInv(k) => k.next \in Nat /\ k.level[Root] = 4
    BY DEF MemInv, Mem, RootOnTop
<1>3. ASSUME NEW k, MemInv(k)
      PROVE  /\ W1(k, v) = SecondTable(k, v) /\ SecondTable(k, v) # DirectMap
             /\ SecondTable(k, v) \in Frames =>
                  /\ W2(k, v) = ThirdTable(k, v) /\ ThirdTable(k, v) # DirectMap
                  /\ k.level[SecondTable(k, v)] = 3
                  /\ ThirdTable(k, v) \in Frames =>
                       /\ W3(k, v) = FourthTable(k, v) /\ FourthTable(k, v) # DirectMap
                       /\ k.level[ThirdTable(k, v)] = 2
    <2>1. W1(k, v) = SecondTable(k, v)
        BY <1>1 DEF W1, Follow, SecondTable
    <2>2. SecondTable(k, v) \in Frames => W2(k, v) = ThirdTable(k, v)
        BY <2>1 DEF W2, Follow, ThirdTable
    <2>3. ThirdTable(k, v) \in Frames /\ W2(k, v) = ThirdTable(k, v)
             => W3(k, v) = FourthTable(k, v)
        BY DEF W3, Follow, FourthTable
    <2> QED BY <1>1, <1>3, <2>1, <2>2, <2>3, WalkLevels
<1>4. /\ Grown(m, a) /\ s \in Frames /\ a.next \in m.next .. m.next + 1
    <2>1. m.table[Root][get_vpn_3(v)] # DirectMap
        BY <1>3 DEF SecondTable
    <2>2. m.level[Root] \in 2 .. 4 /\ m.next < NumFrames
        BY <1>1, <1>2
    <2> QED BY <1>1, <2>1, <2>2, EnsureGrows DEF EnsureSecond, SecondTable
<1>5. MemInv(a) /\ a.next \in Nat /\ m.next \in Nat
    BY <1>2, <1>4 DEF Grown
<1> HIDE DEF a
<1>6. /\ Grown(a, b) /\ b.table[s][get_vpn_2(v)] \in Frames
      /\ b.next \in a.next .. a.next + 1
    <2>1. a.table[s][get_vpn_2(v)] # DirectMap
        BY <1>3, <1>4, <1>5 DEF ThirdTable
    <2>2. a.level[s] \in 2 .. 4 /\ a.next < NumFrames
        BY <1>1, <1>3, <1>4, <1>5
    <2> QED BY <1>1, <1>4, <1>5, <2>1, <2>2, EnsureGrows DEF EnsureThird
<1>7. MemInv(b) /\ b.next \in Nat
    BY <1>2, <1>6 DEF Grown
<1> HIDE DEF b
<1>8. SecondTable(b, v) = s /\ t \in Frames
    <2>1. SecondTable(b, v) = s
        BY <1>1, <1>4, <1>6 DEF Grown, SecondTable
    <2> QED BY <1>6, <2>1 DEF ThirdTable
<1>9. /\ Grown(b, c) /\ c.table[t][get_vpn_1(v)] \in Frames
      /\ c.next \in b.next .. b.next + 1
    <2>1. b.table[t][get_vpn_1(v)] # DirectMap
        BY <1>3, <1>4, <1>7, <1>8 DEF FourthTable
    <2>2. b.level[t] \in 2 .. 4 /\ b.next < NumFrames
        BY <1>1, <1>3, <1>4, <1>5, <1>6, <1>7, <1>8
    <2> QED BY <1>1, <1>7, <1>8, <2>1, <2>2, EnsureGrows DEF EnsureFourth
<1>10. MemInv(c) /\ c.next \in Nat
    BY <1>2, <1>9 DEF Grown
<1> HIDE DEF c
<1>11. SecondTable(c, v) = s /\ ThirdTable(c, v) = t /\ u \in Frames
    <2>1. SecondTable(c, v) = s
        BY <1>1, <1>4, <1>8, <1>9 DEF Grown, SecondTable
    <2>2. ThirdTable(c, v) = t
        BY <1>1, <1>4, <1>8, <1>9, <2>1 DEF Grown, ThirdTable
    <2> QED BY <1>9, <2>1, <2>2 DEF FourthTable
<1>12. W3(c, v) = u
    BY <1>3, <1>4, <1>8, <1>10, <1>11
<1>13. Grown(m, c)
    BY <1>4, <1>6, <1>9, GrownTransitive
<1>14. c.next \in m.next .. m.next + 3
    BY <1>4, <1>5, <1>6, <1>7, <1>9, <1>10
<1> QED BY <1>11, <1>12, <1>13, <1>14 DEF EnsureTables, a, b, c

(* A whole call of map_page for a page frame that no entry leads to.       *)
LEMMA MapPage ==
    ASSUME NEW m, MemInv(m), NEW v \in Pages, NEW p \in Frames, m.next + 3 <= NumFrames,
           Unreferenced(m, p), m.level[p] = 0
    PROVE  LET n == map_page(m, v, p) IN
           /\ MemInv(n)
           /\ \A f \in Frames : m.level[f] # -1 => n.level[f] = m.level[f]
           /\ \A f \in Frames : m.level[f] = -1 => n.level[f] # 0
           /\ Walk(n, v) = p
           /\ \A w \in Pages : w # v => Walk(n, w) = Walk(m, w)
<1> DEFINE k == EnsureTables(m, v)
           n == map_page(m, v, p)
<1>1. Grown(m, k) /\ W3(k, v) \in Frames /\ FourthTable(k, v) = W3(k, v)
    BY TablesGrow
<1>2. n = setEntry(k, W3(k, v), get_vpn_0(v), p)
    BY <1>1 DEF map_page
<1> HIDE DEF k, n
<1>3. MemInv(k) /\ Unreferenced(k, p) /\ k.level[p] = 0
    BY <1>1 DEF Grown
<1>4. MemInv(n) /\ Walk(n, v) = p /\ \A w \in Pages : w # v => Walk(n, w) = Walk(k, w)
    BY <1>1, <1>2, <1>3, LinkPageWalk
<1>5. n.level = k.level
    <2>1. k \in Mem /\ p \in Entries /\ get_vpn_0(v) \in Index
        BY <1>3, Constants, VpnIndex DEF MemInv
    <2> QED BY <1>1, <1>2, <2>1, SetEntryFields
<1> QED BY <1>1, <1>4, <1>5 DEF Grown, n
-----------------------------------------------------------------------------
(* The inductive invariant: the shape of the tables once paging_init has   *)
(* run, empty frames before, and a null translation for every page that    *)
(* map_page was not called for.                                            *)
NothingYet ==
    /\ next_frame = 0
    /\ \A f \in Frames : level[f] = -1 /\ \A i \in Index : table[f][i] = Invalid
    /\ mapped = {}

PInv ==
    /\ PagingTypeOK
    /\ ~paging_on => NothingYet
    /\ paging_on => MemInv(Memory)
    /\ UnmappedIsNull

\* The memory has its type, and its fields are the variables.
LEMMA MemoryFields ==
    ASSUME PagingTypeOK
    PROVE  /\ Memory \in Mem
           /\ Memory.next = next_frame /\ Memory.table = table /\ Memory.level = level
BY DEF PagingTypeOK, Memory, Mem

\* The translation is the walk of the memory.
LEMMA TranslationIsWalk ==
    /\ Translation \in [Pages -> {Translation[v] : v \in Pages}]
    /\ \A v \in Pages : Translation[v] = Walk(Memory, v)
BY DEF Translation, Walk

(* A walk over empty frames ends at the root.                              *)
LEMMA EmptyWalk ==
    ASSUME NEW m, NEW v \in Pages, \A i \in Index : m.table[Root][i] = Invalid
    PROVE  Walk(m, v) = Invalid
<1>1. get_vpn_3(v) \in Index /\ Invalid \notin Frames
    BY VpnIndex, Constants
<1>2. W1(m, v) = Invalid
    BY <1>1 DEF W1, Follow
<1>3. W2(m, v) = Invalid
    BY <1>1, <1>2 DEF W2, Follow
<1>4. W3(m, v) = Invalid
    BY <1>1, <1>3 DEF W3, Follow
<1> QED BY <1>1, <1>4, WalkSplit DEF Follow

\* The initial state satisfies the invariant.
LEMMA InitPInv ==
    ASSUME StaleFrames = {}, PagingInit
    PROVE  PInv
<1>1. PagingTypeOK
    <2>1. Invalid \in Entries /\ 0 \in 0 .. NumFrames
        BY Constants
    <2>2. table = [f \in Frames |-> [i \in Index |-> Invalid]]
        BY DEF PagingInit
    <2>3. table \in [Frames -> [Index -> Entries]]
        BY <2>1, <2>2
    <2>4. level \in [Frames -> -1 .. 4]
        BY DEF PagingInit
    <2> QED BY <2>1, <2>3, <2>4 DEF PagingInit, PagingTypeOK
<1>2. NothingYet
    BY DEF PagingInit, NothingYet
<1>3. UnmappedIsNull
    <2> SUFFICES ASSUME NEW v \in Pages
                 PROVE  Translation[v] = Invalid
        BY DEF UnmappedIsNull
    <2>1. \A i \in Index : Memory.table[Root][i] = Invalid
        BY <1>1, <1>2, Constants, MemoryFields DEF NothingYet
    <2>2. Walk(Memory, v) = Invalid
        BY <2>1, EmptyWalk
    <2> QED BY <2>2, TranslationIsWalk
<1> QED BY <1>1, <1>2, <1>3 DEF PInv, PagingInit

\* What paging_init leaves behind.
LEMMA PagingInitFields ==
    ASSUME PagingTypeOK, NothingYet, paging_init
    PROVE  /\ Memory' \in Mem
           /\ next_frame' = 2
           /\ \A f \in Frames :
                level'[f] = IF f = Root THEN 4 ELSE IF f = 1 THEN 3 ELSE -1
           /\ \A f \in Frames, i \in Index :
                table'[f][i] = IF f = Root THEN IF i = KERNEL_HALF THEN 1 ELSE Invalid
                               ELSE IF f = 1 /\ i < DirectGigas THEN DirectMap
                               ELSE Invalid
<1> DEFINE a == TakeFrame(Memory, 4)
           m == TakeFrame(a, 3)
           direct == [i \in Index |-> IF i < DirectGigas THEN DirectMap ELSE m.table[1][i]]
           row == [m.table[Root] EXCEPT ![KERNEL_HALF] = 1]
           tab == [[m.table EXCEPT ![Root] = row] EXCEPT ![1] = direct]
<1>1. /\ Memory \in Mem /\ Memory.next = 0 /\ Memory.table = table /\ Memory.level = level
      /\ NumFrames \in Nat /\ NumFrames >= 2 /\ Root = 0
    BY MemoryFields, Constants DEF NothingYet, Root
<1>2. /\ a \in Mem /\ a.next = 1 /\ a.table = table
      /\ \A f \in Frames : a.level[f] = IF f = Root THEN 4 ELSE level[f]
    BY <1>1, TakeFrameFields
<1> HIDE DEF a
<1>3. /\ m \in Mem /\ m.next = 2 /\ m.table = table
      /\ \A f \in Frames : m.level[f] = IF f = 1 THEN 3 ELSE a.level[f]
    BY <1>1, <1>2, TakeFrameFields
<1> HIDE DEF m
<1>4. m.table \in [Frames -> [Index -> Entries]] /\ m.level \in [Frames -> -1 .. 4]
      /\ m.next \in 0 .. NumFrames
    BY <1>3 DEF Mem
<1>5. direct \in [Index -> Entries]
      /\ \A i \in Index : direct[i] = IF i < DirectGigas THEN DirectMap ELSE table[1][i]
    BY <1>3, <1>4, Constants
<1>6. row \in [Index -> Entries]
      /\ \A i \in Index : row[i] = IF i = KERNEL_HALF THEN 1 ELSE table[Root][i]
    BY <1>3, <1>4, Constants
<1> HIDE DEF direct, row
<1>7. tab \in [Frames -> [Index -> Entries]]
      /\ \A f \in Frames :
            tab[f] = IF f = 1 THEN direct ELSE IF f = Root THEN row ELSE table[f]
    BY <1>3, <1>4, <1>5, <1>6, Constants
<1>8. table' = tab /\ next_frame' = m.next /\ level' = m.level
    <2>1. SetMemory([m EXCEPT !.table[Root][KERNEL_HALF] = 1, !.table[1] = direct])
        BY DEF paging_init, m, a, direct
    <2>2. m = [next |-> m.next, table |-> m.table, level |-> m.level]
        BY <1>3 DEF Mem
    <2> QED BY <2>1, <2>2 DEF SetMemory, tab, row
<1> HIDE DEF tab
<1>9. Memory' = [next |-> m.next, table |-> tab, level |-> m.level]
    BY <1>8 DEF Memory
<1>10. Memory' \in Mem
    BY <1>4, <1>7, <1>9 DEF Mem
<1>11. ASSUME NEW f \in Frames
       PROVE  level'[f] = IF f = Root THEN 4 ELSE IF f = 1 THEN 3 ELSE -1
    BY <1>1, <1>2, <1>3, <1>8 DEF NothingYet
<1>12. ASSUME NEW f \in Frames, NEW i \in Index
       PROVE  table'[f][i] = IF f = Root THEN IF i = KERNEL_HALF THEN 1 ELSE Invalid
                             ELSE IF f = 1 /\ i < DirectGigas THEN DirectMap
                             ELSE Invalid
    BY <1>1, <1>5, <1>6, <1>7, <1>8 DEF NothingYet
<1> QED BY <1>3, <1>8, <1>10, <1>11, <1>12

\* paging_init establishes the invariant of the page tables.
LEMMA PagingInitPInv ==
    ASSUME PInv, paging_init
    PROVE  PInv'
<1>1. PagingTypeOK /\ NothingYet /\ paging_on' = TRUE /\ mapped' = {}
    BY DEF PInv, paging_init, NothingYet
<1>2. /\ Memory' \in Mem /\ next_frame' = 2
      /\ \A f \in Frames :
            level'[f] = IF f = Root THEN 4 ELSE IF f = 1 THEN 3 ELSE -1
      /\ \A f \in Frames, i \in Index :
            table'[f][i] = IF f = Root THEN IF i = KERNEL_HALF THEN 1 ELSE Invalid
                           ELSE IF f = 1 /\ i < DirectGigas THEN DirectMap
                           ELSE Invalid
    BY <1>1, PagingInitFields
<1> DEFINE m == Memory'
<1>3. m.next = next_frame' /\ m.table = table' /\ m.level = level'
    BY DEF Memory
<1>4. PagingTypeOK'
    BY <1>1, <1>2, <1>3 DEF Mem, PagingTypeOK
<1> HIDE DEF m
<1>5. Root = 0 /\ Frames \subseteq Nat /\ 1 \in Frames /\ Root \in Frames
      /\ Invalid \notin Frames /\ DirectMap \notin Frames /\ Invalid # DirectMap
      /\ KERNEL_HALF \in Index
    BY Constants DEF Root
<1>6. LevelsMatchAllocator(m)
    <2> SUFFICES ASSUME NEW f \in Frames
                 PROVE  m.level[f] = -1 <=> f >= m.next
        BY DEF LevelsMatchAllocator
    <2>1. m.level[f] = (IF f = 0 THEN 4 ELSE IF f = 1 THEN 3 ELSE -1) /\ m.next = 2
        BY <1>2, <1>3, <1>5
    <2> QED BY <1>5, <2>1
<1>7. OnlyTablesHaveEntries(m)
    BY <1>2, <1>3, <1>5 DEF OnlyTablesHaveEntries
<1>8. ChildrenOneBelow(m)
    <2> SUFFICES ASSUME NEW f \in Frames, NEW i \in Index, m.table[f][i] \in Frames
                 PROVE  m.level[m.table[f][i]] = m.level[f] - 1
        BY DEF ChildrenOneBelow
    <2>1. f = Root /\ m.table[f][i] = 1
        BY <1>2, <1>3, <1>5
    <2> QED BY <1>2, <1>3, <1>5, <2>1
<1>9. OneParent(m)
    BY <1>2, <1>3, <1>5 DEF OneParent
<1>10. DirectMapOnlyThere(m)
    BY <1>2, <1>3, <1>5 DEF DirectMapOnlyThere
<1>11. RootOnTop(m)
    BY <1>2, <1>3, <1>5 DEF RootOnTop
<1>12. m \in Mem
    BY <1>2 DEF m
<1>13. MemInv(m)
    BY <1>6, <1>7, <1>8, <1>9, <1>10, <1>11, <1>12 DEF MemInv
<1>14. ASSUME NEW v \in Pages
       PROVE  Walk(m, v) = Invalid
    <2>1. get_vpn_2(v) \in Index /\ get_vpn_3(v) \in Index
          /\ ~(get_vpn_3(v) = KERNEL_HALF /\ get_vpn_2(v) < DirectGigas)
        BY VpnIndex DEF Pages, InDirectMap
    <2>2. W1(m, v) = IF get_vpn_3(v) = KERNEL_HALF THEN 1 ELSE Invalid
        BY <1>2, <1>3, <1>5, <2>1 DEF W1, Follow
    <2>3. W2(m, v) = Invalid
        BY <1>2, <1>3, <1>5, <2>1, <2>2 DEF W2, Follow
    <2>4. W3(m, v) = Invalid
        BY <1>5, <2>3 DEF W3, Follow
    <2> QED BY <1>5, <2>4, WalkSplit DEF Follow
<1>15. UnmappedIsNull'
    BY <1>14 DEF UnmappedIsNull, Translation, Walk, m
<1> QED BY <1>1, <1>4, <1>13, <1>15 DEF PInv, m

(* What one call of map_page does: the page is translated to the new       *)
(* frame, every other page as before.                                      *)
LEMMA MapNewPageStep ==
    ASSUME PInv, NEW v \in Pages, MapNewPage(v)
    PROVE  /\ MemInv(Memory')
           /\ next_frame \in Frames /\ level[next_frame] = -1 /\ level'[next_frame] = 0
           /\ \A f \in Frames : level[f] # -1 => level'[f] = level[f]
           /\ \A f \in Frames \ {next_frame} : level[f] = -1 => level'[f] # 0
           /\ \A w \in Pages :
                Translation'[w] = IF w = v THEN next_frame ELSE Translation[w]
<1> DEFINE k == TakeFrame(Memory, 0)
           n == map_page(k, v, next_frame)
<1>1. PagingTypeOK /\ MemInv(Memory) /\ next_frame \in Nat /\ NumFrames \in Nat
      /\ next_frame + 4 <= NumFrames
    BY Constants DEF PInv, MapNewPage, FramesLeft, PagingTypeOK
<1>2. Memory.next = next_frame /\ Memory.level = level
    BY <1>1, MemoryFields
<1>3. /\ MemInv(k) /\ k.table = Memory.table /\ k.next = next_frame + 1
      /\ next_frame \in Frames /\ k.level[next_frame] = 0 /\ level[next_frame] = -1
      /\ \A f \in Frames : f # next_frame => k.level[f] = level[f]
      /\ Unreferenced(k, next_frame)
    BY <1>1, <1>2, TakeInv
<1>4. SetMemory(n)
    BY DEF MapNewPage
<1> HIDE DEF k
<1>5. /\ MemInv(n)
      /\ \A f \in Frames : k.level[f] # -1 => n.level[f] = k.level[f]
      /\ \A f \in Frames : k.level[f] = -1 => n.level[f] # 0
      /\ Walk(n, v) = next_frame
      /\ \A w \in Pages : w # v => Walk(n, w) = Walk(k, w)
    BY <1>1, <1>3, MapPage
<1> HIDE DEF n
<1>6. Memory' = n /\ level' = n.level
    <2>1. n = [next |-> n.next, table |-> n.table, level |-> n.level]
        BY <1>5 DEF MemInv, Mem
    <2> QED BY <1>4, <2>1 DEF SetMemory, Memory
<1>7. \A w \in Pages : Walk(k, w) = Walk(Memory, w)
    BY <1>3 DEF Walk, get_physical_address_of_virtual_address, Follow
<1>8. \A w \in Pages : Translation'[w] = Walk(n, w)
    BY <1>6 DEF Translation, Walk
<1>9. \A w \in Pages : Translation'[w] = IF w = v THEN next_frame ELSE Translation[w]
    BY <1>5, <1>7, <1>8, TranslationIsWalk
<1> QED BY <1>3, <1>5, <1>6, <1>9

\* Every step keeps the invariant.
LEMMA NextPInv ==
    ASSUME PInv, [PagingNext]_pagingVars
    PROVE  PInv'
<1>1. CASE paging_init
    BY <1>1, PagingInitPInv
<1>2. ASSUME NEW v \in Pages, MapNewPage(v)
      PROVE  PInv'
    <2>1. MemInv(Memory') /\ \A w \in Pages :
              Translation'[w] = IF w = v THEN next_frame ELSE Translation[w]
        BY <1>2, MapNewPageStep
    <2>2. paging_on' = TRUE /\ mapped' = mapped \cup {v} /\ mapped \subseteq Pages
        BY <1>2 DEF MapNewPage, PInv, PagingTypeOK
    <2>3. Memory'.next = next_frame' /\ Memory'.table = table' /\ Memory'.level = level'
        BY DEF Memory
    <2>4. PagingTypeOK'
        BY <2>1, <2>2, <2>3 DEF PagingTypeOK, MemInv, Mem
    <2>5. UnmappedIsNull'
        BY <2>1, <2>2 DEF PInv, UnmappedIsNull
    <2> QED BY <2>1, <2>2, <2>4, <2>5 DEF PInv
<1>3. CASE UNCHANGED pagingVars
    BY <1>3 DEF pagingVars, PInv, PagingTypeOK, NothingYet, MemInv, Memory,
                UnmappedIsNull, Translation
<1> QED BY <1>1, <1>2, <1>3 DEF PagingNext
-----------------------------------------------------------------------------
\* The invariant implies the properties.
LEMMA PInvImplies ==
    ASSUME PInv
    PROVE  TablesFormTree /\ PagesApart
<1>1. PagingTypeOK /\ Memory.table = table /\ Memory.level = level
    BY MemoryFields DEF PInv
<1>2. CASE ~paging_on
    <2>1. \A v \in Pages : Translation[v] = Invalid
        BY <1>2 DEF PInv, NothingYet, UnmappedIsNull
    <2>2. PagesApart
        BY <2>1 DEF PagesApart
    <2>3. \A f \in Frames : ~(level[f] > 0)
        BY <1>2 DEF PInv, NothingYet
    <2> QED BY <2>2, <2>3 DEF TablesFormTree
<1>3. CASE paging_on
    <2>1. MemInv(Memory)
        BY <1>3 DEF PInv
    <2>2. TablesFormTree
        BY <1>1, <2>1 DEF TablesFormTree, MemInv, ChildrenOneBelow, OneParent
    <2>3. ASSUME NEW v \in Pages, Translation[v] # Invalid
          PROVE  /\ Translation[v] \in Frames /\ level[Translation[v]] = 0
                 /\ \A w \in Pages \ {v} : Translation[w] # Translation[v]
        <3>1. Translation[v] = Walk(Memory, v)
            BY TranslationIsWalk
        <3>2. Walk(Memory, v) \in Frames /\ level[Walk(Memory, v)] = 0
            BY <1>1, <2>1, <2>3, <3>1, WalkLevels
        <3>3. ASSUME NEW w \in Pages, Translation[w] = Translation[v]
              PROVE  w = v
            BY <2>1, <3>1, <3>2, <3>3, TranslationIsWalk, WalkInjective
        <3> QED BY <3>1, <3>2, <3>3
    <2> QED BY <2>2, <2>3 DEF PagesApart
<1> QED BY <1>2, <1>3

(* The shape of the page tables holds in every reachable state, if frames  *)
(* hold zeros: the invariant of paging_init and map_page.                  *)
THEOREM PagingInvariance ==
    ASSUME StaleFrames = {}
    PROVE  PagingSpec => []PInv
<1>1. PagingInit => PInv
    BY InitPInv
<1>2. PInv /\ [PagingNext]_pagingVars => PInv'
    BY NextPInv
<1> QED BY <1>1, <1>2, PTL DEF PagingSpec

(* paging.cpp writes only frame numbers, gigabyte leaves and nothing else  *)
(* into page tables.                                                       *)
THEOREM PagingTypeCorrect ==
    ASSUME StaleFrames = {}
    PROVE  PagingSpec => []PagingTypeOK
<1>1. PInv => PagingTypeOK
    BY DEF PInv
<1> QED BY <1>1, PagingInvariance, PTL

(* map_page keeps the tables a tree whose levels match.                    *)
THEOREM FormTree ==
    ASSUME StaleFrames = {}
    PROVE  PagingSpec => []TablesFormTree
<1>1. PInv => TablesFormTree
    BY PInvImplies
<1> QED BY <1>1, PagingInvariance, PTL

(* No two pages share a frame, and none reaches a page table.              *)
THEOREM PagesStayApart ==
    ASSUME StaleFrames = {}
    PROVE  PagingSpec => []PagesApart
<1>1. PInv => PagesApart
    BY PInvImplies
<1> QED BY <1>1, PagingInvariance, PTL

(* A page that map_page was not called for is translated to a null pointer *)
(* by get_physical_address_of_virtual_address.                             *)
THEOREM UnmappedStaysNull ==
    ASSUME StaleFrames = {}
    PROVE  PagingSpec => []UnmappedIsNull
<1>1. PInv => UnmappedIsNull
    BY DEF PInv
<1> QED BY <1>1, PagingInvariance, PTL

(* The page tables implement the abstract address space: every call of     *)
(* map_page changes one translation, to a frame nobody had.                *)
THEOREM PagingImplements ==
    ASSUME StaleFrames = {}
    PROVE  PagingSpec => ImplementsAddressSpace
<1> DEFINE own == {f \in Frames : level[f] = 0}
           tabs == {f \in Frames : level[f] > 0}
<1>1. ASSUME PagingInit
      PROVE  Space!Init
    <2>1. PInv
        BY <1>1, InitPInv
    <2>2. \A v \in Pages : Translation[v] = Invalid
        BY <1>1, <2>1 DEF PInv, UnmappedIsNull, PagingInit
    <2>3. Translation = [v \in Pages |-> Invalid]
        BY <2>2 DEF Translation
    <2>4. own = {} /\ tabs = {}
        BY <1>1 DEF PagingInit
    <2> QED BY <2>3, <2>4 DEF Space!Init
<1>2. ASSUME PInv, PInv', [PagingNext]_pagingVars
      PROVE  [Space!Next]_(Space!vars)
    <2>1. CASE paging_init
        <3>1. NothingYet /\ PagingTypeOK /\ mapped' = {}
            BY <1>2, <2>1 DEF PInv, paging_init, NothingYet
        <3>2. \A v \in Pages : Translation[v] = Invalid /\ Translation'[v] = Invalid
            BY <1>2, <3>1 DEF PInv, UnmappedIsNull, NothingYet
        <3>3. Translation' = Translation
            BY <3>2 DEF Translation
        <3>4. own = {} /\ tabs = {}
            BY <3>1 DEF NothingYet
        <3>5. own' = {}
            BY <2>1, <3>1, PagingInitFields
        <3> QED BY <3>3, <3>4, <3>5 DEF Space!Next, Space!Reserve, Space!AddTables
    <2>2. ASSUME NEW v \in Pages, MapNewPage(v)
          PROVE  Space!Next
        <3>1. /\ next_frame \in Frames /\ level[next_frame] = -1 /\ level'[next_frame] = 0
              /\ \A f \in Frames : level[f] # -1 => level'[f] = level[f]
              /\ \A f \in Frames \ {next_frame} : level[f] = -1 => level'[f] # 0
              /\ \A w \in Pages :
                   Translation'[w] = IF w = v THEN next_frame ELSE Translation[w]
            BY <1>2, <2>2, MapNewPageStep
        <3>2. level \in [Frames -> -1 .. 4]
            BY <1>2 DEF PInv, PagingTypeOK
        <3>3. next_frame \notin own \cup tabs
            BY <3>1
        <3>4. own' = own \cup {next_frame}
            BY <3>1, <3>2
        <3>5. tabs \subseteq tabs' /\ tabs' \cap own' = {}
            BY <3>1, <3>2
        <3>6. Translation' = [Translation EXCEPT ![v] = next_frame]
            BY <3>1 DEF Translation
        <3>7. PICK f \in Frames : f = next_frame
            BY <3>1
        <3>8. Space!Map(v, f)
            BY <3>3, <3>4, <3>5, <3>6, <3>7 DEF Space!Map, Space!AddTables
        <3> QED BY <3>8 DEF Space!Next
    <2>3. CASE UNCHANGED pagingVars
        BY <2>3 DEF pagingVars, Space!vars, Translation, Memory
    <2> QED BY <1>2, <2>1, <2>2, <2>3 DEF PagingNext
<1> QED BY <1>1, <1>2, PagingInvariance, PTL DEF PagingSpec, ImplementsAddressSpace, Space!Spec

-----------------------------------------------------------------------------
(* Cached translations, on top of the invariant of the page tables.        *)

\* The two properties are inductive together with the invariant of the tables.
TInv == PInv /\ TlbTypeOK /\ MappedOnceIsCurrent /\ CachedApart

\* A step of the cache's specification is one of the page tables, or none.
LEMMA TlbStepIsPagingStep ==
    ASSUME [TlbNext]_tlbVars
    PROVE  [PagingNext]_pagingVars
BY DEF TlbNext, tlbVars, Switch, Map, Fill, Evict, PagingNext

\* The cache starts empty.
LEMMA InitTInv ==
    ASSUME StaleFrames = {}, TlbInit
    PROVE  TInv
<1>1. PInv
    BY InitPInv DEF TlbInit
<1> QED BY <1>1 DEF TlbInit, PagingInit, TInv, TlbTypeOK, MappedOnceIsCurrent, CachedApart

\* The fence of switch_to_new_page_table empties the cache.
LEMMA SwitchTInv ==
    ASSUME TInv, PInv', Switch
    PROVE  TInv'
<1>1. tlb' = [v \in Cacheable |-> None] /\ remapped' = remapped /\ mapped' = mapped
    BY DEF Switch, switch_to_new_page_table, paging_init
<1>2. TlbTypeOK'
    BY <1>1 DEF TInv, TlbTypeOK
<1>3. MappedOnceIsCurrent' /\ CachedApart'
    BY <1>1 DEF MappedOnceIsCurrent, CachedApart
<1> QED BY <1>2, <1>3 DEF TInv

\* map_page takes a frame nobody has cached, and changes one translation.
LEMMA MapTInv ==
    ASSUME TInv, PInv', NEW u \in Pages, Map(u)
    PROVE  TInv'
<1>1. /\ next_frame \in Frames /\ level[next_frame] = -1 /\ level'[next_frame] = 0
      /\ \A f \in Frames : level[f] # -1 => level'[f] = level[f]
      /\ \A w \in Pages : Translation'[w] = IF w = u THEN next_frame ELSE Translation[w]
    BY MapNewPageStep DEF TInv, Map
<1>2. /\ tlb' = tlb /\ remapped' = remapped \cup (mapped \cap {u})
      /\ mapped' = mapped \cup {u} /\ paging_on /\ paging_on' = paging_on
    BY DEF Map, MapNewPage
<1>3. Cacheable \subseteq Pages
    BY TlbAssumption
<1>4. TlbTypeOK'
    BY <1>2 DEF TInv, TlbTypeOK
<1>5. ASSUME NEW v \in Cacheable \ remapped'
      PROVE  tlb'[v] \in {None, Invalid, Translation'[v]}
    <2>1. v \in Pages /\ tlb[v] \in {None, Invalid, Translation[v]}
        BY <1>2, <1>3, <1>5 DEF TInv, MappedOnceIsCurrent
    <2>2. CASE v = u
        <3>1. v \notin mapped
            BY <1>2, <1>5, <2>2
        <3>2. Translation[v] = Invalid
            BY <2>1, <3>1 DEF TInv, PInv, UnmappedIsNull
        <3> QED BY <1>2, <2>1, <3>2
    <2>3. CASE v # u
        BY <1>1, <1>2, <2>1, <2>3
    <2> QED BY <2>2, <2>3
<1>6. ASSUME NEW v \in Cacheable, tlb'[v] \notin {None, Invalid}
      PROVE  /\ tlb'[v] \in Frames /\ level'[tlb'[v]] = 0
             /\ \A w \in Pages \ {v} : Translation'[w] # tlb'[v]
             /\ \A w \in Cacheable \ {v} : tlb'[w] # tlb'[v]
    <2>1. /\ tlb[v] \in Frames /\ level[tlb[v]] = 0
          /\ \A w \in Pages \ {v} : Translation[w] # tlb[v]
          /\ \A w \in Cacheable \ {v} : tlb[w] # tlb[v]
        BY <1>2, <1>6 DEF TInv, CachedApart
    <2>2. tlb[v] # next_frame /\ level'[tlb[v]] = 0
        BY <1>1, <2>1
    <2> QED BY <1>1, <1>2, <2>1, <2>2
<1>7. MappedOnceIsCurrent'
    BY <1>5 DEF MappedOnceIsCurrent
<1>8. CachedApart'
    BY <1>6 DEF CachedApart
<1> QED BY <1>4, <1>7, <1>8 DEF TInv

\* What is cached is what the walk gives, which leads nowhere another page does.
LEMMA FillTInv ==
    ASSUME TInv, PInv', NEW u \in Cacheable, Fill(u)
    PROVE  TInv'
<1>1. PICK e \in Walked(u) : tlb' = [tlb EXCEPT ![u] = e]
    BY DEF Fill
<1>2. /\ UNCHANGED <<paging_on, mapped, level, remapped>>
      /\ Translation' = Translation
    BY DEF Fill, pagingVars, Translation, Memory
<1>3. u \in Pages /\ Cacheable \subseteq Pages
    BY TlbAssumption
<1>4. paging_on => e = Translation[u]
    BY <1>1, <1>3 DEF Walked, Translation
<1>5. PagesApart
    BY PInvImplies DEF TInv
<1>6. e \in Entries
    <2>1. CASE paging_on
        BY <1>3, <1>4, <1>5, <2>1, Constants DEF PagesApart
    <2>2. CASE ~paging_on
        BY <1>1, <2>2 DEF Walked
    <2> QED BY <2>1, <2>2
<1>7. TlbTypeOK'
    BY <1>1, <1>2, <1>6 DEF TInv, TlbTypeOK
<1>8. tlb'[u] = e /\ \A w \in Cacheable \ {u} : tlb'[w] = tlb[w]
    BY <1>1 DEF TInv, TlbTypeOK
<1>9. MappedOnceIsCurrent'
    BY <1>2, <1>4, <1>8 DEF TInv, MappedOnceIsCurrent
<1>10. ASSUME paging_on, NEW v \in Cacheable, tlb'[v] \notin {None, Invalid}
       PROVE  /\ tlb'[v] \in Frames /\ level[tlb'[v]] = 0
              /\ \A w \in Pages \ {v} : Translation[w] # tlb'[v]
              /\ \A w \in Cacheable \ {v} : tlb'[w] # tlb'[v]
    <2>1. \A w \in Cacheable : tlb[w] \notin {None, Invalid} =>
              /\ tlb[w] \in Frames /\ level[tlb[w]] = 0
              /\ \A x \in Pages \ {w} : Translation[x] # tlb[w]
              /\ \A x \in Cacheable \ {w} : tlb[x] # tlb[w]
        BY <1>10 DEF TInv, CachedApart
    <2>2. e = Translation[u]
        BY <1>4, <1>10
    <2>3. CASE v = u
        <3>1. /\ e \in Frames /\ level[e] = 0
              /\ \A w \in Pages \ {u} : Translation[w] # e
            BY <1>3, <1>5, <1>8, <1>10, <2>2, <2>3 DEF PagesApart
        <3>2. \A w \in Cacheable \ {u} : tlb[w] # e
            BY <1>3, <1>8, <1>10, <2>1, <2>2, <2>3
        <3> QED BY <1>8, <2>3, <3>1, <3>2
    <2>4. CASE v # u
        BY <1>3, <1>8, <1>10, <2>1, <2>2, <2>4
    <2> QED BY <2>3, <2>4
<1>11. CachedApart'
    BY <1>2, <1>10 DEF CachedApart
<1> QED BY <1>7, <1>9, <1>11 DEF TInv

\* Forgetting a translation harms nothing.
LEMMA EvictTInv ==
    ASSUME TInv, PInv', NEW u \in Cacheable, Evict(u)
    PROVE  TInv'
<1>1. /\ UNCHANGED <<paging_on, mapped, level, remapped>>
      /\ Translation' = Translation /\ tlb' = [tlb EXCEPT ![u] = None]
    BY DEF Evict, pagingVars, Translation, Memory
<1>2. tlb'[u] = None /\ \A w \in Cacheable \ {u} : tlb'[w] = tlb[w]
    BY <1>1 DEF TInv, TlbTypeOK
<1>3. TlbTypeOK'
    BY <1>1 DEF TInv, TlbTypeOK
<1>4. MappedOnceIsCurrent'
    BY <1>1, <1>2 DEF TInv, MappedOnceIsCurrent
<1>5. CachedApart'
    BY <1>1, <1>2 DEF TInv, CachedApart
<1> QED BY <1>3, <1>4, <1>5 DEF TInv
-----------------------------------------------------------------------------
(* The invariant of page tables and cached translations: whenever the hart *)
(* walks, and whatever it forgets, while map_page goes on without a fence. *)
THEOREM TlbInvariance ==
    ASSUME StaleFrames = {}
    PROVE  TlbSpec => []TInv
<1>1. TlbInit => TInv
    BY InitTInv
<1>2. TInv /\ [TlbNext]_tlbVars => TInv'
    <2> SUFFICES ASSUME TInv, [TlbNext]_tlbVars PROVE TInv'
        OBVIOUS
    <2>1. PInv'
        BY TlbStepIsPagingStep, NextPInv DEF TInv
    <2>2. CASE Switch
        BY <2>1, <2>2, SwitchTInv
    <2>3. ASSUME NEW v \in Pages, Map(v) PROVE TInv'
        BY <2>1, <2>3, MapTInv
    <2>4. ASSUME NEW v \in Cacheable, Fill(v) PROVE TInv'
        BY <2>1, <2>4, FillTInv
    <2>5. ASSUME NEW v \in Cacheable, Evict(v) PROVE TInv'
        BY <2>1, <2>5, EvictTInv
    <2>6. CASE UNCHANGED tlbVars
        BY <2>1, <2>6 DEF tlbVars, pagingVars, TInv, TlbTypeOK, MappedOnceIsCurrent,
                          CachedApart, Translation, Memory
    <2> QED BY <2>2, <2>3, <2>4, <2>5, <2>6 DEF TlbNext
<1> QED BY <1>1, <1>2, PTL DEF TlbSpec

(* A page that map_page was called for once is never reached through       *)
(* another frame than its own, though map_page has no sfence.vma.          *)
THEOREM OnceMappedStaysCurrent ==
    ASSUME StaleFrames = {}
    PROVE  TlbSpec => []MappedOnceIsCurrent
<1>1. TInv => MappedOnceIsCurrent
    BY DEF TInv
<1> QED BY <1>1, TlbInvariance, PTL

(* An outdated translation leads to no other page and to no page table,    *)
(* because map_page is only given frames that were never used.             *)
THEOREM CachedStaysApart ==
    ASSUME StaleFrames = {}
    PROVE  TlbSpec => []CachedApart
<1>1. TInv => CachedApart
    BY DEF TInv
<1> QED BY <1>1, TlbInvariance, PTL
=============================================================================
