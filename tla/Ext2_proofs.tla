---------------------------- MODULE Ext2_proofs -----------------------------
(***************************************************************************)
(* The path walk, for every image, every path and every number of groups:  *)
(* the scan stays inside the path, and a path without empty names is       *)
(* answered with the inode it names.                                       *)
(***************************************************************************)
EXTENDS Ext2, SequenceTheorems, WellFoundedInduction, TLAPS

(* Every set of natural numbers that is not empty has a least element.     *)
(* This is what the facts about Follow below are proved from, by a least   *)
(* counterexample.                                                         *)
LEMMA NatMin ==
    ASSUME NEW T, T \subseteq Nat, T # {}
    PROVE  \E x \in T : \A y \in T : x <= y
<1> DEFINE R == OpToRel(<, Nat)
<1>1. IsWellFoundedOn(R, Nat)
    BY NatLessThanWellFounded, Zenon
<1>2. \A x, y \in Nat : x < y => <<x, y>> \in R
    BY DEF OpToRel
<1> HIDE DEF R
<1>3. PICK x \in T : \A y \in T : ~(<<y, x>> \in R)
    BY <1>1, WFMin
<1>4. ASSUME NEW y \in T
      PROVE  x <= y
    <2>1. x \in Nat /\ y \in Nat
        OBVIOUS
    <2>2. ~(<<y, x>> \in R)
        BY <1>3
    <2>3. ~(y < x)
        BY <1>2, <2>1, <2>2, Zenon
    <2> QED BY <2>1, <2>3
<1> QED BY <1>4

-----------------------------------------------------------------------------
(* The reference.                                                          *)
Start == [at |-> RootInode, name |-> <<>>]

\* f is the walk over the first n characters of p.
IsWalk(f, p, n) ==
    f = [i \in 0 .. n |-> IF i = 0 THEN Start ELSE FollowChar(f[i - 1], p[i])]

\* A walk over n - 1 characters goes on for one more.
LEMMA WalkExtends ==
    ASSUME NEW p, NEW n \in Nat \ {0}, NEW f, IsWalk(f, p, n - 1)
    PROVE  \E g : IsWalk(g, p, n)
<1> DEFINE g == [i \in 0 .. n |-> IF i = n THEN FollowChar(f[n - 1], p[n]) ELSE f[i]]
           h == [i \in 0 .. n |-> IF i = 0 THEN Start ELSE FollowChar(g[i - 1], p[i])]
<1>1. ASSUME NEW i \in 0 .. n
      PROVE  g[i] = h[i]
    <2>1. CASE i = n
        <3>1. g[n - 1] = f[n - 1]
            OBVIOUS
        <3> QED BY <2>1, <3>1
    <2>2. CASE i # n
        <3>1. i \in 0 .. n - 1 /\ g[i] = f[i]
            BY <2>2
        <3>2. f[i] = IF i = 0 THEN Start ELSE FollowChar(f[i - 1], p[i])
            BY <3>1 DEF IsWalk
        <3>3. i # 0 => g[i - 1] = f[i - 1]
            BY <2>2
        <3> QED BY <3>1, <3>2, <3>3
    <2> QED BY <2>1, <2>2
<1>2. g = h
    BY <1>1
<1> QED BY <1>2 DEF IsWalk

\* There is a walk over every number of characters.
LEMMA WalkExists ==
    ASSUME NEW p, NEW n \in Nat
    PROVE  \E f : IsWalk(f, p, n)
<1> DEFINE T == {k \in Nat : ~\E f : IsWalk(f, p, k)}
<1>1. SUFFICES ASSUME T # {}
               PROVE  FALSE
    OBVIOUS
<1>2. PICK x \in T : \A y \in T : x <= y
    BY <1>1, NatMin
<1>3. x # 0
    <2>1. IsWalk([i \in 0 .. 0 |-> Start], p, 0)
        BY DEF IsWalk
    <2> QED BY <2>1
<1>4. x - 1 \in Nat /\ x - 1 \notin T
    BY <1>2, <1>3
<1>5. PICK f : IsWalk(f, p, x - 1)
    BY <1>4
<1>6. \E g : IsWalk(g, p, x)
    BY <1>3, <1>5, WalkExtends
<1> QED BY <1>6

(* What Follow computes, character by character.                           *)
LEMMA FollowUnfold ==
    ASSUME NEW p, Len(p) \in Nat
    PROVE  /\ Follow(p)[0] = Start
           /\ \A i \in 1 .. Len(p) : Follow(p)[i] = FollowChar(Follow(p)[i - 1], p[i])
<1>1. Follow(p) = CHOOSE f : IsWalk(f, p, Len(p))
    BY DEF Follow, IsWalk, Start
<1>2. \E f : IsWalk(f, p, Len(p))
    BY WalkExists
<1>3. IsWalk(Follow(p), p, Len(p))
    BY <1>1, <1>2
<1> QED BY <1>3 DEF IsWalk

\* The path of a walk with the slash that ends its last name.
Ended(p) == Append(p, SLASH)

\* The characters of a path with the slash that ends it.
LEMMA EndedFields ==
    ASSUME NEW p \in Seq(Chars \cup {SLASH})
    PROVE  /\ Len(Ended(p)) = Len(p) + 1 /\ Len(p) \in Nat
           /\ \A i \in 1 .. Len(p) : Ended(p)[i] = p[i]
           /\ Ended(p)[Len(p) + 1] = SLASH
BY DEF Ended

(* The walk over a path: where it starts and how it goes on.               *)
LEMMA PathUnfold ==
    ASSUME NEW p \in Seq(Chars \cup {SLASH})
    PROVE  LET w == Follow(Ended(p)) IN
           /\ w[0] = Start
           /\ \A i \in 0 .. Len(p) - 1 : w[i + 1] = FollowChar(w[i], p[i + 1])
           /\ w[Len(p) + 1] = FollowChar(w[Len(p)], SLASH)
           /\ Resolve(p) = w[Len(p) + 1].at
<1> DEFINE q == Ended(p)
           w == Follow(q)
<1>1. /\ Len(q) = Len(p) + 1 /\ Len(p) \in Nat
      /\ \A i \in 1 .. Len(p) : q[i] = p[i]
      /\ q[Len(p) + 1] = SLASH
    BY EndedFields
<1>2. Resolve(p) = w[Len(p) + 1].at
    BY DEF Resolve, Ended
<1> HIDE DEF q
<1>3. w[0] = Start /\ \A i \in 1 .. Len(q) : w[i] = FollowChar(w[i - 1], q[i])
    BY <1>1, FollowUnfold
<1> HIDE DEF w
<1>4. ASSUME NEW i \in 0 .. Len(p) - 1
      PROVE  w[i + 1] = FollowChar(w[i], p[i + 1])
    <2>1. i + 1 \in 1 .. Len(q) /\ (i + 1) - 1 = i /\ q[i + 1] = p[i + 1]
        BY <1>1
    <2> QED BY <1>3, <2>1
<1>5. w[Len(p) + 1] = FollowChar(w[Len(p)], SLASH)
    <2>1. Len(p) + 1 \in 1 .. Len(q) /\ (Len(p) + 1) - 1 = Len(p)
        BY <1>1
    <2> QED BY <1>1, <1>3, <2>1
<1> QED BY <1>2, <1>3, <1>4, <1>5 DEF w, q

\* Where nothing was found, nothing is found later.
LEMMA NotFoundStep ==
    ASSUME NEW w, NEW c, w.at = NotFound
    PROVE  FollowChar(w, c).at = NotFound
BY DEF FollowChar

\* A walk that has lost its way does not find it again.
LEMMA NotFoundStays ==
    ASSUME NEW p \in Seq(Chars \cup {SLASH}), NEW j \in 0 .. Len(p) + 1,
           Follow(Ended(p))[j].at = NotFound
    PROVE  Resolve(p) = NotFound
<1> DEFINE w == Follow(Ended(p))
           T == {k \in Nat : k >= j /\ k <= Len(p) + 1 /\ w[k].at # NotFound}
<1>1. Len(p) \in Nat
    OBVIOUS
<1>2. /\ \A i \in 0 .. Len(p) - 1 : w[i + 1] = FollowChar(w[i], p[i + 1])
      /\ w[Len(p) + 1] = FollowChar(w[Len(p)], SLASH)
      /\ Resolve(p) = w[Len(p) + 1].at
      /\ w[j].at = NotFound
    BY PathUnfold
<1> HIDE DEF w
<1>3. SUFFICES ASSUME T # {}
               PROVE  FALSE
    BY <1>1, <1>2
<1>4. PICK x \in T : \A y \in T : x <= y
    BY <1>3, NatMin
<1>5. x # j /\ x - 1 \in Nat /\ x - 1 >= j /\ x - 1 \notin T
    BY <1>1, <1>2, <1>4
<1>6. w[x - 1].at = NotFound
    BY <1>1, <1>5
<1>7. w[x].at = NotFound
    <2>1. CASE x = Len(p) + 1
        BY <1>1, <1>2, <1>6, <2>1, NotFoundStep
    <2>2. CASE x # Len(p) + 1
        <3>1. x - 1 \in 0 .. Len(p) - 1 /\ (x - 1) + 1 = x
            BY <1>1, <1>5, <2>2
        <3>2. w[x] = FollowChar(w[x - 1], p[x])
            BY <1>2, <3>1
        <3> QED BY <1>6, <3>2, NotFoundStep
    <2> QED BY <2>1, <2>2
<1> QED BY <1>7

-----------------------------------------------------------------------------
(* The lookup of one name.                                                 *)

\* The group descriptors after the mount.
Mounted == group_descs = [g \in 0 .. amount_groups - 1 |-> InodeTable(g)]

\* Division with a remainder.
LEMMA DivMod ==
    ASSUME NEW x \in Nat, NEW n \in Nat \ {0}
    PROVE  /\ x \div n \in Nat /\ x % n \in 0 .. n - 1
           /\ x = (x \div n) * n + (x % n)
BY SMT

\* A number below k * n has a quotient below k.
LEMMA QuotientLess ==
    ASSUME NEW x \in Nat, NEW n \in Nat \ {0}, NEW k \in Nat, x < k * n
    PROVE  x \div n < k
BY SMT

\* What Ext2Assumption says of the image, in the form the proofs use.
LEMMA ImageFacts ==
    /\ INODES_PER_GROUP \in Nat \ {0, 1}
    /\ Inodes \subseteq Nat \ {0}
    /\ RootInode \in Inodes /\ NotFound \notin Inodes /\ Wild \notin Inodes
    /\ NotFound # Wild /\ MAX_ENTRIES \in Nat /\ GROUP_SLOTS \in Nat
    /\ SLASH \notin Chars /\ Paths \subseteq Seq(Chars \cup {SLASH})
<1> USE Ext2Assumption
<1>1. 0 \notin Inodes /\ -1 \notin Inodes
    OBVIOUS
<1> QED BY <1>1 DEF NotFound, Wild

\* What the superblock may say.
LEMMA SuperBlockFacts ==
    ASSUME super_block \in SuperBlocks
    PROVE  /\ super_block.block_size \in Nat \ {0} /\ super_block.s_inode_size \in Nat \ {0}
           /\ amount_groups \in Nat
<1>1. /\ super_block \in [s_blocks_count : Nat, block_size : Nat \ {0}, s_inode_size : Nat \ {0}]
      /\ BLOCKS_PER_GROUP \in Nat \ {0}
    BY Ext2Assumption
<1>2. super_block.s_blocks_count \in Nat
    BY <1>1
<1>3. amount_groups \in Nat
    BY <1>1, <1>2, DivMod DEF amount_groups
<1> QED BY <1>1, <1>3

\* A layout of the disk that the driver knows.
Layout == DescriptorsRead /\ super_block.s_inode_size = SIZEOF_INODE

\* The group descriptors are in block 1 if the superblock is in block 0.
LEMMA LargeBlocks ==
    ASSUME super_block \in SuperBlocks, super_block.block_size > SUPERBLOCK_AT
    PROVE  DescriptorsRead
<1> DEFINE b == super_block.block_size
<1>1. b \in Nat \ {0} /\ 1024 < b
    BY SuperBlockFacts DEF SUPERBLOCK_AT
<1> HIDE DEF b
<1>2. 1024 < 1 * b
    BY <1>1
<1>3. 1024 \div b < 1 /\ 1024 \div b \in Nat
    BY <1>1, <1>2, QuotientLess, DivMod
<1>4. 1024 \div b + 1 = 1
    BY <1>3
<1> QED BY <1>4 DEF b, DescriptorsRead, SUPERBLOCK_AT

\* The inode lies in a group that the driver has no descriptor of.
Beyond(n) == (n - 1) \div INODES_PER_GROUP >= amount_groups

(* Every inode of the image is read from the table of its group, if the    *)
(* group has a descriptor.                                                 *)
LEMMA InodeAt ==
    ASSUME super_block \in SuperBlocks, Mounted, Layout, NEW n \in Inodes
    PROVE  inode_at(n) = IF Beyond(n) THEN Wild ELSE n
<1> DEFINE N == INODES_PER_GROUP
           g == (n - 1) \div N
           r == (n - 1) % N
<1>1. N \in Nat \ {0} /\ amount_groups \in Nat /\ n \in Nat \ {0} /\ n - 1 \in Nat
    BY ImageFacts, SuperBlockFacts
<1>2. g \in Nat /\ r \in 0 .. N - 1 /\ n - 1 = g * N + r
    BY <1>1, DivMod
<1>3. inode_at(n) = IF g \in DOMAIN group_descs THEN group_descs[g][r] ELSE Wild
    BY DEF inode_at
<1>4. Beyond(n) <=> g >= amount_groups
    BY DEF Beyond
<1> HIDE DEF g, r
<1>5. g \in DOMAIN group_descs <=> g < amount_groups
    BY <1>1, <1>2 DEF Mounted
<1>6. ASSUME g < amount_groups
      PROVE  group_descs[g][r] = n
    <2>1. group_descs[g] = InodeTable(g)
        BY <1>1, <1>2, <1>6 DEF Mounted
    <2>2. InodeTable(g)[r] = (g * N) + r + 1
        BY <1>2 DEF InodeTable, Layout
    <2>3. g * N \in Nat
        BY <1>1, <1>2
    <2>4. n = (g * N) + r + 1
        BY <1>1, <1>2, <2>3
    <2> QED BY <2>1, <2>2, <2>4, Zenon
<1> QED BY <1>1, <1>2, <1>3, <1>4, <1>5, <1>6

\* The directory has an entry of this name that the driver does not look at.
Missed(dir, name) ==
    \E k \in DOMAIN Image[dir].entries :
        /\ Image[dir].entries[k].name = name
        /\ k > MAX_ENTRIES \/ k > Image[dir].first

(* Looking up a name that is not empty gives what the directory holds      *)
(* under it, unless the entry is not looked at or its inode has no group   *)
(* descriptor.                                                             *)
LEMMA InDirIsChild ==
    ASSUME super_block \in SuperBlocks, Mounted, Layout, NEW dir \in Inodes,
           NEW name, name # <<>>
    PROVE  \/ /\ get_inode_in_dir(dir, name) = NotFound
              /\ Child(dir, name) = NotFound \/ Missed(dir, name)
           \/ /\ Child(dir, name) \in Inodes
              /\ get_inode_in_dir(dir, name) =
                    IF Beyond(Child(dir, name)) THEN Wild ELSE Child(dir, name)
<1> DEFINE entries == Image[dir].entries
           first == Image[dir].first
           looked == {i \in DOMAIN entries : i <= MAX_ENTRIES /\ i <= first}
           hits == {i \in looked : matches(entries[i], name)}
           named == {e \in Range(entries) : e.name = name}
<1>1. /\ entries \in Seq([name : Seq(Chars) \ {<<>>}, inode : Inodes])
      /\ \A i, j \in DOMAIN entries : entries[i].name = entries[j].name => i = j
      /\ first \in 0 .. Len(entries)
    BY Ext2Assumption
<1>2. get_inode_in_dir(dir, name) =
        IF ~Image[dir].dir THEN NotFound
        ELSE IF hits # {} THEN inode_at(entries[CHOOSE i \in hits : \A j \in hits : i <= j].inode)
        ELSE NotFound
    BY DEF get_inode_in_dir
<1>3. Child(dir, name) =
        IF Image[dir].dir /\ named # {} THEN (CHOOSE e \in named : TRUE).inode ELSE NotFound
    BY DEF Child
<1>4. DOMAIN entries = 1 .. Len(entries) /\ Len(entries) \in Nat
    BY <1>1
<1>5. \A i \in DOMAIN entries : entries[i].inode \in Inodes
    <2> DEFINE E == [name : Seq(Chars) \ {<<>>}, inode : Inodes]
    <2>1. entries \in Seq(E)
        BY <1>1
    <2>2. \A e \in E : e.inode \in Inodes
        OBVIOUS
    <2> HIDE DEF E, entries
    <2> QED BY <1>4, <2>1, <2>2
<1>6. MAX_ENTRIES \in Nat
    BY ImageFacts
<1>7. (\E k \in DOMAIN entries : entries[k].name = name /\ k \notin looked) => Missed(dir, name)
    BY <1>1, <1>4, <1>6 DEF Missed
<1>8. \A e \in named : \E k \in DOMAIN entries : e = entries[k] /\ entries[k].name = name
    BY DEF Range
<1>9. \A k \in DOMAIN entries : entries[k].name = name => entries[k] \in named
    BY DEF Range
<1>10. CASE hits = {}
    <2>1. get_inode_in_dir(dir, name) = NotFound
        BY <1>2, <1>10
    <2>2. CASE named = {}
        BY <1>3, <2>1, <2>2
    <2>3. CASE named # {}
        <3>1. PICK k \in DOMAIN entries : entries[k].name = name
            BY <1>8, <2>3
        <3>2. k \notin looked
            BY <1>10, <3>1 DEF matches
        <3> QED BY <1>7, <2>1, <3>1, <3>2
    <2> QED BY <2>2, <2>3
<1>11. CASE hits # {}
    <2>1. PICK i \in hits : TRUE
        BY <1>11
    <2>2. i \in DOMAIN entries /\ i \in looked /\ entries[i].name = name /\ i \in Nat
        BY <1>4 DEF matches
    <2>3. hits = {i}
        BY <1>1, <2>2 DEF matches
    <2>4. named = {entries[i]}
        <3>1. entries[i] \in named
            BY <1>9, <2>2
        <3>2. ASSUME NEW e \in named
              PROVE  e = entries[i]
            <4>1. PICK j \in DOMAIN entries : e = entries[j] /\ entries[j].name = name
                BY <1>8
            <4>2. j = i
                BY <1>1, <2>2, <4>1
            <4> QED BY <4>1, <4>2
        <3> QED BY <3>1, <3>2
    <2>5. i <= i
        BY <2>2
    <2> HIDE DEF hits, named, entries
    <2>6. (CHOOSE k \in hits : \A j \in hits : k <= j) = i
        BY <2>3, <2>5
    <2>7. (CHOOSE e \in named : TRUE) = entries[i]
        BY <2>4
    <2>8. /\ entries[i].inode \in Inodes
          /\ inode_at(entries[i].inode) = IF Beyond(entries[i].inode) THEN Wild ELSE entries[i].inode
        BY <1>5, <2>2, InodeAt
    <2>9. hits # {} /\ named # {}
        BY <2>3, <2>4
    <2> QED BY <1>2, <1>3, <2>6, <2>7, <2>8, <2>9
<1> QED BY <1>10, <1>11

-----------------------------------------------------------------------------
(* The name that is being collected: the last s of the first c characters. *)
NamePart(p, c, s) == SubSeq(p, c - s + 1, c)

\* The part of the path that a name comes from.
LEMMA NameType ==
    ASSUME NEW p \in Seq(Chars \cup {SLASH}), NEW c \in 0 .. Len(p), NEW s \in 0 .. c
    PROVE  /\ NamePart(p, c, s) \in Seq(Chars \cup {SLASH})
           /\ Len(NamePart(p, c, s)) = s
           /\ \A i \in 1 .. s : NamePart(p, c, s)[i] = p[c - s + i]
<1> DEFINE m == c - s + 1
<1>1. m \in Int /\ c \in Int /\ s \in Nat /\ Len(p) \in Nat
    OBVIOUS
<1>2. \A i \in m .. c : p[i] \in Chars \cup {SLASH}
    <2>1. \A i \in 1 .. Len(p) : p[i] \in Chars \cup {SLASH}
        OBVIOUS
    <2>2. \A i \in m .. c : i \in 1 .. Len(p)
        OBVIOUS
    <2> QED BY <2>1, <2>2
<1>3. /\ SubSeq(p, m, c) \in Seq(Chars \cup {SLASH})
      /\ Len(SubSeq(p, m, c)) = IF m <= c THEN c - m + 1 ELSE 0
      /\ \A i \in 1 .. c - m + 1 : SubSeq(p, m, c)[i] = p[m + i - 1]
    BY <1>1, <1>2, SubSeqProperties
<1>4. c - m + 1 = s /\ (IF m <= c THEN c - m + 1 ELSE 0) = s
    OBVIOUS
<1>5. \A i \in 1 .. s : m + i - 1 = c - s + i
    OBVIOUS
<1> QED BY <1>3, <1>4, <1>5 DEF NamePart

\* A name of no characters is the empty one.
LEMMA NameEmpty ==
    ASSUME NEW p \in Seq(Chars \cup {SLASH}), NEW c \in 0 .. Len(p), NEW s \in 0 .. c
    PROVE  NamePart(p, c, s) = <<>> <=> s = 0
BY NameType

\* One more character makes the name longer by that character.
LEMMA NameGrows ==
    ASSUME NEW p \in Seq(Chars \cup {SLASH}), NEW c \in 0 .. Len(p) - 1, NEW s \in 0 .. c
    PROVE  Append(NamePart(p, c, s), p[c + 1]) = NamePart(p, c + 1, s + 1)
<1> DEFINE A == Chars \cup {SLASH}
           a == NamePart(p, c, s)
           b == NamePart(p, c + 1, s + 1)
           x == p[c + 1]
<1>0. c \in 0 .. Len(p) /\ c + 1 \in 0 .. Len(p) /\ s + 1 \in 0 .. c + 1 /\ x \in A
    OBVIOUS
<1>1. a \in Seq(A) /\ Len(a) = s /\ \A i \in 1 .. s : a[i] = p[c - s + i]
    BY <1>0, NameType
<1>2. /\ b \in Seq(A) /\ Len(b) = s + 1
      /\ \A i \in 1 .. s + 1 : b[i] = p[(c + 1) - (s + 1) + i]
    BY <1>0, NameType
<1> HIDE DEF a, b
<1>3. /\ Append(a, x) \in Seq(A) /\ Len(Append(a, x)) = s + 1
      /\ \A i \in 1 .. s : Append(a, x)[i] = a[i]
      /\ Append(a, x)[s + 1] = x
    BY <1>0, <1>1, AppendProperties
<1>4. ASSUME NEW i \in 1 .. s + 1
      PROVE  Append(a, x)[i] = b[i]
    <2>1. b[i] = p[(c + 1) - (s + 1) + i]
        BY <1>2
    <2>2. CASE i = s + 1
        <3>1. (c + 1) - (s + 1) + i = c + 1
            BY <2>2
        <3> QED BY <1>3, <2>1, <2>2, <3>1
    <2>3. CASE i # s + 1
        <3>1. i \in 1 .. s /\ (c + 1) - (s + 1) + i = c - s + i
            BY <2>3
        <3> QED BY <1>1, <1>3, <2>1, <3>1
    <2> QED BY <2>2, <2>3
<1> HIDE DEF A, x
<1> QED BY <1>2, <1>3, <1>4, SeqEqual DEF a, b, x

-----------------------------------------------------------------------------
(* The invariant: the scan has read as much of the path as the reference   *)
(* walk, and stands at the same inode with the same name begun.            *)
Agrees ==
    Follow(Ended(path))[current] = [at |-> inode, name |-> NamePart(path, current, size)]

\* No name has begun only at the start of a path, or behind its first slash.
NameBegun == size = 0 => current = 0 \/ (current = 1 /\ path[1] = SLASH)

EInv ==
    /\ pc \in {"down", "idle", "scan", "found", "wild"}
    /\ super_block \in SuperBlocks
    /\ pc # "down" => Mounted
    /\ path \in Seq(Chars \cup {SLASH})
    /\ ScanInBounds
    /\ pc = "scan" => Layout /\ caller \in Callers /\ inode \in Inodes /\ NameBegun
    /\ (pc = "scan" /\ WellFormed(path)) => Agrees
    /\ LookupExact
    /\ WildHasACause

\* Before the mount nothing is being looked up.
LEMMA InitEInv ==
    ASSUME Init
    PROVE  EInv
BY DEF Init, EInv, ScanInBounds, LookupExact, WildHasACause

\* The mount reads the descriptors of all groups, or leaves the array.
LEMMA MountEInv ==
    ASSUME EInv, EXT2
    PROVE  EInv'
<1>1. /\ pc = "down" /\ pc' = IF amount_groups <= GROUP_SLOTS THEN "idle" ELSE "wild"
      /\ group_descs' = [g \in 0 .. amount_groups - 1 |-> InodeTable(g)]
      /\ UNCHANGED <<super_block, caller, path, current, size, inode, result>>
    BY DEF EXT2
<1>2. Mounted'
    BY <1>1 DEF Mounted, amount_groups, InodeTable, DescriptorsRead
<1>3. WildHasACause'
    <2>1. amount_groups' = amount_groups
        BY <1>1 DEF amount_groups
    <2>2. amount_groups \in Nat /\ GROUP_SLOTS \in Nat
        BY SuperBlockFacts, ImageFacts DEF EInv
    <2> QED BY <1>1, <2>1, <2>2 DEF WildHasACause
<1> QED BY <1>1, <1>2, <1>3 DEF EInv, ScanInBounds, LookupExact

(* The root inode is found in a layout that the driver knows, if there is  *)
(* a full group.                                                           *)
LEMMA RootRead ==
    ASSUME super_block \in SuperBlocks, Mounted
    PROVE  IF Layout /\ amount_groups # 0 THEN root_inode = RootInode ELSE root_inode = Wild
<1>1. amount_groups \in Nat /\ super_block.s_inode_size \in Nat
    BY SuperBlockFacts
<1>2. 1 \in 0 .. INODES_PER_GROUP - 1 /\ 0 * INODES_PER_GROUP = 0
    BY ImageFacts
<1>3. 0 \in DOMAIN group_descs <=> amount_groups # 0
    BY <1>1 DEF Mounted
<1>4. amount_groups # 0 => group_descs[0] = InodeTable(0)
    BY <1>1 DEF Mounted
<1>5. InodeTable(0)[1] = IF Layout THEN 2 ELSE Wild
    BY <1>1, <1>2 DEF InodeTable, Layout, SIZEOF_INODE
<1> QED BY <1>3, <1>4, <1>5 DEF root_inode, RootInode

\* A call starts at the root, with no name begun.
LEMMA CallEInv ==
    ASSUME EInv, NEW c \in Callers, NEW p \in Paths, Call(c, p)
    PROVE  EInv'
<1>1. /\ Mounted /\ group_descs' = group_descs /\ super_block' = super_block
      /\ super_block \in SuperBlocks
      /\ pc' = IF root_inode = Wild THEN "wild" ELSE "scan"
      /\ caller' = c /\ path' = p /\ current' = 0 /\ size' = 0
      /\ inode' = root_inode
    BY DEF EInv, Call
<1>2. /\ p \in Seq(Chars \cup {SLASH}) /\ RootInode \in Inodes /\ RootInode # Wild
      /\ GROUP_SLOTS \in Nat
    BY ImageFacts
<1>3. Mounted' /\ (Layout => Layout') /\ amount_groups' = amount_groups
    BY <1>1 DEF Mounted, Layout, DescriptorsRead, amount_groups, InodeTable
<1>4. ScanInBounds' /\ NameBegun' /\ LookupExact'
    BY <1>1, <1>2 DEF ScanInBounds, NameBegun, LookupExact
<1>5. CASE Layout /\ amount_groups # 0
    <2>1. inode' = RootInode /\ pc' = "scan"
        BY <1>1, <1>2, <1>5, RootRead
    <2>2. Agrees'
        <3>1. Follow(Ended(p))[0] = Start
            BY <1>2, PathUnfold
        <3>2. NamePart(p, 0, 0) = <<>>
            BY <1>2, NameEmpty
        <3> QED BY <1>1, <2>1, <3>1, <3>2 DEF Agrees, Start
    <2> QED BY <1>1, <1>2, <1>3, <1>4, <1>5, <2>1, <2>2 DEF EInv, WildHasACause
<1>6. CASE ~(Layout /\ amount_groups # 0)
    <2>1. pc' = "wild"
        BY <1>1, <1>6, RootRead
    <2>2. \/ super_block.block_size <= SUPERBLOCK_AT \/ super_block.s_inode_size # SIZEOF_INODE
          \/ amount_groups = 0
        <3>1. super_block.block_size \in Nat
            BY <1>1, SuperBlockFacts
        <3> QED BY <1>1, <1>6, <3>1, LargeBlocks DEF Layout, SUPERBLOCK_AT
    <2>3. WildHasACause'
        BY <1>1, <1>2, <1>3, <2>2 DEF WildHasACause
    <2> QED BY <1>1, <1>2, <1>3, <1>4, <2>1, <2>3 DEF EInv
<1> QED BY <1>5, <1>6

\* What depends on the disk and the descriptors only.
LEMMA DiskUnchanged ==
    ASSUME super_block' = super_block, group_descs' = group_descs
    PROVE  /\ amount_groups' = amount_groups
           /\ Mounted => Mounted'
           /\ Layout => Layout'
BY DEF Mounted, Layout, DescriptorsRead, amount_groups, InodeTable

\* The reference takes the next character.
LEMMA AgreesNext ==
    ASSUME EInv, pc = "scan", WellFormed(path), current < Len(path)
    PROVE  /\ current \in 0 .. Len(path) - 1 /\ size \in 0 .. current
           /\ Follow(Ended(path))[current + 1] =
                FollowChar([at |-> inode, name |-> NamePart(path, current, size)],
                           path[current + 1])
<1>1. /\ path \in Seq(Chars \cup {SLASH}) /\ current \in 0 .. Len(path) - 1
      /\ size \in 0 .. current
    BY DEF EInv, ScanInBounds
<1>2. Follow(Ended(path))[current + 1] =
        FollowChar(Follow(Ended(path))[current], path[current + 1])
    BY <1>1, PathUnfold
<1> QED BY <1>1, <1>2 DEF EInv, Agrees

\* A character of a name.
LEMMA ScanCharEInv ==
    ASSUME EInv, ScanChar
    PROVE  EInv'
<1>1. /\ pc = "scan" /\ current < Len(path) /\ path[current + 1] # SLASH
      /\ current' = current + 1 /\ size' = size + 1 /\ group_descs' = group_descs
      /\ pc' = pc /\ path' = path /\ inode' = inode
      /\ super_block' = super_block /\ caller' = caller
    BY DEF ScanChar
<1>2. /\ path \in Seq(Chars \cup {SLASH}) /\ current \in 0 .. Len(path) - 1
      /\ size \in 0 .. current /\ Mounted /\ inode \in Inodes
    BY <1>1 DEF EInv, ScanInBounds
<1>3. ASSUME WellFormed(path)
      PROVE  Agrees'
    <2> DEFINE n == NamePart(path, current, size)
               f == Follow(Ended(path))
    <2>1. f[current + 1] = FollowChar([at |-> inode, name |-> n], path[current + 1])
        BY <1>1, <1>3, AgreesNext
    <2>2. Append(n, path[current + 1]) = NamePart(path, current + 1, size + 1)
        BY <1>2, NameGrows
    <2> HIDE DEF n, f
    <2>3. f[current + 1] = [at |-> inode, name |-> Append(n, path[current + 1])]
        BY <1>1, <2>1 DEF FollowChar
    <2> QED BY <1>1, <2>2, <2>3 DEF Agrees, f
<1>4. ScanInBounds' /\ NameBegun'
    BY <1>1, <1>2 DEF ScanInBounds, NameBegun
<1>5. Mounted' /\ Layout'
    BY <1>1, <1>2, DiskUnchanged DEF EInv
<1> QED BY <1>1, <1>2, <1>3, <1>4, <1>5 DEF EInv, LookupExact, WildHasACause

\* The slash that a path starts with.
LEMMA ScanRootEInv ==
    ASSUME EInv, ScanRoot
    PROVE  EInv'
<1>1. /\ pc = "scan" /\ current = 0 /\ current < Len(path) /\ path[current + 1] = SLASH
      /\ current' = current + 1 /\ size' = size /\ group_descs' = group_descs
      /\ pc' = pc /\ path' = path /\ inode' = inode
      /\ super_block' = super_block /\ caller' = caller
    BY DEF ScanRoot
<1>2. /\ path \in Seq(Chars \cup {SLASH}) /\ 0 \in 0 .. Len(path) /\ 1 \in 0 .. Len(path)
      /\ size = 0 /\ Mounted /\ inode \in Inodes
    BY <1>1 DEF EInv, ScanInBounds
<1>3. ASSUME WellFormed(path)
      PROVE  Agrees'
    <2> DEFINE n == NamePart(path, current, size)
               f == Follow(Ended(path))
    <2>1. f[current + 1] = FollowChar([at |-> inode, name |-> n], path[current + 1])
        BY <1>1, <1>3, AgreesNext
    <2>2. n = <<>> /\ NamePart(path, 1, 0) = <<>>
        BY <1>1, <1>2, NameEmpty
    <2> HIDE DEF n, f
    <2>3. f[current + 1] = [at |-> inode, name |-> n]
        BY <1>1, <2>1, <2>2 DEF FollowChar
    <2>4. f[current'] = [at |-> inode', name |-> NamePart(path', current', size')]
        BY <1>1, <1>2, <2>2, <2>3
    <2> QED BY <1>1, <2>4 DEF Agrees, f
<1>4. ScanInBounds' /\ NameBegun'
    BY <1>1, <1>2 DEF ScanInBounds, NameBegun
<1>5. Mounted' /\ Layout'
    BY <1>1, <1>2, DiskUnchanged DEF EInv
<1> QED BY <1>1, <1>2, <1>3, <1>4, <1>5 DEF EInv, LookupExact, WildHasACause

(* The lookup of a name that is not empty leads where the reference goes,  *)
(* fails if there is nothing or the entry is not looked at, and goes wild  *)
(* only at an inode without a group descriptor.                            *)
LEMMA LookupIsChild ==
    ASSUME super_block \in SuperBlocks, Mounted, Layout, inode \in Inodes,
           NEW name, name # <<>>, NEW next, Lookup(name, next)
    PROVE  \/ /\ Child(inode, name) = NotFound \/ Missed(inode, name)
              /\ pc' = "found" /\ result' # 0
           \/ /\ Child(inode, name) \in Inodes
              /\ pc' = next /\ inode' = Child(inode, name) /\ result' = 0
           \/ /\ Child(inode, name) \in Inodes /\ Beyond(Child(inode, name))
              /\ pc' = "wild"
<1> DEFINE n == get_inode_in_dir(inode, name)
           c == Child(inode, name)
<1>1. \/ n = NotFound /\ (c = NotFound \/ Missed(inode, name))
      \/ c \in Inodes /\ n = IF Beyond(c) THEN Wild ELSE c
    BY InDirIsChild
<1>2. NotFound \notin Inodes /\ Wild \notin Inodes /\ NotFound # Wild
    BY ImageFacts
<1>3. /\ pc' = IF n = Wild THEN "wild" ELSE IF n = NotFound THEN "found" ELSE next
      /\ inode' = IF n \in {Wild, NotFound} THEN inode ELSE n
      /\ result' = IF n = NotFound THEN -1 ELSE 0
    BY DEF Lookup
<1> HIDE DEF n, c
<1>4. CASE n = NotFound
    BY <1>1, <1>2, <1>3, <1>4 DEF c
<1>5. CASE n # NotFound
    BY <1>1, <1>2, <1>3, <1>5 DEF c
<1> QED BY <1>4, <1>5

(* Whatever the name, the walk goes on from an inode of the image, or ends.*)
LEMMA LookupAnyName ==
    ASSUME super_block \in SuperBlocks, Mounted, Layout, inode \in Inodes,
           NEW name, NEW next, Lookup(name, next)
    PROVE  \/ pc' \in {"wild", "found"}
           \/ pc' = next /\ inode' \in Inodes
<1>1. CASE name # <<>>
    BY <1>1, LookupIsChild
<1>2. CASE name = <<>>
    <2> DEFINE entries == Image[inode].entries
               looked == {i \in DOMAIN entries : i <= MAX_ENTRIES /\ i <= Image[inode].first}
               hits == {i \in looked : matches(entries[i], name)}
    <2>1. hits = {}
        <3>1. entries \in Seq([name : Seq(Chars) \ {<<>>}, inode : Inodes])
            BY Ext2Assumption
        <3> HIDE DEF entries
        <3>2. \A i \in DOMAIN entries : entries[i].name # <<>>
            <4> DEFINE E == [name : Seq(Chars) \ {<<>>}, inode : Inodes]
            <4>1. entries \in Seq(E) /\ \A e \in E : e.name # <<>>
                BY <3>1
            <4> HIDE DEF E
            <4> QED BY <4>1
        <3> QED BY <1>2, <3>2 DEF matches
    <2>2. get_inode_in_dir(inode, name) \in {NotFound, Wild}
        BY <2>1 DEF get_inode_in_dir
    <2> QED BY <2>2 DEF Lookup
<1> QED BY <1>1, <1>2

\* The reference ends a name.
LEMMA FollowSlash ==
    ASSUME NEW at, at # NotFound, NEW name, name # <<>>
    PROVE  FollowChar([at |-> at, name |-> name], SLASH) =
             [at |-> Child(at, name), name |-> <<>>]
BY DEF FollowChar

\* A slash behind an ended name changes nothing.
LEMMA FollowSecondSlash ==
    ASSUME NEW at
    PROVE  FollowChar([at |-> at, name |-> <<>>], SLASH) = [at |-> at, name |-> <<>>]
BY DEF FollowChar

\* On a path without empty names, a name that ends is not empty.
LEMMA NameNotEmpty ==
    ASSUME EInv, pc = "scan", WellFormed(path),
           \/ current > 0 /\ current < Len(path) /\ path[current + 1] = SLASH
           \/ current = Len(path)
    PROVE  size # 0 /\ NamePart(path, current, size) # <<>>
<1>1. /\ path \in Seq(Chars \cup {SLASH}) /\ current \in 0 .. Len(path) /\ size \in 0 .. current
      /\ NameBegun
    BY DEF EInv, ScanInBounds
<1>2. size # 0
    <2>1. SUFFICES ASSUME size = 0
                   PROVE  FALSE
        OBVIOUS
    <2>2. current = 0 \/ (current = 1 /\ path[1] = SLASH)
        BY <1>1, <2>1 DEF NameBegun
    <2>3. CASE current = 0
        <3>1. Len(path) = 0
            BY <2>3
        <3>2. path = <<>>
            BY <1>1, <3>1
        <3> QED BY <3>2 DEF WellFormed
    <2>4. CASE current = 1 /\ path[1] = SLASH /\ current < Len(path)
        <3>1. path[1 + 1] = SLASH /\ 1 \in 1 .. Len(path) - 1
            BY <1>1, <2>4
        <3> QED BY <2>4, <3>1 DEF WellFormed
    <2>5. CASE current = 1 /\ path[1] = SLASH /\ current = Len(path)
        <3>1. path = <<SLASH>>
            <4> DEFINE A == Chars \cup {SLASH}
            <4>1. path \in Seq(A) /\ <<SLASH>> \in Seq(A) /\ Len(path) = 1 /\ Len(<<SLASH>>) = 1
                  /\ path[1] = <<SLASH>>[1]
                BY <1>1, <2>5
            <4> HIDE DEF A
            <4> QED BY <4>1, SeqEqual
        <3> QED BY <3>1 DEF WellFormed
    <2> QED BY <1>1, <2>2, <2>3, <2>4, <2>5
<1> QED BY <1>1, <1>2, NameEmpty

(* An entry that the driver misses, where the reference stands, is one     *)
(* that LookupExact's exception is about.                                  *)
LEMMA MissedOverlooked ==
    ASSUME NEW p, NEW i, NEW at, NEW name, at # NotFound,
           Follow(Ended(p))[i] = [at |-> at, name |-> name], Ended(p)[i + 1] = SLASH,
           Missed(at, name)
    PROVE  OverlookedAt(p, i)
<1> DEFINE w == Follow(Ended(p))[i]
<1>1. w.at = at /\ w.name = name
    OBVIOUS
<1>2. OverlookedAt(p, i) <=>
        /\ Ended(p)[i + 1] = SLASH /\ w.at # NotFound
        /\ \E k \in DOMAIN Image[w.at].entries :
              /\ Image[w.at].entries[k].name = w.name
              /\ k > MAX_ENTRIES \/ k > Image[w.at].first
    BY DEF OverlookedAt, Ended
<1> HIDE DEF w
<1> QED BY <1>1, <1>2 DEF Missed

(* A slash ends a name: the reference ends the same one, and on a path     *)
(* without empty names the character behind the slash begins the next.     *)
LEMMA ScanFolderEInv ==
    ASSUME EInv, ScanFolder
    PROVE  EInv'
<1> DEFINE last == current + 1 = Len(path)
           n == NamePart(path, current, size)
           f == Follow(Ended(path))
<1>1. /\ pc = "scan" /\ current > 0 /\ current < Len(path) /\ path[current + 1] = SLASH
      /\ Lookup(n, IF last THEN "found" ELSE "scan")
      /\ current' = IF last THEN current + 1 ELSE current + 2
      /\ size' = IF last THEN 0 ELSE 1
      /\ group_descs' = group_descs /\ path' = path
      /\ super_block' = super_block /\ caller' = caller
    BY DEF ScanFolder, NamePart
<1>2. /\ path \in Seq(Chars \cup {SLASH}) /\ current \in 0 .. Len(path) - 1
      /\ size \in 0 .. current /\ Mounted /\ inode \in Inodes /\ Len(path) \in Nat
      /\ super_block \in SuperBlocks /\ Layout /\ caller \in Callers
    BY <1>1 DEF EInv, ScanInBounds
<1>3. ScanInBounds'
    BY <1>1, <1>2 DEF ScanInBounds
<1>4. pc' \in {"wild", "found"} \/ (~last /\ pc' = "scan" /\ inode' \in Inodes)
    BY <1>1, <1>2, LookupAnyName
<1>5. pc' = "scan" => NameBegun'
    BY <1>1, <1>4 DEF NameBegun
<1>6. ASSUME WellFormed(path)
      PROVE  /\ LookupExact' /\ WildHasACause'
             /\ pc' = "scan" => Agrees'
    <2>1. n # <<>>
        BY <1>1, <1>6, NameNotEmpty
    <2>2. f[current + 1] = FollowChar([at |-> inode, name |-> n], SLASH)
        BY <1>1, <1>6, AgreesNext
    <2>3. /\ \A i \in 0 .. Len(path) - 1 : f[i + 1] = FollowChar(f[i], path[i + 1])
          /\ f[Len(path) + 1] = FollowChar(f[Len(path)], SLASH)
          /\ Resolve(path) = f[Len(path) + 1].at
        BY <1>2, PathUnfold
    <2>4. current + 1 \in 0 .. Len(path) + 1
        BY <1>2
    <2>5. f[current + 1].at = NotFound => Resolve(path) = NotFound
        BY <1>2, <2>4, NotFoundStays
    <2> HIDE DEF n, f
    <2>6. f[current + 1] = [at |-> Child(inode, n), name |-> <<>>]
        BY <1>2, <2>1, <2>2, FollowSlash, ImageFacts
    <2>7. CASE pc' = "found" /\ result' # 0 /\ (Child(inode, n) = NotFound \/ Missed(inode, n))
        <3>1. CASE Child(inode, n) = NotFound
            <4>1. Resolve(path) = NotFound
                BY <2>5, <2>6, <3>1
            <4> QED BY <1>1, <2>7, <4>1 DEF LookupExact, WildHasACause
        <3>2. CASE Missed(inode, n)
            <4>1. f[current] = [at |-> inode, name |-> n]
                BY <1>1, <1>6 DEF EInv, Agrees, f, n
            <4>2. Ended(path)[current + 1] = SLASH
                BY <1>1, <1>2, EndedFields
            <4>3. OverlookedAt(path, current)
                BY <1>2, <3>2, <4>1, <4>2, MissedOverlooked, ImageFacts DEF f
            <4>4. current \in 0 .. Len(path)
                BY <1>2
            <4> QED BY <1>1, <2>7, <4>3, <4>4 DEF LookupExact, WildHasACause
        <3> QED BY <2>7, <3>1, <3>2
    <2>8. CASE pc' = "wild" /\ Child(inode, n) \in Inodes /\ Beyond(Child(inode, n))
        <3>1. f[current + 1].at = Child(inode, n)
            BY <2>6
        <3>2. PICK j \in 0 .. Len(path) + 1 : j = current + 1
            BY <2>4
        <3>3. BeyondAt(path, j)'
            BY <1>1, <2>8, <3>1, <3>2, DiskUnchanged, ImageFacts DEF BeyondAt, Beyond, f, Ended
        <3>4. \E i \in 0 .. Len(path') + 1 : BeyondAt(path, i)'
            BY <1>1, <3>3
        <3> QED BY <2>8, <3>4 DEF LookupExact, WildHasACause
    <2>9. CASE Child(inode, n) \in Inodes /\ last
               /\ pc' = "found" /\ inode' = Child(inode, n) /\ result' = 0
        <3>1. f[Len(path) + 1] = [at |-> Child(inode, n), name |-> <<>>]
            BY <2>3, <2>6, <2>9, FollowSecondSlash
        <3>2. Resolve(path) = Child(inode, n)
            BY <2>3, <3>1
        <3> QED BY <1>1, <2>9, <3>2 DEF LookupExact, WildHasACause
    <2>10. CASE Child(inode, n) \in Inodes /\ ~last
               /\ pc' = "scan" /\ inode' = Child(inode, n) /\ result' = 0
        <3> DEFINE c == path[current + 2]
        <3>1. pc' = "scan" /\ inode' = Child(inode, n)
            BY <2>10
        <3>2. current + 1 \in 1 .. Len(path) - 1 /\ (current + 1) + 1 = current + 2
            BY <1>2, <2>10
        <3>3. c # SLASH
            BY <1>1, <1>6, <3>2 DEF WellFormed
        <3>4. f[current + 2] = FollowChar(f[current + 1], c)
            BY <1>2, <2>3, <3>2
        <3>5. Append(NamePart(path, current + 1, 0), c) = NamePart(path, current + 2, 1)
            <4>1. /\ current + 1 \in 0 .. Len(path) - 1 /\ 0 \in 0 .. current + 1
                  /\ path[(current + 1) + 1] = c /\ 0 + 1 = 1
                BY <1>2, <3>2
            <4> QED BY <1>2, <3>2, <4>1, NameGrows
        <3>6. NamePart(path, current + 1, 0) = <<>>
            BY <1>2, NameEmpty
        <3> HIDE DEF c
        <3>7. f[current + 2] = [at |-> Child(inode, n), name |-> Append(<<>>, c)]
            BY <2>6, <3>3, <3>4 DEF FollowChar
        <3>8. f[current'] = [at |-> inode', name |-> NamePart(path', current', size')]
            BY <1>1, <2>10, <3>1, <3>5, <3>6, <3>7
        <3> QED BY <1>1, <3>1, <3>8 DEF Agrees, LookupExact, WildHasACause, f
    <2>11. \/ /\ Child(inode, n) = NotFound \/ Missed(inode, n)
              /\ pc' = "found" /\ result' # 0
           \/ /\ Child(inode, n) \in Inodes /\ pc' = IF last THEN "found" ELSE "scan"
              /\ inode' = Child(inode, n) /\ result' = 0
           \/ /\ Child(inode, n) \in Inodes /\ Beyond(Child(inode, n))
              /\ pc' = "wild"
        BY <1>1, <1>2, <2>1, LookupIsChild
    <2> QED BY <2>7, <2>9, <2>10, <2>8, <2>11
<1>7. LookupExact' /\ WildHasACause'
    BY <1>1, <1>2, <1>6 DEF LookupExact, WildHasACause, Callers
<1>8. Mounted' /\ Layout'
    BY <1>1, <1>2, DiskUnchanged
<1> QED BY <1>1, <1>2, <1>3, <1>4, <1>5, <1>6, <1>7, <1>8 DEF EInv

(* The end of the path ends the last name, where the reference has the     *)
(* slash that is added to every path.                                      *)
LEMMA ScanFileEInv ==
    ASSUME EInv, ScanFile
    PROVE  EInv'
<1> DEFINE n == NamePart(path, current, size)
           f == Follow(Ended(path))
<1>1. /\ pc = "scan" /\ current = Len(path) /\ Lookup(n, "found")
      /\ UNCHANGED <<super_block, group_descs, caller, path, current, size>>
    BY DEF ScanFile, NamePart
<1>2. /\ path \in Seq(Chars \cup {SLASH}) /\ Mounted /\ inode \in Inodes /\ Len(path) \in Nat
      /\ super_block \in SuperBlocks /\ Layout /\ caller \in Callers
    BY <1>1 DEF EInv
<1>3. pc' \in {"wild", "found"}
    BY <1>1, <1>2, LookupAnyName
<1>4. ASSUME WellFormed(path)
      PROVE  LookupExact' /\ WildHasACause'
    <2>1. n # <<>>
        BY <1>1, <1>4, NameNotEmpty
    <2>2. /\ f[Len(path) + 1] = FollowChar(f[Len(path)], SLASH)
          /\ Resolve(path) = f[Len(path) + 1].at
        BY <1>2, PathUnfold
    <2>3. f[Len(path)] = [at |-> inode, name |-> n]
        BY <1>1, <1>4 DEF EInv, Agrees
    <2> HIDE DEF n, f
    <2>4. f[Len(path) + 1] = [at |-> Child(inode, n), name |-> <<>>]
        BY <1>2, <2>1, <2>2, <2>3, FollowSlash, ImageFacts
    <2>5. Resolve(path) = Child(inode, n)
        BY <2>2, <2>4
    <2>6. Missed(inode, n) => OverlookedAt(path, Len(path))
        <3>1. Ended(path)[Len(path) + 1] = SLASH
            BY <1>2, EndedFields
        <3> QED BY <1>2, <2>3, <3>1, MissedOverlooked, ImageFacts DEF f
    <2>7. Child(inode, n) \in Inodes /\ Beyond(Child(inode, n)) => BeyondAt(path, Len(path) + 1)'
        <3>1. f[Len(path) + 1].at = Child(inode, n)
            BY <2>4
        <3> QED BY <1>1, <3>1, DiskUnchanged, ImageFacts DEF BeyondAt, Beyond, f, Ended
    <2>8. \/ /\ Child(inode, n) = NotFound \/ Missed(inode, n)
             /\ pc' = "found" /\ result' # 0
          \/ /\ Child(inode, n) \in Inodes /\ pc' = "found"
             /\ inode' = Child(inode, n) /\ result' = 0
          \/ /\ Child(inode, n) \in Inodes /\ Beyond(Child(inode, n))
             /\ pc' = "wild"
        BY <1>1, <1>2, <2>1, LookupIsChild
    <2>9. Len(path) \in 0 .. Len(path) /\ Len(path) + 1 \in 0 .. Len(path) + 1
        BY <1>2
    <2>10. LookupExact'
        BY <1>1, <2>5, <2>6, <2>8, <2>9 DEF LookupExact
    <2>11. WildHasACause'
        BY <1>1, <2>7, <2>8, <2>9 DEF WildHasACause
    <2> QED BY <2>10, <2>11
<1>5. LookupExact' /\ WildHasACause'
    BY <1>1, <1>2, <1>4 DEF LookupExact, WildHasACause, Callers
<1>6. Mounted'
    BY <1>1, <1>2, DiskUnchanged
<1> QED BY <1>1, <1>2, <1>3, <1>5, <1>6 DEF EInv, ScanInBounds

\* The callers go on, and forget the path.
LEMMA ReturnEInv ==
    ASSUME EInv, Return
    PROVE  EInv'
<1>1. /\ pc' = "idle" /\ path' = <<>> /\ current' = 0 /\ size' = 0 /\ Mounted
      /\ group_descs' = group_descs /\ super_block' = super_block
      /\ super_block \in SuperBlocks
    BY DEF EInv, Return
<1>2. Mounted'
    BY <1>1, DiskUnchanged
<1> QED BY <1>1, <1>2 DEF EInv, ScanInBounds, LookupExact, WildHasACause

\* Every step of mount and lookup.
LEMMA NextEInv ==
    ASSUME EInv, [Next]_vars
    PROVE  EInv'
<1>1. CASE UNCHANGED vars
    <2>1. (Mounted => Mounted') /\ (Layout => Layout')
        BY <1>1, DiskUnchanged DEF vars
    <2>2. (NameBegun => NameBegun') /\ (Agrees => Agrees') /\ (ScanInBounds => ScanInBounds')
        BY <1>1 DEF vars, NameBegun, Agrees, ScanInBounds
    <2>3. (LookupExact => LookupExact') /\ (WildHasACause => WildHasACause')
        BY <1>1, DiskUnchanged DEF vars, LookupExact, WildHasACause, BeyondAt
    <2> QED BY <1>1, <2>1, <2>2, <2>3 DEF vars, EInv
<1> QED BY <1>1, MountEInv, CallEInv, ScanCharEInv, ScanRootEInv, ScanFolderEInv, ScanFileEInv,
           ReturnEInv DEF Next

-----------------------------------------------------------------------------
(* The scan and the reference walk agree at every character.               *)
THEOREM ScanAgrees == Spec => []EInv
<1>1. Init => EInv
    BY InitEInv
<1>2. EInv /\ [Next]_vars => EInv'
    BY NextEInv
<1> QED BY <1>1, <1>2, PTL DEF Spec

(* get_inode_from_dir never reads the path beyond its terminator, and no   *)
(* name starts before the path, although the index is moved by two behind  *)
(* a slash: for every path, also one with empty names.                     *)
THEOREM ScanStaysInBounds == Spec => []ScanInBounds
<1>1. EInv => ScanInBounds
    BY DEF EInv
<1> QED BY <1>1, ScanAgrees, PTL

(* get_inode_from_dir answers a path without empty names with the inode it *)
(* names if it succeeds; and if it fails, there is none or one of the      *)
(* names is an entry behind the tenth or behind the first block: for every *)
(* image, every length of path and every number of groups.                 *)
THEOREM LookupIsExact == Spec => []LookupExact
<1>1. EInv => LookupExact
    BY DEF EInv
<1> QED BY <1>1, ScanAgrees, PTL

(* The mount and get_inode_in_dir leave what was read from the disk only   *)
(* for one of WildHasACause's five reasons.  In particular a path without  *)
(* empty names through full groups of a disk with 1 to 8 of them never     *)
(* does.                                                                   *)
THEOREM WildNeedsACause == Spec => []WildHasACause
<1>1. EInv => WildHasACause
    BY DEF EInv
<1> QED BY <1>1, ScanAgrees, PTL
=============================================================================
