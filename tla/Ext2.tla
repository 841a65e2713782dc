-------------------------------- MODULE Ext2 --------------------------------
(***************************************************************************)
(* kernel/drivers/ext2.cpp and kernel/vfs.cpp: mounting an ext2 file       *)
(* system and finding the inode a path names.  The path is scanned         *)
(* character by character with an index and the length of the name being   *)
(* collected; every name that ends is looked up in the directory whose     *)
(* inode is in the caller's buffer, which the result then replaces.        *)
(* Everything runs on one hart to its end; one step is one turn of the     *)
(* scanning loop.                                                          *)
(***************************************************************************)
EXTENDS Integers, SequencesExt

CONSTANTS
    SLASH, Chars,        \* the characters of a path; names consist of Chars
    MAX_ENTRIES,         \* entries that get_inode_in_dir looks at (10)
    INODES_PER_GROUP,    \* s_inodes_per_group
    BLOCKS_PER_GROUP,    \* s_blocks_per_group
    GROUP_SLOTS,         \* length of the array group_descs (8)
    SuperBlocks,         \* what else the superblock may say
    Image,               \* inode number -> [dir, entries, first]: the disk
    Paths,               \* the paths that callers pass
    MaxOpen              \* bound: the last file descriptor

Inodes == DOMAIN Image
RootInode == 2
NotFound == 0
\* What is read through a group descriptor that was never read, from a place where
\* no inode begins, or for a number that no directory entry holds.  The model ends
\* there.
Wild == -1

SUPERBLOCK_AT == 1024     \* where the superblock lies on every disk
SIZEOF_INODE == 256       \* sizeof(EXT2Inode)

\* The image is one that mke2fs makes: entries name inodes, and a directory holds a
\* name once.  The first entries of a directory, `first' of them, are in its first
\* block.  Inodes may lie in any group, also in a last one that is not full.
ASSUME Ext2Assumption ==
    /\ MAX_ENTRIES \in Nat /\ MaxOpen \in Nat /\ GROUP_SLOTS \in Nat
    /\ INODES_PER_GROUP \in Nat \ {0, 1} /\ BLOCKS_PER_GROUP \in Nat \ {0}
    /\ SuperBlocks \subseteq
          [s_blocks_count : Nat, block_size : Nat \ {0}, s_inode_size : Nat \ {0}]
    /\ SLASH \notin Chars
    /\ Inodes \subseteq Nat \ {0} /\ RootInode \in Inodes
    /\ \A n \in Inodes :
          /\ Image[n].entries \in Seq([name : Seq(Chars) \ {<<>>}, inode : Inodes])
          /\ \A i, j \in DOMAIN Image[n].entries :
                Image[n].entries[i].name = Image[n].entries[j].name => i = j
          /\ Image[n].first \in 0 .. Len(Image[n].entries)
    /\ Paths \subseteq Seq(Chars \cup {SLASH})

VARIABLES
    super_block,       \* the superblock on the disk
    group_descs,       \* the inode tables the driver knows, by group
    pc,                \* "down", "idle", "scan", "found" or "wild"
    caller,            \* who asked
    path, current, size,   \* get_inode_from_dir's path, index and length of the name
    inode,             \* the inode in the caller's buffer
    result,            \* what get_inode_from_dir returns
    next_descriptor    \* of the VFS
vars == <<super_block, group_descs, pc, caller, path, current, size, inode, result,
          next_descriptor>>

Callers == {"get_file_size", "read_file", "open_file"}
-----------------------------------------------------------------------------
\* Truncated: a last group that is not full is left out.
amount_groups == super_block.s_blocks_count \div BLOCKS_PER_GROUP

\* The group descriptors lie in the block behind the superblock's own; the driver
\* reads them from block 1.
DescriptorsRead ==
    super_block.block_size * 1 =
    super_block.block_size * (SUPERBLOCK_AT \div super_block.block_size + 1)

\* What the driver reads as the inodes of group g.  The disk has the inodes from
\* g * INODES_PER_GROUP + 1 there, s_inode_size bytes apart.
InodeTable(g) ==
    [index \in 0 .. INODES_PER_GROUP - 1 |->
        IF DescriptorsRead /\ SIZEOF_INODE * index = super_block.s_inode_size * index
        THEN g * INODES_PER_GROUP + index + 1
        ELSE Wild]

\* The inode that is read for number n: from the table of its group.
inode_at(n) ==
    LET g == (n - 1) \div INODES_PER_GROUP IN
    IF g \in DOMAIN group_descs THEN group_descs[g][(n - 1) % INODES_PER_GROUP] ELSE Wild

matches(entry, name) == entry.name = name

\* The entries of the first block.  Behind the last one lies the header of the
\* chunk that read has allocated for itself after the block: a small size, whose
\* bytes read as an inode number with rec_len and name_len 0.  The loop stays
\* there, and only the empty name matches.
get_inode_in_dir(dir, name) ==
    LET entries == Image[dir].entries
        looked == {i \in DOMAIN entries : i <= MAX_ENTRIES /\ i <= Image[dir].first}
        hits == {i \in looked : matches(entries[i], name)}
    IN  IF ~Image[dir].dir THEN NotFound
        ELSE IF hits # {} THEN inode_at(entries[CHOOSE i \in hits : \A j \in hits : i <= j].inode)
        ELSE IF name = <<>> /\ Image[dir].first < MAX_ENTRIES THEN Wild
        ELSE NotFound
-----------------------------------------------------------------------------
Init ==
    /\ super_block \in SuperBlocks
    /\ group_descs = <<>> /\ pc = "down" /\ caller = "none"
    /\ path = <<>> /\ current = 0 /\ size = 0
    /\ inode = NotFound /\ result = 0 /\ next_descriptor = 3

\* Mutant: the last group is forgotten.
EXT2_one_less ==
    /\ pc = "down"
    /\ group_descs' = [g \in 0 .. amount_groups - 2 |-> InodeTable(g)]
    /\ pc' = IF amount_groups <= GROUP_SLOTS THEN "idle" ELSE "wild"
    /\ UNCHANGED <<super_block, caller, path, current, size, inode, result, next_descriptor>>

\* The constructor: superblock and group descriptors.  More of them than the array
\* has slots are stored behind it, into the heap.
EXT2 ==
    /\ pc = "down"
    /\ group_descs' = [g \in 0 .. amount_groups - 1 |-> InodeTable(g)]
    /\ pc' = IF amount_groups <= GROUP_SLOTS THEN "idle" ELSE "wild"
    /\ UNCHANGED <<super_block, caller, path, current, size, inode, result, next_descriptor>>

\* get_root_inode: the second inode of group 0, whether there is one or not.
root_inode == IF 0 \in DOMAIN group_descs THEN group_descs[0][1] ELSE Wild

\* A caller reads the root inode into its buffer and starts the walk.
Call(c, p) ==
    /\ pc = "idle"
    /\ c = "open_file" => next_descriptor < MaxOpen
    /\ pc' = IF root_inode = Wild THEN "wild" ELSE "scan"
    /\ caller' = c /\ path' = p /\ current' = 0 /\ size' = 0
    /\ inode' = root_inode
    /\ UNCHANGED <<super_block, group_descs, result, next_descriptor>>

\* Looking up a name replaces the inode in the buffer, unless it is not there.
Lookup(name, next) ==
    LET n == get_inode_in_dir(inode, name) IN
    /\ pc' = IF n = Wild THEN "wild" ELSE IF n = NotFound THEN "found" ELSE next
    /\ inode' = IF n \in {Wild, NotFound} THEN inode ELSE n
    /\ result' = IF n = NotFound THEN -1 ELSE 0

ScanChar ==
    /\ pc = "scan" /\ current < Len(path) /\ path[current + 1] # SLASH
    /\ current' = current + 1 /\ size' = size + 1
    /\ UNCHANGED <<super_block, group_descs, pc, caller, path, inode, result, next_descriptor>>

\* Mutant: the loop continues without moving on.
ScanRoot_stuck ==
    /\ pc = "scan" /\ current = 0 /\ current < Len(path) /\ path[current + 1] = SLASH
    /\ UNCHANGED vars

\* The slash that a path starts with.
ScanRoot ==
    /\ pc = "scan" /\ current = 0 /\ current < Len(path) /\ path[current + 1] = SLASH
    /\ current' = current + 1
    /\ UNCHANGED <<super_block, group_descs, pc, caller, path, size, inode, result, next_descriptor>>

\* Mutant: a path that ends in a slash is not noticed.
ScanFolder_no_end ==
    /\ pc = "scan" /\ current > 0 /\ current < Len(path) /\ path[current + 1] = SLASH
    /\ Lookup(SubSeq(path, current - size + 1, current), "scan")
    /\ current' = current + 2
    /\ size' = 1
    /\ UNCHANGED <<super_block, group_descs, caller, path, next_descriptor>>

\* Mutant: the name keeps its length.
ScanFolder_keep_size ==
    /\ pc = "scan" /\ current > 0 /\ current < Len(path) /\ path[current + 1] = SLASH
    /\ LET last == current + 1 = Len(path) IN
       /\ Lookup(SubSeq(path, current - size + 1, current), IF last THEN "found" ELSE "scan")
       /\ current' = IF last THEN current + 1 ELSE current + 2
       /\ size' = IF last THEN 0 ELSE size + 1
    /\ UNCHANGED <<super_block, group_descs, caller, path, next_descriptor>>

\* A slash ends a name.  The character behind it is taken into the next name
\* without a look at it.
ScanFolder ==
    /\ pc = "scan" /\ current > 0 /\ current < Len(path) /\ path[current + 1] = SLASH
    /\ LET last == current + 1 = Len(path) IN
       /\ Lookup(SubSeq(path, current - size + 1, current), IF last THEN "found" ELSE "scan")
       /\ current' = IF last THEN current + 1 ELSE current + 2
       /\ size' = IF last THEN 0 ELSE 1
    /\ UNCHANGED <<super_block, group_descs, caller, path, next_descriptor>>

\* The end of the path ends the last name.
ScanFile ==
    /\ pc = "scan" /\ current = Len(path)
    /\ Lookup(SubSeq(path, current - size + 1, current), "found")
    /\ UNCHANGED <<super_block, group_descs, caller, path, current, size, next_descriptor>>

\* All three callers ignore result and go on with the inode in their buffer;
\* open_file counts a descriptor.  The locals are gone.
Return ==
    /\ pc = "found"
    /\ next_descriptor' = IF caller = "open_file" THEN next_descriptor + 1 ELSE next_descriptor
    /\ pc' = "idle"
    /\ caller' = "none" /\ path' = <<>> /\ current' = 0 /\ size' = 0
    /\ inode' = NotFound /\ result' = 0
    /\ UNCHANGED <<super_block, group_descs>>

Next ==
    \/ EXT2
    \/ \E c \in Callers, p \in Paths : Call(c, p)
    \/ ScanChar \/ ScanRoot \/ ScanFolder \/ ScanFile
    \/ Return

\* The hart runs a call to its end.
Spec == Init /\ [][Next]_vars /\ WF_vars(ScanChar \/ ScanRoot \/ ScanFolder \/ ScanFile \/ Return)
-----------------------------------------------------------------------------
(* The reference: the names between the slashes, followed one after the    *)
(* other through all entries of the directories of the image.              *)
Child(n, name) ==
    LET hits == {e \in Range(Image[n].entries) : e.name = name}
    IN  IF Image[n].dir /\ hits # {} THEN (CHOOSE e \in hits : TRUE).inode ELSE NotFound

\* One character: it is added to the name, or it is a slash and ends it.
FollowChar(w, c) ==
    IF c # SLASH THEN [at |-> w.at, name |-> Append(w.name, c)]
    ELSE IF w.name = <<>> THEN w
    ELSE [at |-> IF w.at = NotFound THEN NotFound ELSE Child(w.at, w.name), name |-> <<>>]

\* Follow(p)[i]: the inode that the first i characters of p lead to, and the
\* name that is not ended yet.
Follow(p) ==
    LET walk[i \in 0 .. Len(p)] ==
          IF i = 0 THEN [at |-> RootInode, name |-> <<>>] ELSE FollowChar(walk[i - 1], p[i])
    IN  walk

Resolve(p) == Follow(Append(p, SLASH))[Len(p) + 1].at

\* Paths with no empty name, but for the slashes at both ends.
WellFormed(p) ==
    /\ p # <<>> /\ p # <<SLASH>>
    /\ \A i \in 1 .. Len(p) - 1 : ~(p[i] = SLASH /\ p[i + 1] = SLASH)

-----------------------------------------------------------------------------
(* The scan stays inside the path: neither the index, which is moved past  *)
(* a slash and the character behind it at once, nor the start of a name    *)
(* ever leaves the path and its terminator.                                *)
ScanInBounds == current \in 0 .. Len(path) /\ size \in 0 .. current

\* The name that ends behind the first i characters of the path is an entry of the
\* directory reached there, but behind the first MAX_ENTRIES or behind the first block.
OverlookedAt(p, i) ==
    LET w == Follow(Append(p, SLASH))[i] IN
    /\ Append(p, SLASH)[i + 1] = SLASH /\ w.at # NotFound
    /\ \E k \in DOMAIN Image[w.at].entries :
          /\ Image[w.at].entries[k].name = w.name
          /\ k > MAX_ENTRIES \/ k > Image[w.at].first

\* The path leads through an inode of a group that the driver has no descriptor of.
BeyondAt(p, i) ==
    LET n == Follow(Append(p, SLASH))[i].at IN
    n # NotFound /\ (n - 1) \div INODES_PER_GROUP >= amount_groups

(* A walk over a path without empty names that succeeds ends at exactly    *)
(* the inode the path names, through directories in any group.  If it      *)
(* fails, there is none, or one of the path's names is an entry that the   *)
(* driver does not look at: one past the tenth, or in a later block.       *)
LookupExact ==
    (pc = "found" /\ WellFormed(path)) =>
        IF result = 0 THEN inode = Resolve(path)
        ELSE Resolve(path) = NotFound \/ \E i \in 0 .. Len(path) : OverlookedAt(path, i)

(* There are five reasons for which the driver uses memory or disk that    *)
(* is not what it takes it for: a layout of the disk it does not know, no  *)
(* full group, more groups than slots, an empty name, or a path through a  *)
(* last group that is not full.                                            *)
WildHasACause ==
    pc = "wild" =>
        \/ super_block.block_size <= SUPERBLOCK_AT \/ super_block.s_inode_size # SIZEOF_INODE
        \/ amount_groups \notin 1 .. GROUP_SLOTS
        \/ caller # "none" /\ ~WellFormed(path)
        \/ \E i \in 0 .. Len(path) + 1 : BeyondAt(path, i)

(* Every walk ends, whatever the path: it is answered or goes wild.        *)
LookupReturns == pc = "scan" ~> pc \in {"idle", "wild"}
=============================================================================
