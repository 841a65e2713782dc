------------------------------- MODULE MCExt2 -------------------------------
(***************************************************************************)
(* A small ext2 image for Ext2: three groups of inodes, a directory with   *)
(* one entry more than get_inode_in_dir looks at, one with an entry in its *)
(* second block, names of one and two characters of which one is the       *)
(* beginning of another.  The superblock has the third group full or not,  *)
(* no full group, more groups than slots, and two layouts that the driver  *)
(* does not know.                                                          *)
(***************************************************************************)
EXTENDS Ext2

CONSTANTS MaxPath     \* bound: the length of a path

Entry(name, n) == [name |-> name, inode |-> n]
Directory(entries, first) == [dir |-> TRUE, entries |-> entries, first |-> first]
File == [dir |-> FALSE, entries |-> <<>>, first |-> 0]

SmallImage ==
    <<File,
      Directory(<<Entry(<<"a">>, 3), Entry(<<"b">>, 8)>>, 2),
      Directory(<<Entry(<<"b">>, 4), Entry(<<"a", "b">>, 6)>>, 1),
      Directory(<<Entry(<<"b">>, 6), Entry(<<"a">>, 7)>>, 2),
      File,
      Directory(<<Entry(<<"b">>, 1), Entry(<<"b", "a">>, 3), Entry(<<"a">>, 5),
                  Entry(<<"a", "b">>, 4)>>, 4),
      File,
      Directory(<<Entry(<<"a">>, 6), Entry(<<"b">>, 7)>>, 2)>>

SuperBlock(blocks, block, inode_size) ==
    [s_blocks_count |-> blocks, block_size |-> block, s_inode_size |-> inode_size]

SomeSuperBlocks ==
    {SuperBlock(blocks, 4096, 256) : blocks \in {3, 9, 12, 36}}
        \cup {SuperBlock(12, 1024, 256), SuperBlock(12, 4096, 128)}

AllPaths == UNION {[1 .. n -> {"/", "a", "b"}] : n \in 0 .. MaxPath}
=============================================================================
