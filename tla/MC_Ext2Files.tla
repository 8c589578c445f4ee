---------------------------- MODULE MC_Ext2Files ----------------------------
(* Instantiates Ext2Files for TLC with the inodes, names and blocks of      *)
(* MC_Ext2Namespace and a small set of handle slots.                        *)
EXTENDS Ext2Files, MC_Ext2Namespace

CONSTANTS h1, h2

\* The root and one more inode: enough for a file with two names.
MCInos2 == {Root, i1}

MCHandles1 == {h1}
MCHandles2 == {h1, h2}

\* Inodes other than the root, names and handle slots are interchangeable.
MCFilesSymmetry ==
    Permutations({i1, i2, i3}) \cup Permutations(MCNames)
        \cup Permutations({h1, h2})
=============================================================================
