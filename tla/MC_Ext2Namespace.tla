-------------------------- MODULE MC_Ext2Namespace --------------------------
(* Instantiates Ext2Namespace for TLC: the root and three (or two) more   *)
(* inodes, two names, and three (or four) data blocks.                    *)
EXTENDS Ext2Namespace

CONSTANTS i1, i2, i3, na, nb, b0, b1, b2, b3

MCInos   == {Root, i1, i2, i3}
\* One inode fewer, for the runs that inject I/O errors.
MCInos3  == {Root, i1, i2}
MCNames  == {na, nb}
MCBlocks == {b0, b1, b2}
\* One block more: room for a directory expansion and a second mkdir attempt.
MCBlocks4 == {b0, b1, b2, b3}

\* The inodes other than the root, and the names, are interchangeable.
MCSymmetry == Permutations({i1, i2, i3}) \cup Permutations(MCNames)

\* A state's fingerprint without rc: the reply of the last request has been
\* sent to the kernel and no action reads it, so states that differ only in
\* it have the same successors.  The properties read rc only in the step
\* that sets it.
MCView == <<inode, imap, bmap, ents, pc, faults>>
=============================================================================
