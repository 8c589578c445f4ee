---------------------------- MODULE MC_Ext2Atomic ----------------------------
(* Instantiates Ext2Atomic with the constants of MC_Ext2Namespace.        *)
EXTENDS Ext2Atomic, MC_Ext2Namespace

\* MCView with the history variable: rc is read by no action.
MCAtomicView == <<inode, imap, bmap, ents, pc, faults, told>>
=============================================================================
