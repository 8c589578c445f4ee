---------------------------- MODULE MC_Ext2Crash ----------------------------
(* Instantiates Ext2Crash for TLC with the inodes, names and blocks of      *)
(* MC_Ext2Namespace.                                                        *)
EXTENDS Ext2Crash, MC_Ext2Namespace
=============================================================================
