----------------------------- MODULE Ext2Crash -----------------------------
(***************************************************************************)
(* The mount lifecycle of fuse-ext2fs around its namespace handlers:      *)
(* op_init opens the device and reads both bitmaps into memory, the       *)
(* handlers run, op_fsync calls ext2fs_flush, op_destroy calls            *)
(* ext2fs_close, and the process can die at any point: killed, or by the  *)
(* exit(1) of release_blocks_proc when a block wipe fails.                 *)
(*                                                                         *)
(* libext2fs writes an inode (ext2fs_write_inode) and a directory block   *)
(* (ext2fs_link, ext2fs_unlink) to the device when it is called, but the  *)
(* bitmaps only in memory: ext2fs_inode_alloc_stats2, the block stats and *)
(* ext2fs_mark_ib_dirty / ext2fs_mark_bb_dirty change fs->inode_map and   *)
(* fs->block_map, which reach the device in ext2fs_flush and              *)
(* ext2fs_close.  The device keeps its own copy of the bitmaps; inode     *)
(* table and directory entries are taken to be on the device as soon as   *)
(* written.  unix_io's write-back cache can hold them back until it       *)
(* evicts them: the real program has outcomes this model leaves out (a    *)
(* crash that loses a write too), and the outcome the model shows needs   *)
(* the cache to have written the inode and the entry, as an eviction does.*)
(***************************************************************************)
EXTENDS Ext2Namespace

CONSTANT MaxCrashes   \* process deaths in a behaviour

ASSUME MaxCrashes \in Nat

VARIABLES
    dimap,    \* the inode bitmap on the device
    dbmap,    \* the block bitmap on the device
    mounted,  \* op_init has run and fuse_session_loop serves requests
    crashes   \* process deaths so far

cvars == <<inode, imap, bmap, ents, pc, rc, faults, dimap, dbmap, mounted, crashes>>

\* A freshly made file system, mounted: memory and device agree.
CInit ==
    /\ Init
    /\ dimap = imap /\ dbmap = bmap
    /\ mounted = TRUE /\ crashes = 0

\* fuse_session_loop hands one request (or the next step of the one in
\* progress) to its handler; the handlers leave the device's bitmaps alone.
Serve ==
    /\ mounted /\ Next
    /\ UNCHANGED <<dimap, dbmap, mounted, crashes>>

\* ext2fs_flush: the superblock, the group descriptors and both bitmaps are
\* written to the device.  A failed flush is taken to write none of them.
Flush(ok) ==
    IF ok THEN dimap' = imap /\ dbmap' = bmap ELSE UNCHANGED <<dimap, dbmap>>

\* op_fsync between requests: ext2fs_flush, whose result is ignored, and a
\* reply of 0.
Fsync ==
    /\ mounted /\ pc = Idle
    /\ \E ok \in Try("flush") :
         /\ Flush(ok)
         /\ Finish("OK") /\ Charge(<<ok>>)
    /\ UNCHANGED <<inode, imap, bmap, ents, mounted, crashes>>

\* op_destroy at unmount: ext2fs_close flushes as ext2fs_flush does (its
\* error is only printed) and frees the in-memory file system.
Destroy ==
    /\ mounted /\ pc = Idle
    /\ \E ok \in Try("flush") : Flush(ok) /\ Charge(<<ok>>)
    /\ mounted' = FALSE
    /\ UNCHANGED <<inode, imap, bmap, ents, pc, rc, crashes>>

\* The process dies, between requests or inside a handler (release_blocks_proc
\* calls exit(1) when test_wipe_block fails, after some blocks were freed in
\* memory): whatever was only in memory is lost.
Crash ==
    /\ mounted /\ crashes < MaxCrashes
    /\ mounted' = FALSE /\ crashes' = crashes + 1
    /\ UNCHANGED <<inode, imap, bmap, ents, pc, rc, faults, dimap, dbmap>>

\* op_init of the next mount: ext2fs_open, ext2fs_read_inode_bitmap and
\* ext2fs_read_block_bitmap load the bitmaps from the device; no request is
\* in progress.  Nothing in the program marks the file system not clean
\* while it is mounted, so no e2fsck runs in between.
Mount ==
    /\ ~mounted
    /\ imap' = dimap /\ bmap' = dbmap
    /\ pc' = Idle /\ mounted' = TRUE
    /\ UNCHANGED <<inode, ents, rc, faults, dimap, dbmap, crashes>>

CNext == Serve \/ Fsync \/ Destroy \/ Crash \/ Mount

CSpec == CInit /\ [][CNext]_cvars
=============================================================================
