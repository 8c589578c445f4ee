---------------------------- MODULE Ext2Files ----------------------------
(***************************************************************************)
(* Open file handles of fuse-ext2fs composed with its namespace handlers.  *)
(* op_open (also registered as opendir) and op_create keep the ext2_file   *)
(* that ext2fs_file_open returns; it holds a copy of the inode, read when  *)
(* the file is opened (fh->inode).  do_read and do_write write that copy   *)
(* back with ext2fs_write_inode, whatever the namespace handlers have done *)
(* to the inode since.  A regular file's blocks are the blks of its inode; *)
(* sizes are abstracted: whether a write extends the file, and whether it  *)
(* needs a block the file does not map, are inputs of the request.         *)
(***************************************************************************)
EXTENDS Ext2Namespace

CONSTANTS
    Handles,        \* the ext2_file handles that can be open at once
    NoFile,         \* a free handle slot
    MaxFileBlocks   \* the most data blocks a regular file is given

VARIABLE
    fh         \* fh[h]: the handle's inode number and its copy of the inode

fvars == <<inode, imap, bmap, ents, pc, rc, faults, fh>>

Handle == [ino : Inos, node : Inode]
FreeHandles == {h \in Handles : fh[h] = NoFile}

FInit == Init /\ fh = [h \in Handles |-> NoFile]

-----------------------------------------------------------------------------
(* do_open, reached from op_open, opendir and op_create *)

\* ext2fs_file_open reads the inode into the new handle.  When it fails the
\* handle pointer is left unset; for an O_RDWR open do_open dereferences it
\* (ext2fs.c:226) before looking at the error, so only read-only opens are
\* given a failure.  O_TRUNC opens go to do_ftruncate and are not modelled.
Open(h, i) ==
    /\ pc = Idle /\ fh[h] = NoFile
    /\ Live(i)
    /\ \E rdwr \in BOOLEAN, ok \in Try("file_open") :
         \/ /\ ok /\ fh' = [fh EXCEPT ![h] = [ino |-> i, node |-> inode[i]]]
            /\ Finish("OK") /\ UNCHANGED faults
         \/ /\ ~ok /\ ~rdwr /\ Finish("EXT2_ERR") /\ Charge(<<ok>>)
            /\ UNCHANGED fh
    /\ UNCHANGED <<inode, imap, bmap, ents>>

\* op_create: do_create, then do_open of the new inode without O_CREAT,
\* before the reply and so before any other request.  A free handle is
\* required for the request to start (the bound on open handles).
FCreateInode(parent, name) ==
    CreateInode(parent, name) /\ FreeHandles # {} /\ UNCHANGED fh

FCreateLink ==
    /\ CreateLink
    /\ IF rc' = "OK"
       THEN \E h \in FreeHandles :
              fh' = [fh EXCEPT ![h] = [ino |-> pc.ino, node |-> inode'[pc.ino]]]
       ELSE UNCHANGED fh

-----------------------------------------------------------------------------
(* op_read / do_read, op_write / do_write, op_release / do_file_close *)

\* ext2fs_file_read, then the access time is set in the handle's copy and
\* the whole copy is written with ext2fs_write_inode.  The kernel reads
\* only regular files.
Read(h) ==
    /\ pc = Idle /\ fh[h] # NoFile /\ fh[h].node.mode = "file"
    /\ \E rd \in Try("file_read"), wr \in Try("write_inode") :
         \/ /\ ~rd /\ Finish("EXT2_ERR") /\ Charge(<<rd>>) /\ UNCHANGED inode
         \/ /\ rd
            /\ inode' = IF wr THEN [inode EXCEPT ![fh[h].ino] = fh[h].node]
                        ELSE inode
            /\ Finish(IF wr THEN "OK" ELSE "EXT2_ERR") /\ Charge(<<wr>>)
    /\ UNCHANGED <<imap, bmap, ents, fh>>

\* ext2fs_file_write (EIO on an error or a short write); a write ending past
\* i_size calls set_file_size, which writes the handle's copy with the new
\* size.  A write into a block the copy does not map allocates one, and
\* ext2fs_bmap writes the copy with the new block pointer; the file system
\* being full is an error of ext2fs_file_write.  A write starting past
\* i_size first lengthens the file through the same copy, which is a grow.
Write(h) ==
    /\ pc = Idle /\ fh[h] # NoFile /\ fh[h].node.mode = "file"
    /\ LET i == fh[h].ino
           c == fh[h].node
           Grown(b) == [c EXCEPT !.blks = @ \cup {b}]
       IN  \E wf \in Try("file_write"), wr \in Try("write_inode") :
         \/ /\ ~wf /\ Finish("EIO") /\ Charge(<<wf>>)
            /\ UNCHANGED <<inode, bmap, fh>>
         \/ /\ wf /\ c.blks # {} /\ Finish("OK")
            /\ UNCHANGED <<inode, bmap, fh, faults>>
         \/ /\ wf /\ c.blks # {}
            /\ inode' = IF wr THEN [inode EXCEPT ![i] = c] ELSE inode
            /\ Finish(IF wr THEN "OK" ELSE "EXT2_ERR") /\ Charge(<<wr>>)
            /\ UNCHANGED <<bmap, fh>>
         \/ /\ wf /\ Cardinality(c.blks) < MaxFileBlocks
            /\ \/ /\ FreeBlocks = {} /\ Finish("EIO")
                  /\ UNCHANGED <<inode, bmap, fh, faults>>
               \/ \E b \in FreeBlocks :
                    /\ bmap' = bmap \cup {b}
                    /\ fh' = [fh EXCEPT ![h].node = Grown(b)]
                    /\ inode' = [inode EXCEPT ![i] = Grown(b)]
                    /\ Finish(IF wr THEN "OK" ELSE "EXT2_ERR") /\ Charge(<<wr>>)
    /\ UNCHANGED <<imap, ents>>

\* ext2fs_file_close flushes and frees the handle, also when the flush
\* fails (then the reply is EIO).  Also releasedir.
Release(h) ==
    /\ pc = Idle /\ fh[h] # NoFile
    /\ \E ok \in Try("file_close") :
         /\ fh' = [fh EXCEPT ![h] = NoFile]
         /\ Finish(IF ok THEN "OK" ELSE "EIO") /\ Charge(<<ok>>)
    /\ UNCHANGED <<inode, imap, bmap, ents>>

-----------------------------------------------------------------------------
(* op_setattr with FUSE_SET_ATTR_SIZE: do_truncate (src/truncate.c) *)

\* do_shorten through a handle whose copy is current: the blocks past the
\* new end are released and the inode maps the rest.  Which blocks those
\* are is truncate_blocks_proc's choice, checked in Ext2Truncate.
Shorten(i, keep) ==
    /\ inode' = [inode EXCEPT ![i].blks = keep]
    /\ bmap' = bmap \ (inode[i].blks \ keep)

\* do_lengthen: the gap is written with ext2fs_file_write, which allocates
\* block b; set_file_size then writes the handle's copy.
Lengthen(i, b) ==
    /\ inode' = [inode EXCEPT ![i].blks = @ \cup {b}]
    /\ bmap' = bmap \cup {b}

\* do_ftruncate on do_truncate's fresh handle: shorten, lengthen, or, when
\* the length stays within the last block, only rewrite the size.
DoFtruncate(i) ==
    \/ \E keep \in SUBSET inode[i].blks : keep # inode[i].blks /\ Shorten(i, keep)
    \/ /\ Cardinality(inode[i].blks) < MaxFileBlocks
       /\ \E b \in FreeBlocks : Lengthen(i, b)
    \/ UNCHANGED <<inode, bmap>>

\* do_truncate opens a new handle on the inode (a fresh copy), calls
\* do_ftruncate through it and closes it; handles the kernel holds open on
\* the same inode keep their copies.  op_setattr then reads and writes the
\* inode again (EIO when the write fails).  A lengthen on a full file
\* system fails in ext2fs_file_write.
SetattrSize(i) ==
    /\ pc = Idle /\ Live(i) /\ ~IsDir(i)
    /\ \E op \in Try("file_open"), wr \in Try("write_inode") :
         \/ /\ ~op /\ Finish("EXT2_ERR") /\ Charge(<<op>>)
            /\ UNCHANGED <<inode, bmap>>
         \/ /\ op /\ DoFtruncate(i)
            /\ Finish(IF wr THEN "OK" ELSE "EIO") /\ Charge(<<op, wr>>)
         \/ /\ op /\ Cardinality(inode[i].blks) < MaxFileBlocks
            /\ FreeBlocks = {} /\ Finish("EXT2_ERR")
            /\ UNCHANGED <<inode, bmap, faults>>
    /\ UNCHANGED <<imap, ents, fh>>

-----------------------------------------------------------------------------

\* Every namespace step other than op_create's leaves the handles alone.
NamespaceStep ==
    /\ \/ \E p \in Inos, n \in Names :
             \/ UnlinkStart(p, n) \/ RmdirStart(p, n) \/ MkdirStart(p, n)
       \/ \E i, p \in Inos, n \in Names : LinkStart(i, p, n)
       \/ \E p, q \in Inos, n, m \in Names : RenameStart(p, n, q, m)
       \/ UnlinkInoRead \/ UnlinkInoSave \/ KillTomb \/ KillRelease
       \/ LinkDo \/ RmdirInoCheck \/ RmdirInoParent \/ MkdirTry \/ MkdirExpand
       \/ RenameLink \/ RenameTarget \/ RenameAfterTarget \/ RenameOld
       \/ RenameAfterOld \/ RenameOldParent \/ RenameCleanup
    /\ UNCHANGED fh

FNext ==
    \/ \E p \in Inos, n \in Names : FCreateInode(p, n)
    \/ FCreateLink
    \/ NamespaceStep
    \/ \E h \in Handles :
          \/ \E i \in Inos : Open(h, i)
          \/ Read(h) \/ Write(h) \/ Release(h)
    \/ \E i \in Inos : SetattrSize(i)

FSpec == FInit /\ [][FNext]_fvars

-----------------------------------------------------------------------------
(* Properties *)

\* The namespace state has its type and every handle slot is free or holds
\* an inode number with a copy of an inode.
FilesTypeOK ==
    /\ TypeOK
    /\ fh \in [Handles -> Handle \cup {NoFile}]

\* An inode that kill_file_by_inode has freed stays a tombstone until it is
\* allocated again: link count 0 and a deletion time ("we leave deleted
\* inodes in a perfect state", ext2fs.c).  The comment above it relies on
\* FUSE renaming open files instead of unlinking them, which the high-level
\* library does and the low-level API used here does not.
DeletedInodesClean ==
    \A i \in Inos \ imap :
        inode[i].mode # "none" => inode[i].links = 0 /\ inode[i].dtime
=============================================================================
