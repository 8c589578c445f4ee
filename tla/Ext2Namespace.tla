---------------------------- MODULE Ext2Namespace ----------------------------
(***************************************************************************)
(* The namespace orchestration layer of ext2fuse: the FUSE handlers that   *)
(* create, link, unlink, mkdir, rmdir and rename, and the deletion path    *)
(* they share (kill_file_by_inode).  Sources: src/ext2fs.c, src/rename.c, *)
(* src/mkdir.c, src/fuse-ext2fs.c.                                         *)
(*                                                                         *)
(* The FUSE session loop is single-threaded, so one handler runs at a     *)
(* time.  A handler is split into one action per libext2fs call that      *)
(* writes the disk, so that every state in which an error return can      *)
(* leave the file system is a reachable state of the model.  Sub-routines *)
(* (do_unlink_on_ino, do_rmdir_on_ino, kill_file_by_inode) are entered    *)
(* with a continuation k: the pc record to resume when they return.       *)
(*                                                                         *)
(* Data is abstracted: names and inode numbers are model values, file     *)
(* contents are not represented (see Ext2Truncate), a directory block     *)
(* holds SlotsPerBlock entries.                                            *)
(***************************************************************************)
EXTENDS Naturals, FiniteSets, Bags, BagsExt, TLC

CONSTANTS
    Root,           \* EXT2_ROOT_INO
    Inos,           \* inode numbers of the file system, Root included
    Names,          \* file names the callers use
    Dot, DotDot,    \* the names "." and ".."
    Blocks,         \* data blocks available to directories
    RootBlock,      \* the root directory's first block
    SlotsPerBlock,  \* directory entries that fit in one directory block
    MaxFaults,      \* bound on the number of injected I/O failures
    FaultSites,     \* the libext2fs calls that may fail with an I/O error
    VfsChecks,      \* TRUE: only the requests the kernel VFS lets through
    MaxLinks,       \* bound on i_links_count (the code has none)
    NoIno           \* "no inode" (target_ino = 0 in do_rename)

ASSUME /\ Root \in Inos /\ RootBlock \in Blocks /\ NoIno \notin Inos
       /\ Dot \notin Names /\ DotDot \notin Names /\ Dot # DotDot
       /\ SlotsPerBlock \in Nat \ {0, 1, 2} /\ MaxFaults \in Nat
       /\ MaxLinks \in Nat
       /\ VfsChecks \in BOOLEAN

VARIABLES
    inode,   \* the on-disk inode table: mode, i_links_count, i_dtime, blocks
    imap,    \* fs->inode_map: inode numbers in use
    bmap,    \* fs->block_map: blocks in use
    ents,    \* directory entries, a bag of [dir, name, ino]
    pc,      \* the handler in progress and its locals, or Idle
    rc,      \* the error code of the last completed request
    faults   \* number of I/O failures injected so far

vars == <<inode, imap, bmap, ents, pc, rc, faults>>

Modes == {"none", "file", "dir"}
Inode == [mode : Modes, links : Nat, dtime : BOOLEAN, blks : SUBSET Blocks]
Entry == [dir : Inos, name : Names \cup {Dot, DotDot}, ino : Inos]
Codes == {"OK", "ENOENT", "EIO", "EACCES", "ENOTDIR", "EISDIR", "ENOTEMPTY",
          "ENOSPC", "EEXIST", "EPERM", "EXT2_ERR"}
Idle == [op |-> "idle"]
Top  == [op |-> "top"]

-----------------------------------------------------------------------------
(* State predicates *)

Live(i)    == i \in imap /\ inode[i].mode # "none" /\ ~inode[i].dtime
IsDir(i)   == inode[i].mode = "dir"
LiveDir(i) == Live(i) /\ IsDir(i)
InDir(d)   == {e \in DOMAIN ents : e.dir = d}
Used(d)    == BagCardinality([e \in InDir(d) |-> ents[e]])
HasRoom(d) == Used(d) < SlotsPerBlock * Cardinality(inode[d].blks)
FreeInos   == Inos \ imap

\* Bound on the parent's i_links_count that mkdir raises (the code has no
\* limit): a directory with every other inode as a subdirectory has
\* |Inos| + 1 links, so only a corrupted count reaches it.
MaxDirLinks == Cardinality(Inos) + 1
FreeBlocks == Blocks \ bmap

\* ext2fs_lookup / ext2fs_namei: the inodes a name resolves to in d.  The
\* library returns the first match in on-disk order; the model lets it
\* return any match (there is more than one only after a duplicate link).
Namei(d, n) == {e.ino : e \in {x \in InDir(d) : x.name = n}}

\* Directories reachable from the directories S by name entries.
RECURSIVE DirsBelow(_)
DirsBelow(S) ==
    LET T == S \cup {e.ino : e \in {x \in DOMAIN ents :
                         x.dir \in S /\ x.name \in Names /\ LiveDir(x.ino)}}
    IN  IF T = S THEN S ELSE DirsBelow(T)

ReachDirs == DirsBelow({Root})
Reachable == ReachDirs \cup {e.ino : e \in {x \in DOMAIN ents :
                                 x.dir \in ReachDirs /\ x.name \in Names}}
\* Directory entries that reference i from reachable directories.
Refs(i) == BagCardinality([e \in {x \in DOMAIN ents :
                               x.dir \in ReachDirs /\ x.ino = i} |-> ents[e]])
LinkCounts == [i \in Inos |-> inode[i].links]

-----------------------------------------------------------------------------
(* Storage primitives of libext2fs (the external collaborator) *)

\* The outcomes of one call to a libext2fs routine that can fail: TRUE is
\* success.  Failure is injected only at FaultSites and within MaxFaults.
Try(site) == IF site \in FaultSites /\ faults < MaxFaults
             THEN {TRUE, FALSE} ELSE {TRUE}
Charge(oks) == faults' = faults + Cardinality({j \in DOMAIN oks : ~oks[j]})

EntryOf(d, n, i) == [dir |-> d, name |-> n, ino |-> i]

\* ext2fs_unlink(fs, d, n, i, 0): remove the first entry named n in d that
\* references i (any inode when i = NoIno).  The set of possible results.
UnlinkEntry(d, n, i) ==
    LET M == {e \in InDir(d) : e.name = n /\ (i = NoIno \/ e.ino = i)}
    IN  {BagRemove(ents, e) : e \in M}

\* do_link (src/ext2fs.c): ext2fs_link, and on EXT2_ET_DIR_NO_SPACE one
\* ext2fs_expand_dir and a second ext2fs_link, which may fail in its turn
\* after the directory has grown.  The set of outcomes.
DoLink(d, n, i) ==
    LET e == EntryOf(d, n, i)
        Grown(b) == [inode EXCEPT ![d].blks = @ \cup {b}]
        Out(E, I, B, ok, nf) ==
            [ents |-> E, inode |-> I, bmap |-> B, ok |-> ok, nf |-> nf]
    IN  (IF HasRoom(d)
         THEN {Out(BagAdd(ents, e), inode, bmap, TRUE, 0)}
         ELSE {Out(BagAdd(ents, e), Grown(b), bmap \cup {b}, TRUE, 0)
                : b \in FreeBlocks}
              \cup (IF FreeBlocks = {} THEN {Out(ents, inode, bmap, FALSE, 0)}
                    ELSE {}))
        \cup {Out(ents, inode, bmap, FALSE, 1) : ok \in Try("ext2fs_link") \ {TRUE}}
        \cup (IF HasRoom(d) THEN {}
              ELSE {Out(ents, inode, bmap, FALSE, 1) : ok \in Try("expand_dir") \ {TRUE}}
                   \cup {Out(ents, Grown(b), bmap \cup {b}, FALSE, 1)
                          : b \in FreeBlocks, ok \in Try("ext2fs_link") \ {TRUE}})

ApplyLink(r) ==
    /\ ents' = r.ents /\ bmap' = r.bmap
    /\ faults' = faults + r.nf

-----------------------------------------------------------------------------
(* Returning from a handler or a sub-routine *)

\* A sub-routine returns r to its continuation; the top level replies r.
Return(r) ==
    IF pc.k = Top
    THEN pc' = Idle /\ rc' = r
    ELSE pc' = [sub |-> r] @@ pc.k /\ UNCHANGED rc

Finish(r) == pc' = Idle /\ rc' = r

Init ==
    /\ inode = [i \in Inos |->
                 IF i = Root
                 THEN [mode |-> "dir", links |-> 2, dtime |-> FALSE,
                       blks |-> {RootBlock}]
                 ELSE [mode |-> "none", links |-> 0, dtime |-> FALSE,
                       blks |-> {}]]
    /\ imap = {Root}
    /\ bmap = {RootBlock}
    /\ ents = SetToBag({EntryOf(Root, Dot, Root), EntryOf(Root, DotDot, Root)})
    /\ pc = Idle
    /\ rc = "OK"
    /\ faults = 0

-----------------------------------------------------------------------------
(* do_create (src/ext2fs.c), reached from op_create and op_symlink *)


\* Mutant: the ext2fs_write_new_inode error is not checked, so the name is
\* linked to an inode that was never written.
CreateInodeIgnoresWriteError(parent, name) ==
    /\ pc = Idle
    /\ LiveDir(parent) /\ name \in Names
    /\ VfsChecks => Namei(parent, name) = {}
    /\ \E i \in FreeInos, wr \in Try("write_new_inode") :
         /\ inode' = IF wr THEN [inode EXCEPT ![i] = [mode |-> "file",
                          links |-> 1, dtime |-> FALSE, blks |-> {}]]
                     ELSE inode
         /\ imap' = imap \cup {i} /\ Charge(<<wr>>)
         /\ pc' = [op |-> "create", step |-> "link",
                   parent |-> parent, name |-> name, ino |-> i]
         /\ UNCHANGED <<bmap, ents, rc>>

\* Read the parent, check write permission on it, take a free inode from
\* the inode bitmap, write the new inode, mark it in the bitmap.
CreateInode(parent, name) ==
    /\ pc = Idle
    /\ LiveDir(parent) /\ name \in Names
    /\ VfsChecks => Namei(parent, name) = {}
    /\ \E rd \in Try("read_inode"), allowed \in BOOLEAN,
          wr \in Try("write_new_inode"):
         \/ /\ ~rd /\ Finish("EIO") /\ Charge(<<rd>>)
            /\ UNCHANGED <<inode, imap, bmap, ents>>
         \/ /\ rd /\ ~allowed /\ Finish("EACCES")
            /\ UNCHANGED <<inode, imap, bmap, ents, faults>>
         \* ext2fs_new_inode fails: "if(EXT2_ET_INODE_ALLOC_FAIL)" is
         \* always true, so the reply is ENOSPC
         \/ /\ rd /\ allowed /\ FreeInos = {} /\ Finish("ENOSPC")
            /\ UNCHANGED <<inode, imap, bmap, ents, faults>>
         \/ \E i \in FreeInos :
              /\ rd /\ allowed
              /\ \/ /\ ~wr /\ Finish("EIO") /\ Charge(<<wr>>)
                    /\ UNCHANGED <<inode, imap>>
                 \/ /\ wr /\ UNCHANGED faults
                    /\ inode' = [inode EXCEPT ![i] = [mode |-> "file",
                                  links |-> 1, dtime |-> FALSE, blks |-> {}]]
                    /\ imap' = imap \cup {i}
                    /\ pc' = [op |-> "create", step |-> "link",
                              parent |-> parent, name |-> name, ino |-> i]
                    /\ UNCHANGED rc
              /\ UNCHANGED <<bmap, ents>>

\* do_link the new inode into the parent.  On failure the inode stays
\* allocated and unlinked ("only wasted space", says the comment).
CreateLink ==
    /\ pc.op = "create" /\ pc.step = "link"
    /\ \E r \in DoLink(pc.parent, pc.name, pc.ino) :
         /\ ApplyLink(r) /\ inode' = r.inode
         /\ Finish(IF r.ok THEN "OK" ELSE "EIO")
    /\ UNCHANGED imap

-----------------------------------------------------------------------------
(* op_unlink, do_unlink and do_unlink_on_ino (src/ext2fs.c) *)

\* op_unlink: check_perms is a no-op (do_permissions_checks = 0); do_unlink
\* resolves the name and calls do_unlink_on_ino(parent, name, ino, -1).
UnlinkStart(parent, name) ==
    /\ pc = Idle
    /\ LiveDir(parent) /\ name \in Names
    /\ VfsChecks => /\ Namei(parent, name) # {}
                    /\ \A i \in Namei(parent, name) : ~IsDir(i)
    /\ IF Namei(parent, name) = {}
       THEN Finish("ENOENT")
       ELSE \E i \in Namei(parent, name) :
              /\ pc' = [op |-> "unlink_ino", step |-> "read", parent |-> parent,
                        name |-> name, ino |-> i, k |-> Top]
              /\ UNCHANGED rc
    /\ UNCHANGED <<inode, imap, bmap, ents, faults>>


\* Mutant: the entry is left in the directory (ext2fs_unlink not called).
UnlinkInoReadKeepsEntry ==
    /\ pc.op = "unlink_ino" /\ pc.step = "read"
    /\ \/ /\ IsDir(pc.ino) /\ Return("ENOTDIR")
       \/ /\ ~IsDir(pc.ino)
          /\ pc' = [pc EXCEPT !.step = "save"]
                     @@ [node |-> [inode[pc.ino] EXCEPT !.links = @ - 1]]
          /\ UNCHANGED rc
    /\ UNCHANGED <<inode, imap, bmap, ents, faults>>

\* Read the inode, refuse a directory, lower the link count in the copy,
\* remove the entry.  An ext2fs_unlink failure is logged and ignored.
UnlinkInoRead ==
    /\ pc.op = "unlink_ino" /\ pc.step = "read"
    /\ \E rd \in Try("read_inode"), un \in Try("unlink_entry") :
         \/ /\ ~rd /\ Return("EIO") /\ Charge(<<rd>>)
            /\ UNCHANGED ents
         \/ /\ rd /\ IsDir(pc.ino) /\ Return("ENOTDIR")
            /\ UNCHANGED <<ents, faults>>
         \/ /\ rd /\ ~IsDir(pc.ino)
            /\ LET node == [inode[pc.ino] EXCEPT
                              !.links = IF @ > 0 THEN @ - 1 ELSE @]
                   R == UnlinkEntry(pc.parent, pc.name, pc.ino)
               IN /\ IF un /\ R # {} THEN ents' \in R ELSE UNCHANGED ents
                  /\ pc' = [pc EXCEPT !.step = "save"] @@ [node |-> node]
            /\ Charge(<<un>>) /\ UNCHANGED rc
    /\ UNCHANGED <<inode, imap, bmap>>

\* Save the lowered link count, or hand a count below 1 to the deletion
\* path without saving it (kill_file_by_inode writes it).
UnlinkInoSave ==
    /\ pc.op = "unlink_ino" /\ pc.step = "save"
    /\ IF pc.node.links < 1
       THEN /\ pc' = [op |-> "kill", step |-> "tomb", ino |-> pc.ino,
                      node |-> pc.node, k |-> pc.k]
            /\ UNCHANGED <<inode, faults, rc>>
       ELSE \E wr \in Try("write_inode") :
              /\ inode' = IF wr THEN [inode EXCEPT ![pc.ino] = pc.node] ELSE inode
              /\ Return(IF wr THEN "OK" ELSE "EIO") /\ Charge(<<wr>>)
    /\ UNCHANGED <<imap, bmap, ents>>

-----------------------------------------------------------------------------
(* kill_file_by_inode and release_blocks_proc (src/ext2fs.c) *)


\* Mutant: kill_file_by_inode lowers the count it was handed instead of
\* setting it to 0.
KillTombCountDown ==
    /\ pc.op = "kill" /\ pc.step = "tomb"
    /\ inode' = [inode EXCEPT ![pc.ino] =
                   [pc.node EXCEPT !.links = @ - 1, !.dtime = TRUE]]
    /\ pc' = [pc EXCEPT !.step = "release"]
    /\ UNCHANGED <<imap, bmap, ents, rc, faults>>

\* Write the inode back with link count 0 and a deletion time: from here
\* on it is a tombstone.  If the write fails the routine returns silently.
KillTomb ==
    /\ pc.op = "kill" /\ pc.step = "tomb"
    /\ \E wr \in Try("write_inode") :
         IF wr
         THEN /\ inode' = [inode EXCEPT ![pc.ino] =
                             [pc.node EXCEPT !.links = 0, !.dtime = TRUE]]
              /\ pc' = [pc EXCEPT !.step = "release"]
              /\ UNCHANGED <<rc, faults>>
         ELSE /\ Return("OK") /\ Charge(<<wr>>) /\ UNCHANGED inode
    /\ UNCHANGED <<imap, bmap, ents>>

\* Release every block of the inode (the entries of a directory go with
\* its blocks), update the inode statistics and clear the inode's bit.
\* ext2fs_inode_has_valid_blocks holds for every regular file and
\* directory, the only kinds these handlers create.  The result of
\* ext2fs_block_iterate is ignored: when it fails before visiting a block
\* (its block buffer cannot be allocated) the blocks stay marked, and the
\* inode is freed all the same.
KillRelease ==
    /\ pc.op = "kill" /\ pc.step = "release"
    /\ \E it \in Try("block_iterate") :
         /\ bmap' = IF it THEN bmap \ inode[pc.ino].blks ELSE bmap
         /\ faults' = faults + (IF it THEN 0 ELSE 1)
    /\ imap' = imap \ {pc.ino}
    /\ ents' = [e \in {x \in DOMAIN ents : x.dir # pc.ino} |-> ents[e]]
    /\ Return("OK")
    /\ UNCHANGED inode

-----------------------------------------------------------------------------
(* op_link (src/fuse-ext2fs.c) *)


\* Mutant: op_link links the name without raising the link count.
LinkStartNoBump(i, newparent, newname) ==
    /\ pc = Idle
    /\ Live(i) /\ ~IsDir(i) /\ LiveDir(newparent) /\ newname \in Names
    /\ inode[i].links < MaxLinks
    /\ VfsChecks => Namei(newparent, newname) = {}
    /\ pc' = [op |-> "link", step |-> "dolink", ino |-> i,
              parent |-> newparent, name |-> newname, node |-> inode[i]]
    /\ UNCHANGED <<inode, imap, bmap, ents, rc, faults>>

\* Mutant: the write_inode error is not checked and do_link goes ahead.
LinkStartIgnoresWriteError(i, newparent, newname) ==
    /\ pc = Idle
    /\ Live(i) /\ ~IsDir(i) /\ LiveDir(newparent) /\ newname \in Names
    /\ inode[i].links < MaxLinks
    /\ VfsChecks => Namei(newparent, newname) = {}
    /\ \E wr \in Try("write_inode") :
         LET node == [inode[i] EXCEPT !.links = @ + 1]
         IN  /\ inode' = IF wr THEN [inode EXCEPT ![i] = node] ELSE inode
             /\ pc' = [op |-> "link", step |-> "dolink", ino |-> i,
                       parent |-> newparent, name |-> newname, node |-> node]
             /\ Charge(<<wr>>)
    /\ UNCHANGED <<imap, bmap, ents, rc>>

\* Raise the link count and save it before the entry exists.  The kernel
\* never asks for a hard link to a directory.
LinkStart(i, newparent, newname) ==
    /\ pc = Idle
    /\ Live(i) /\ ~IsDir(i) /\ LiveDir(newparent) /\ newname \in Names
    /\ inode[i].links < MaxLinks
    /\ VfsChecks => Namei(newparent, newname) = {}
    /\ \E rd \in Try("read_inode"), wr \in Try("write_inode") :
         LET node == [inode[i] EXCEPT !.links = @ + 1]
         IN  IF rd /\ wr
             THEN /\ inode' = [inode EXCEPT ![i] = node]
                  /\ pc' = [op |-> "link", step |-> "dolink", ino |-> i,
                            parent |-> newparent, name |-> newname, node |-> node]
                  /\ UNCHANGED <<rc, faults>>
             ELSE /\ Finish("EIO") /\ Charge(IF rd THEN <<wr>> ELSE <<rd>>)
                  /\ UNCHANGED inode
    /\ UNCHANGED <<imap, bmap, ents>>

\* do_link; on failure write the link count back down and reply ENOENT.
LinkDo ==
    /\ pc.op = "link" /\ pc.step = "dolink"
    /\ \E r \in DoLink(pc.parent, pc.name, pc.ino), wr \in Try("write_inode") :
         /\ ents' = r.ents /\ bmap' = r.bmap
         /\ IF r.ok
            THEN /\ inode' = r.inode /\ Finish("OK") /\ faults' = faults + r.nf
            ELSE /\ inode' = IF wr
                             THEN [r.inode EXCEPT ![pc.ino] =
                                     [pc.node EXCEPT !.links = @ - 1]]
                             ELSE r.inode
                 /\ Finish(IF wr THEN "ENOENT" ELSE "EIO")
                 /\ faults' = faults + r.nf + (IF wr THEN 0 ELSE 1)
    /\ UNCHANGED imap

-----------------------------------------------------------------------------
(* op_rmdir, do_rmdir and do_rmdir_on_ino (src/ext2fs.c) *)

RmdirStart(parent, name) ==
    /\ pc = Idle
    /\ LiveDir(parent) /\ name \in Names
    /\ VfsChecks => /\ Namei(parent, name) # {}
                    /\ \A i \in Namei(parent, name) : IsDir(i)
    /\ IF Namei(parent, name) = {}
       THEN Finish("ENOENT")
       ELSE \E i \in Namei(parent, name) :
              /\ pc' = [op |-> "rmdir_ino", step |-> "check", parent |-> parent,
                        name |-> name, ino |-> i, k |-> Top]
              /\ UNCHANGED rc
    /\ UNCHANGED <<inode, imap, bmap, ents, faults>>

\* Mutant: the rds.empty result of the scan is not checked.
DirEmptyUnchecked(d) == TRUE

\* rmdir_proc over every entry of d: a directory is empty when it holds
\* nothing but "." and "..".
DirEmpty(d) == \A e \in InDir(d) : e.name \notin Names

\* Read the directory, check write permission on it (the directory itself,
\* not its parent), check its type, scan it for entries other than "." and
\* "..", remember whether it has a "..", unlink it from the parent and hand
\* it to kill_file_by_inode.
RmdirInoCheck ==
    /\ pc.op = "rmdir_ino" /\ pc.step = "check"
    /\ LET d == pc.ino
           R == UnlinkEntry(pc.parent, pc.name, d)
           nonEmpty == ~DirEmpty(d)
           hasParent == \E e \in InDir(d) : e.name = DotDot
       IN \E rd \in Try("read_inode"), allowed \in BOOLEAN,
             it \in Try("dir_iterate"), un \in Try("ext2fs_unlink") :
            \/ /\ ~rd /\ Return("EIO") /\ Charge(<<rd>>) /\ UNCHANGED ents
            \/ /\ rd /\ ~allowed /\ Return("EACCES")
               /\ UNCHANGED <<ents, faults>>
            \/ /\ rd /\ allowed /\ ~IsDir(d) /\ Return("ENOTDIR")
               /\ UNCHANGED <<ents, faults>>
            \/ /\ rd /\ allowed /\ IsDir(d) /\ ~it
               /\ Return("EIO") /\ Charge(<<it>>) /\ UNCHANGED ents
            \/ /\ rd /\ allowed /\ IsDir(d) /\ it /\ nonEmpty
               /\ Return("ENOTEMPTY") /\ UNCHANGED <<ents, faults>>
            \/ /\ rd /\ allowed /\ IsDir(d) /\ it /\ ~nonEmpty
               /\ (~un \/ R = {}) /\ Return("EIO") /\ Charge(<<un>>)
               /\ UNCHANGED ents
            \/ /\ rd /\ allowed /\ IsDir(d) /\ it /\ ~nonEmpty /\ un
               /\ ents' \in R /\ UNCHANGED <<faults, rc>>
               /\ pc' = [op |-> "kill", step |-> "tomb", ino |-> d,
                         node |-> inode[d],
                         k |-> [pc EXCEPT !.step = "parent"]
                                 @@ [hasParent |-> hasParent]]
    /\ UNCHANGED <<inode, imap, bmap>>

\* After kill_file_by_inode: if a ".." was found, lower the parent's link
\* count unless it is 1.  read_inode and write_inode return 1 on failure,
\* which is passed on as the error code (EPERM).
RmdirInoParent ==
    /\ pc.op = "rmdir_ino" /\ pc.step = "parent"
    /\ IF ~pc.hasParent
       THEN Return("OK") /\ UNCHANGED <<inode, faults>>
       ELSE \E rd \in Try("read_inode"), wr \in Try("write_inode") :
              LET node == [inode[pc.parent] EXCEPT
                             !.links = IF @ > 1 THEN @ - 1 ELSE @]
              IN  /\ inode' = IF rd /\ wr
                              THEN [inode EXCEPT ![pc.parent] = node] ELSE inode
                  /\ Return(IF rd /\ wr THEN "OK" ELSE "EPERM")
                  /\ Charge(IF rd THEN <<wr>> ELSE <<rd>>)
    /\ UNCHANGED <<imap, bmap, ents>>

-----------------------------------------------------------------------------
(* op_mkdir, do_mkdir (src/ext2fs.c) and new_ext2fs_mkdir (src/mkdir.c) *)

MkdirStart(parent, name) ==
    /\ pc = Idle
    /\ LiveDir(parent) /\ name \in Names
    /\ inode[parent].links < MaxDirLinks
    /\ VfsChecks => Namei(parent, name) = {}
    /\ pc' = [op |-> "mkdir", step |-> "try", parent |-> parent, name |-> name,
              pre |-> imap]
    /\ UNCHANGED <<inode, imap, bmap, ents, rc, faults>>


\* Mutant: the new directory's block is never marked in the block bitmap
\* (ext2fs_block_alloc_stats left out).
MkdirTryNoBlockStats ==
    /\ pc.op = "mkdir" /\ pc.step = "try"
    /\ LET p == pc.parent
           n == pc.name
       IN
       \/ /\ (FreeInos = {} \/ FreeBlocks = {}) /\ Finish("EXT2_ERR")
          /\ UNCHANGED <<inode, imap, bmap, ents, faults>>
       \/ \E i \in FreeInos, b \in FreeBlocks :
            /\ imap' = imap \cup {i} /\ UNCHANGED bmap
            /\ inode' = [inode EXCEPT ![i] = [mode |-> "dir", links |-> 2,
                                   dtime |-> FALSE, blks |-> {b}]]
            /\ IF HasRoom(p) /\ Namei(p, n) = {}
               THEN /\ ents' = BagAdd(BagAdd(BagAdd(ents, EntryOf(i, Dot, i)),
                                   EntryOf(i, DotDot, p)), EntryOf(p, n, i))
                    /\ Finish("OK")
               ELSE /\ ents' = BagAdd(BagAdd(ents, EntryOf(i, Dot, i)),
                                      EntryOf(i, DotDot, p))
                    /\ Finish("EXT2_ERR")
            /\ UNCHANGED faults

\* One call of new_ext2fs_mkdir: pick an inode and a block, check write
\* permission on the parent, mark both in the bitmaps, write the directory
\* block ("." and "..") and the inode, look the name up, link it, and write
\* the parent's link count from the copy read before.  Every failure after
\* the bitmaps are marked leaves the inode and block allocated.
\* EXT2_ET_DIR_NO_SPACE from ext2fs_link sends do_mkdir to expand the
\* parent and call new_ext2fs_mkdir again from the start.
MkdirTry ==
    /\ pc.op = "mkdir" /\ pc.step = "try"
    /\ LET p == pc.parent
           n == pc.name
       IN
       \/ /\ (FreeInos = {} \/ FreeBlocks = {}) /\ Finish("EXT2_ERR")
          /\ UNCHANGED <<inode, imap, bmap, ents, faults>>
       \/ \E i \in FreeInos, b \in FreeBlocks, allowed \in BOOLEAN,
             wb \in Try("write_dir_block"), wi \in Try("write_new_inode"),
             ln \in Try("ext2fs_link"), wp \in Try("write_parent") :
            LET dirEnts == BagAdd(BagAdd(ents, EntryOf(i, Dot, i)),
                                  EntryOf(i, DotDot, p))
                newInode == [inode EXCEPT ![i] = [mode |-> "dir", links |-> 2,
                                       dtime |-> FALSE, blks |-> {b}]]
                parentUp == [newInode EXCEPT ![p].links = inode[p].links + 1]
            IN
            \/ /\ ~allowed /\ Finish("EACCES")
               /\ UNCHANGED <<inode, imap, bmap, ents, faults>>
            \/ /\ allowed /\ imap' = imap \cup {i} /\ bmap' = bmap \cup {b}
               /\ \/ /\ ~wb /\ Finish("EXT2_ERR") /\ Charge(<<wb>>)
                     /\ UNCHANGED <<inode, ents>>
                  \/ /\ wb /\ ~wi /\ Finish("EXT2_ERR") /\ Charge(<<wi>>)
                     /\ ents' = dirEnts /\ UNCHANGED inode
                  \* the name is already there: EXT2_ET_DIR_EXISTS
                  \/ /\ wb /\ wi /\ Namei(p, n) # {} /\ Finish("EXT2_ERR")
                     /\ ents' = dirEnts /\ inode' = newInode
                     /\ UNCHANGED faults
                  \/ /\ wb /\ wi /\ Namei(p, n) = {} /\ ~HasRoom(p)
                     /\ pc' = [pc EXCEPT !.step = "expand"]
                     /\ ents' = dirEnts /\ inode' = newInode
                     /\ UNCHANGED <<rc, faults>>
                  \/ /\ wb /\ wi /\ Namei(p, n) = {} /\ HasRoom(p) /\ ~ln
                     /\ Finish("EXT2_ERR") /\ Charge(<<ln>>)
                     /\ ents' = dirEnts /\ inode' = newInode
                  \/ /\ wb /\ wi /\ Namei(p, n) = {} /\ HasRoom(p) /\ ln
                     /\ ents' = BagAdd(dirEnts, EntryOf(p, n, i))
                     /\ inode' = IF wp THEN parentUp ELSE newInode
                     /\ Finish(IF wp THEN "OK" ELSE "EXT2_ERR")
                     /\ Charge(<<wp>>)

\* do_mkdir after EXT2_ET_DIR_NO_SPACE: ext2fs_expand_dir on the parent,
\* ENOSPC if that fails, otherwise try again.
MkdirExpand ==
    /\ pc.op = "mkdir" /\ pc.step = "expand"
    /\ \/ /\ FreeBlocks = {} /\ Finish("ENOSPC")
          /\ UNCHANGED <<inode, bmap, faults>>
       \/ \E b \in FreeBlocks, ex \in Try("expand_dir") :
            /\ inode' = IF ex THEN [inode EXCEPT ![pc.parent].blks = @ \cup {b}]
                        ELSE inode
            /\ bmap' = IF ex THEN bmap \cup {b} ELSE bmap
            /\ IF ex THEN pc' = [pc EXCEPT !.step = "try"] /\ UNCHANGED rc
                     ELSE Finish("ENOSPC")
            /\ Charge(<<ex>>)
    /\ UNCHANGED <<imap, ents>>

-----------------------------------------------------------------------------
(* op_rename and do_rename (src/rename.c) *)

\* Inputs: the kernel never renames an inode onto itself, never moves a
\* directory into its own subtree and never makes a hard link to a
\* directory.  With VfsChecks it also passes only directories it reached
\* by lookup, a source that exists and a target of a compatible type.
RenameArgs(parent, name, newparent, newname) ==
    /\ LiveDir(parent) /\ LiveDir(newparent) /\ {name, newname} \subseteq Names
    /\ VfsChecks => {parent, newparent} \subseteq ReachDirs
    /\ \A i \in Namei(parent, name), t \in Namei(newparent, newname) : i # t
    /\ \A i \in Namei(parent, name) :
          IsDir(i) => newparent \notin DirsBelow({i})
    /\ VfsChecks =>
          /\ Namei(parent, name) # {}
          /\ \A i \in Namei(parent, name), t \in Namei(newparent, newname) :
                IsDir(i) = IsDir(t)

\* The bound on an i_links_count that do_rename raises (the code has none,
\* and a count leaked by a failed rename is raised again by the next one):
\* MaxLinks for a file; for a directory one above MaxDirLinks, so that a
\* parent holding every other inode can still take a directory renamed
\* within it.  Only counts already leaked by failed renames reach it.
LinkBound(i) == IF IsDir(i) THEN MaxDirLinks + 1 ELSE MaxLinks

\* Resolve both names, then raise the link count of a file, or of the new
\* parent of a directory, and save it.
RenameStart(parent, name, newparent, newname) ==
    /\ pc = Idle
    /\ RenameArgs(parent, name, newparent, newname)
    /\ IF Namei(parent, name) = {}
       THEN Finish("ENOENT") /\ UNCHANGED <<inode, faults>>
       ELSE \E i \in Namei(parent, name),
               t \in IF Namei(newparent, newname) = {} THEN {NoIno}
                     ELSE Namei(newparent, newname),
               rd \in Try("read_inode"), wr \in Try("write_inode") :
              LET bump == IF IsDir(i) THEN newparent ELSE i
                  node == inode[i]
              IN
              /\ inode[bump].links < LinkBound(bump)
              /\ inode' = IF rd /\ wr
                          THEN [inode EXCEPT ![bump].links = @ + 1] ELSE inode
              /\ Charge(IF rd THEN <<wr>> ELSE <<rd>>)
              /\ IF rd /\ wr
                 THEN /\ pc' = [op |-> "rename", step |-> "link",
                                parent |-> parent, name |-> name,
                                newparent |-> newparent, newname |-> newname,
                                pre |-> [ents |-> ents, links |-> LinkCounts],
                                ino |-> i, target |-> t, isDir |-> IsDir(i),
                                node |-> [node EXCEPT !.links = @ + 1],
                                ret |-> "OK"]
                      /\ UNCHANGED rc
                 \* ext2fs_read_inode/ext2fs_write_inode codes are returned
                 \* as they are in the directory branch
                 ELSE Finish(IF ~IsDir(i) THEN "EIO" ELSE "EXT2_ERR")
    /\ UNCHANGED <<imap, bmap, ents>>

\* The rollback taken by every "goto cleanup", with ret the first error.
ToCleanup(ret) ==
    pc' = [pc EXCEPT !.step = "cleanup", !.ret = ret] /\ UNCHANGED rc

\* do_link(newparent, newname, ino): after it there are two entries named
\* newname in newparent when a target exists.
RenameLink ==
    /\ pc.op = "rename" /\ pc.step = "link"
    /\ \E r \in DoLink(pc.newparent, pc.newname, pc.ino) :
         /\ ApplyLink(r) /\ inode' = r.inode
         /\ IF ~r.ok THEN ToCleanup("EIO")
            ELSE /\ pc' = [pc EXCEPT !.step =
                             IF pc.target = NoIno THEN "old" ELSE "target"]
                 /\ UNCHANGED rc
    /\ UNCHANGED imap


\* Mutant: an existing target file is not unlinked.
RenameTargetSkipsFile ==
    /\ pc.op = "rename" /\ pc.step = "target"
    /\ \/ /\ pc.isDir /\ IsDir(pc.target)
          /\ pc' = [op |-> "rmdir_ino", step |-> "check",
                    parent |-> pc.newparent, name |-> pc.newname,
                    ino |-> pc.target, k |-> [pc EXCEPT !.step = "aftertarget"]]
       \/ /\ ~pc.isDir /\ ~IsDir(pc.target)
          /\ pc' = [pc EXCEPT !.step = "old"]
    /\ UNCHANGED <<inode, imap, bmap, ents, rc, faults>>

\* Remove the overwritten target: do_rmdir_on_ino for a directory,
\* do_unlink_on_ino for a file.  A file renamed over a directory returns
\* EISDIR at once, without the rollback.
RenameTarget ==
    /\ pc.op = "rename" /\ pc.step = "target"
    /\ LET t == pc.target
           sub(op) == [op |-> op, parent |-> pc.newparent,
                       name |-> pc.newname, ino |-> t,
                       k |-> [pc EXCEPT !.step = "aftertarget"]]
       IN \E rd \in Try("read_inode") :
            \/ /\ ~rd /\ ToCleanup("EIO") /\ Charge(<<rd>>)
            \/ /\ rd /\ pc.isDir /\ ~IsDir(t) /\ ToCleanup("ENOTDIR")
               /\ UNCHANGED faults
            \/ /\ rd /\ pc.isDir /\ IsDir(t) /\ UNCHANGED <<rc, faults>>
               /\ pc' = sub("rmdir_ino") @@ [step |-> "check"]
            \/ /\ rd /\ ~pc.isDir /\ IsDir(t) /\ Finish("EISDIR")
               /\ UNCHANGED faults
            \/ /\ rd /\ ~pc.isDir /\ ~IsDir(t) /\ UNCHANGED <<rc, faults>>
               /\ pc' = sub("unlink_ino") @@ [step |-> "read"]
    /\ UNCHANGED <<inode, imap, bmap, ents>>

RenameAfterTarget ==
    /\ pc.op = "rename" /\ pc.step = "aftertarget"
    /\ IF pc.sub = "OK" THEN pc' = [pc EXCEPT !.step = "old"] /\ UNCHANGED rc
                        ELSE ToCleanup(pc.sub)
    /\ UNCHANGED <<inode, imap, bmap, ents, faults>>


\* A file: do_unlink(parent, name, -1), which resolves the old name again.
\* A directory: do_link(ino, "..", newparent), then ext2fs_unlink of the
\* old ".." and of the old name.
RenameOld ==
    /\ pc.op = "rename" /\ pc.step = "old"
    /\ \/ /\ ~pc.isDir
          /\ IF Namei(pc.parent, pc.name) = {}
             THEN ToCleanup("ENOENT")
             ELSE \E j \in Namei(pc.parent, pc.name) :
                    /\ pc' = [op |-> "unlink_ino", step |-> "read",
                              parent |-> pc.parent, name |-> pc.name,
                              ino |-> j, k |-> [pc EXCEPT !.step = "afterold"]]
                    /\ UNCHANGED rc
          /\ UNCHANGED <<inode, bmap, ents, faults>>
       \/ /\ pc.isDir
          /\ \E r \in DoLink(pc.ino, DotDot, pc.newparent),
                u1 \in Try("ext2fs_unlink"), u2 \in Try("ext2fs_unlink") :
               LET R1 == {BagRemove(r.ents, e) : e \in {x \in DOMAIN r.ents :
                            x.dir = pc.ino /\ x.name = DotDot
                            /\ x.ino = pc.parent}}
                   R2(E) == {BagRemove(E, e) : e \in {x \in DOMAIN E :
                            x.dir = pc.parent /\ x.name = pc.name}}
               IN
               /\ inode' = r.inode /\ bmap' = r.bmap
               /\ \/ /\ ~r.ok /\ ents' = r.ents /\ ToCleanup("EIO")
                     /\ faults' = faults + r.nf
                  \/ /\ r.ok /\ (~u1 \/ R1 = {}) /\ ents' = r.ents
                     /\ ToCleanup("EIO") /\ faults' = faults + (IF u1 THEN 0 ELSE 1)
                  \/ /\ r.ok /\ u1 /\ \E E1 \in R1 :
                        \/ /\ (~u2 \/ R2(E1) = {}) /\ ents' = E1
                           /\ ToCleanup("EIO")
                           /\ faults' = faults + (IF u2 THEN 0 ELSE 1)
                        \/ /\ u2 /\ ents' \in R2(E1) /\ UNCHANGED faults
                           /\ pc' = [pc EXCEPT !.step = "oldparent"]
                           /\ UNCHANGED rc
    /\ UNCHANGED imap

\* The old parent no longer holds the directory: lower its link count.
\* A failure here returns at once, without the rollback.
RenameOldParent ==
    /\ pc.op = "rename" /\ pc.step = "oldparent"
    /\ \E rd \in Try("read_inode"), wr \in Try("write_inode") :
         /\ inode' = IF rd /\ wr
                     THEN [inode EXCEPT ![pc.parent].links = @ - 1] ELSE inode
         /\ Finish(IF rd /\ wr THEN "OK" ELSE "EXT2_ERR")
         /\ Charge(IF rd THEN <<wr>> ELSE <<rd>>)
    /\ UNCHANGED <<imap, bmap, ents>>

RenameAfterOld ==
    /\ pc.op = "rename" /\ pc.step = "afterold"
    /\ IF pc.sub = "OK" THEN Finish("OK") ELSE ToCleanup(pc.sub)
    /\ UNCHANGED <<inode, imap, bmap, ents, faults>>


\* Mutant: the rollback forgets to remove the newname entry.
RenameCleanupKeepsEntry ==
    /\ pc.op = "rename" /\ pc.step = "cleanup"
    /\ inode' = IF pc.isDir THEN [inode EXCEPT ![pc.newparent].links = @ - 1]
                ELSE [inode EXCEPT ![pc.ino] = [pc.node EXCEPT !.links = @ - 1]]
    /\ Finish(pc.ret)
    /\ UNCHANGED <<imap, bmap, ents, faults>>

\* Mutant: the cleanup returns 0 when it finds no newname entry to remove.
RenameCleanupNothingOK ==
    /\ pc.op = "rename" /\ pc.step = "cleanup"
    /\ LET R == UnlinkEntry(pc.newparent, pc.newname, pc.ino)
       IN \E un \in Try("ext2fs_unlink"), rd \in Try("read_inode"),
             wr \in Try("write_inode") :
            \/ /\ (~un \/ R = {}) /\ Finish("OK") /\ Charge(<<un>>)
               /\ UNCHANGED <<inode, ents>>
            \/ /\ un /\ ents' \in R /\ ~pc.isDir
               /\ inode' = IF wr THEN [inode EXCEPT ![pc.ino] =
                                         [pc.node EXCEPT !.links = @ - 1]]
                           ELSE inode
               /\ Finish(IF wr THEN "OK" ELSE "EIO") /\ Charge(<<wr>>)
            \/ /\ un /\ ents' \in R /\ pc.isDir
               /\ inode' = IF rd /\ wr
                           THEN [inode EXCEPT ![pc.newparent].links = @ - 1]
                           ELSE inode
               /\ Finish(pc.ret) /\ Charge(IF rd THEN <<wr>> ELSE <<rd>>)
    /\ UNCHANGED <<imap, bmap>>

\* cleanup: remove the entry newname -> ino (if there is none, return ret
\* with nothing reverted), then write the saved copy of the file's inode
\* with its count lowered again, or lower the new parent's count.  For a
\* file, "ret = write_inode(...)" sets ret to 0 when the write succeeds.
RenameCleanup ==
    /\ pc.op = "rename" /\ pc.step = "cleanup"
    /\ LET R == UnlinkEntry(pc.newparent, pc.newname, pc.ino)
       IN \E un \in Try("ext2fs_unlink"), rd \in Try("read_inode"),
             wr \in Try("write_inode") :
            \/ /\ (~un \/ R = {}) /\ Finish(pc.ret) /\ Charge(<<un>>)
               /\ UNCHANGED <<inode, ents>>
            \/ /\ un /\ ents' \in R /\ ~pc.isDir
               /\ inode' = IF wr THEN [inode EXCEPT ![pc.ino] =
                                         [pc.node EXCEPT !.links = @ - 1]]
                           ELSE inode
               /\ Finish(IF wr THEN "OK" ELSE "EIO") /\ Charge(<<wr>>)
            \/ /\ un /\ ents' \in R /\ pc.isDir
               /\ inode' = IF rd /\ wr
                           THEN [inode EXCEPT ![pc.newparent].links = @ - 1]
                           ELSE inode
               /\ Finish(pc.ret) /\ Charge(IF rd THEN <<wr>> ELSE <<rd>>)
    /\ UNCHANGED <<imap, bmap>>

-----------------------------------------------------------------------------

Next ==
    \/ \E p \in Inos, n \in Names :
          \/ CreateInode(p, n) \/ UnlinkStart(p, n)
          \/ RmdirStart(p, n) \/ MkdirStart(p, n)
    \/ \E i, p \in Inos, n \in Names : LinkStart(i, p, n)
    \/ \E p, q \in Inos, n, m \in Names : RenameStart(p, n, q, m)
    \/ CreateLink \/ UnlinkInoRead \/ UnlinkInoSave \/ KillTomb \/ KillRelease
    \/ LinkDo \/ RmdirInoCheck \/ RmdirInoParent \/ MkdirTry \/ MkdirExpand
    \/ RenameLink \/ RenameTarget \/ RenameAfterTarget \/ RenameOld
    \/ RenameAfterOld \/ RenameOldParent \/ RenameCleanup

Spec == Init /\ [][Next]_vars

-----------------------------------------------------------------------------
(* Properties *)

\* Every field of the disk state has its type; the handler record names a
\* handler of this module.
TypeOK ==
    /\ inode \in [Inos -> Inode]
    /\ imap \subseteq Inos /\ Root \in imap
    /\ bmap \subseteq Blocks
    /\ IsABag(ents) /\ DOMAIN ents \subseteq Entry
    /\ pc.op \in {"idle", "create", "unlink_ino", "kill", "link", "rmdir_ino",
                  "mkdir", "rename"}
    /\ rc \in Codes
    /\ faults \in 0..MaxFaults


\* Inodes named by the entries of reachable directories.
NameEntries == {e \in DOMAIN ents : e.dir \in ReachDirs /\ e.name \in Names}

\* No name leads to a freed inode.  do_unlink_on_ino, do_rmdir_on_ino and
\* kill_file_by_inode remove the entry before they release the inode, so
\* that "in the worst case we get an unreachable inode with a +ve link
\* count, as opposed to a reachable non-existant inode" (ext2fs.c).
NoDanglingEntry == \A e \in NameEntries : Live(e.ino)

\* An inode has at least as many links as entries reach it.  For a file
\* this holds in every state, also between the steps of a handler: op_link
\* and do_rename raise the count before they add the entry, the unlink
\* paths remove the entry before they lower it.  A directory being renamed
\* has two names for a while (rename.c: "we will have 2 same-name
\* entries"), so for directories it is required between requests.  A count
\* below the entries frees an inode that is still named.
LinksCoverRefs ==
    \A i \in Reachable :
        Live(i) /\ (~IsDir(i) \/ pc = Idle) => inode[i].links >= Refs(i)

\* Between requests, no directory holds the same name twice.  do_rename
\* makes a second newname entry on purpose and must remove one of the two
\* before it returns, on success and on failure.
UniqueNames ==
    pc = Idle =>
        \A d \in ReachDirs, n \in Names :
            BagCardinality([e \in {x \in InDir(d) : x.name = n} |-> ents[e]]) <= 1

\* The blocks of live inodes are marked in the block bitmap and no block
\* belongs to two live inodes: an allocation never hands out a block in use.
BlocksOwned ==
    /\ \A i \in Inos : Live(i) => inode[i].blks \subseteq bmap
    /\ \A i, j \in Inos : Live(i) /\ Live(j) /\ i # j =>
                             inode[i].blks \cap inode[j].blks = {}

\* The end of a do_rename call: the step after which the handler is idle.
RenameEnds == pc.op = "rename" /\ pc' = Idle

\* A rename that fails leaves the directory entries as they were: the
\* "goto cleanup" path of do_rename removes the newname entry it added.
RenameFailureKeepsEntries ==
    [][RenameEnds /\ rc' # "OK" => ents' = pc.pre.ents]_vars

\* A rename that fails leaves every link count as it was: the cleanup path
\* lowers again the count that do_rename raised at its start.
RenameFailureKeepsLinkCounts ==
    [][RenameEnds /\ rc' # "OK" => LinkCounts' = pc.pre.links]_vars

\* A rename that reports success has moved the inode: newname leads to it
\* and the old name no longer does.
RenameReplyTruthful ==
    [][RenameEnds /\ rc' = "OK" =>
         \E r \in {pc} : /\ r.ino \in Namei(r.newparent, r.newname)'
                         /\ r.ino \notin Namei(r.parent, r.name)']_vars

\* An rmdir that replies an error has not removed the name: do_rmdir_on_ino
\* reads and writes the parent's link count after the entry is unlinked
\* and the directory freed, and returns that call's error as its reply.
RmdirErrorKeepsName ==
    [][pc.op = "rmdir_ino" /\ pc' = Idle /\ rc' # "OK" =>
         \E r \in {pc} : r.ino \in Namei(r.parent, r.name)']_vars

\* A mkdir that succeeds allocates exactly one inode: do_mkdir's retry after
\* EXT2_ET_DIR_NO_SPACE must not leave the first attempt's inode behind.
MkdirAllocatesOnce ==
    [][pc.op = "mkdir" /\ pc' = Idle /\ rc' = "OK" =>
         Cardinality(imap' \ pc.pre) = 1]_vars
=============================================================================
