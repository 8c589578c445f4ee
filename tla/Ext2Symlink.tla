----------------------------- MODULE Ext2Symlink -----------------------------
(***************************************************************************)
(* Symbolic links (symlink.c): op_symlink makes the link with do_create,   *)
(* opens it with do_open, writes the target and its NUL with do_write      *)
(* (ext2fs_file_write into the handle's buffer, allocating the block, then *)
(* set_file_size) and closes it with do_file_close, which flushes the      *)
(* buffer.  op_readlink reads the inode; a link without blocks is a fast   *)
(* link whose target is copied out of i_block, any other is read through a *)
(* handle into a buffer of i_size + 1 bytes.                               *)
(*                                                                         *)
(* FUSE's single-threaded loop runs each request to its reply, so each     *)
(* handler is one action; its failure point is drawn among the libext2fs   *)
(* calls it makes.  A target is a model value with a length; a byte string *)
(* read back is a target, Empty (a NUL first) or Garbage (the target or    *)
(* nothing, followed by bytes the program never wrote).                    *)
(***************************************************************************)
EXTENDS Integers, FiniteSets

CONSTANTS
    Names,      \* names in the parent directory
    Inos,       \* inode numbers
    Targets,    \* link targets
    TLen,       \* strlen of each target
    FastBytes,  \* bytes of i_block (EXT2_N_BLOCKS * 4)
    Kernel,     \* links on the mounted fs made by the Linux ext2 driver:
                \* a set of [name, ino, t]
    MaxFaults,  \* libext2fs calls that may fail in a behaviour
    FaultSites, \* the calls that may fail: those of SymlinkFaults and
                \* UnlinkFaults, and "readlink"
    NoIno, Empty, Garbage, Junk

ASSUME /\ \A k \in Kernel : k.name \in Names /\ k.ino \in Inos /\ k.t \in Targets
       /\ MaxFaults \in Nat

VARIABLES
    ents,    \* the parent directory: the inode of each name, or NoIno
    inode,   \* the inode table: [used, links, dtime, size, blocks, fast];
             \* used is the inode's bit in the inode bitmap
    data,    \* the bytes in each inode's data block: [t, nul]
    made,    \* per inode, the target of the op_symlink that last took it,
             \* if that one replied success
    reply,   \* the last reply: [op, ino, ok, out]
    faults   \* failures so far

vars == <<ents, inode, data, made, reply, faults>>

NoInode == [used |-> FALSE, links |-> 0, dtime |-> FALSE, size |-> 0,
            blocks |-> FALSE, fast |-> Empty]
Unwritten == [t |-> Junk, nul |-> FALSE]

\* The Linux driver keeps a target with its NUL in i_block when it fits,
\* and otherwise writes strlen bytes to a block and sets i_size = strlen.
KernelInode(k) ==
    LET fast == TLen[k.t] + 1 <= FastBytes
    IN  [used |-> TRUE, links |-> 1, dtime |-> FALSE, size |-> TLen[k.t],
         blocks |-> ~fast, fast |-> IF fast THEN k.t ELSE Empty]

Init ==
    /\ ents = [n \in Names |->
                 IF \E k \in Kernel : k.name = n
                 THEN (CHOOSE k \in Kernel : k.name = n).ino ELSE NoIno]
    /\ inode = [i \in Inos |->
                 IF \E k \in Kernel : k.ino = i
                 THEN KernelInode(CHOOSE k \in Kernel : k.ino = i) ELSE NoInode]
    /\ data = [i \in Inos |->
                 IF \E k \in Kernel : k.ino = i /\ TLen[k.t] + 1 > FastBytes
                 THEN [t |-> (CHOOSE k \in Kernel : k.ino = i).t, nul |-> TRUE]
                 ELSE Unwritten]
    /\ made = [i \in Inos |-> NoIno]
    /\ reply = [op |-> "none", ino |-> NoIno, ok |-> FALSE, out |-> Empty]
    /\ faults = 0

Named(i) == \E n \in Names : ents[n] = i

\* The calls of a set that may fail in the next step.
Failing(sites) == IF faults < MaxFaults THEN sites \cap FaultSites ELSE {}

-----------------------------------------------------------------------------
(* op_symlink *)

\* do_create: a zeroed inode, link count 1, i_size 0, i_block all zero.
NewInode == [NoInode EXCEPT !.used = TRUE, !.links = 1]

\* The length do_write is asked for: strlen(link) + 1.
SymlinkBytes(t) == TLen[t] + 1

\* The failures op_symlink can meet, by the call that fails: do_create
\* before the link ("create") or in do_link ("link"), do_open, the
\* ext2fs_file_write of do_write (no block mapped), set_file_size's
\* ext2fs_write_inode, and the flush of do_file_close.
SymlinkFaults == {"create", "link", "open", "write", "size", "close"}

\* ext2fs_file_write copies the bytes into the handle's buffer and maps a
\* block (ext2fs_bmap2 writes the inode); set_file_size writes i_size; the
\* buffer reaches the block only when do_file_close flushes it.  Every
\* failure after do_link replies the error with the name in place, and a
\* failure in do_write or set_file_size returns without closing the handle.
SymlinkOnIno(n, t, i) ==
    LET w == SymlinkBytes(t)
        mapped == [NewInode EXCEPT !.blocks = TRUE]
    IN  \E f \in {"ok"} \cup Failing(SymlinkFaults) :
         /\ ents' = IF f \in {"create", "link"} THEN ents ELSE [ents EXCEPT ![n] = i]
         /\ inode' = [inode EXCEPT ![i] =
                        CASE f = "create"                   -> NoInode
                          [] f \in {"link", "open", "write"} -> NewInode
                          [] f = "size"                     -> mapped
                          [] OTHER                          -> [mapped EXCEPT !.size = w]]
         /\ data' = [data EXCEPT ![i] =
                       IF f = "ok" THEN [t |-> t, nul |-> w > TLen[t]]
                       ELSE Unwritten]
         /\ made' = [made EXCEPT ![i] = IF f = "ok" THEN t ELSE NoIno]
         /\ faults' = IF f = "ok" THEN faults ELSE faults + 1
         /\ reply' = [op |-> "symlink", ino |-> i, ok |-> f = "ok", out |-> Empty]

\* op_symlink of n -> t; the kernel asks only for an absent name.  With no
\* free inode ext2fs_new_inode fails and do_create returns ENOSPC.
Symlink(n, t) ==
    /\ ents[n] = NoIno
    /\ \/ /\ \A j \in Inos : inode[j].used
          /\ reply' = [op |-> "symlink", ino |-> NoIno, ok |-> FALSE, out |-> Empty]
          /\ UNCHANGED <<ents, inode, data, made, faults>>
       \/ /\ \E j \in Inos : ~inode[j].used
          /\ SymlinkOnIno(n, t, CHOOSE j \in Inos : ~inode[j].used)

-----------------------------------------------------------------------------
(* op_readlink *)

\* What the reply can carry: strcpy from i_block for a link without
\* blocks; otherwise the i_size bytes do_read puts in a buffer of
\* i_size + 1 whose last byte is never set, so the reply ends at the first
\* NUL among them or runs into the unset byte.
Fetched(i) ==
    LET n == inode[i]
        d == data[i]
    IN  CASE ~n.blocks                                   -> {n.fast}
          [] d.t \in Targets /\ n.size > TLen[d.t] /\ d.nul -> {d.t}
          [] d.t \in Targets /\ n.size = TLen[d.t]        -> {d.t, Garbage}
          [] OTHER                                     -> {Empty, Garbage}

\* read_inode, and for a slow link do_open, do_read (which writes the
\* handle's inode back) and do_file_close; any of them can fail, and the
\* reply is then the error.
Readlink(i) ==
    /\ Named(i)
    /\ \/ \E s \in Fetched(i) :
            /\ reply' = [op |-> "readlink", ino |-> i, ok |-> TRUE, out |-> s]
            /\ UNCHANGED faults
       \/ /\ "readlink" \in Failing({"readlink"})
          /\ reply' = [op |-> "readlink", ino |-> i, ok |-> FALSE, out |-> Empty]
          /\ faults' = faults + 1
    /\ UNCHANGED <<ents, inode, data, made>>

-----------------------------------------------------------------------------
(* op_unlink of a link: do_unlink, do_unlink_on_ino, kill_file_by_inode *)

\* ext2fs_inode_has_valid_blocks for a link without an EA block: only a
\* link with i_blocks != 0 has blocks to iterate.
ValidBlocks(n) == n.blocks

\* The failures op_unlink can meet: ext2fs_namei or read_inode ("read",
\* the reply is the error), ext2fs_unlink (its error is only logged), and
\* kill_file_by_inode's write_inode ("tomb", it returns at once).
UnlinkFaults == {"read", "unlink", "tomb"}

\* kill_file_by_inode: link count 0 and dtime written; an inode without
\* valid blocks is left there; otherwise release_blocks_proc frees and
\* wipes each block (test_wipe_block writes a pattern to the device) and
\* the inode's bit is cleared.
Killed(n) ==
    LET dead == [n EXCEPT !.links = 0, !.dtime = TRUE]
    IN  IF ValidBlocks(n) THEN [dead EXCEPT !.used = FALSE] ELSE dead

Unlink(nm) ==
    /\ ents[nm] # NoIno
    /\ LET i == ents[nm]
       IN  \E f \in {"ok"} \cup Failing(UnlinkFaults) :
             /\ ents' = IF f \in {"read", "unlink"} THEN ents ELSE [ents EXCEPT ![nm] = NoIno]
             /\ inode' = IF f \in {"read", "tomb"} THEN inode
                         ELSE [inode EXCEPT ![i] = Killed(inode[i])]
             /\ data' = IF f \in {"read", "tomb"} \/ ~ValidBlocks(inode[i]) THEN data
                        ELSE [data EXCEPT ![i] = Unwritten]
             /\ faults' = IF f = "ok" THEN faults ELSE faults + 1
             /\ reply' = [op |-> "unlink", ino |-> i, ok |-> f # "read", out |-> Empty]
    /\ UNCHANGED made

Next ==
    \/ \E n \in Names, t \in Targets : Symlink(n, t)
    \/ \E i \in Inos : Readlink(i)
    \/ \E n \in Names : Unlink(n)

Spec == Init /\ [][Next]_vars

-----------------------------------------------------------------------------
(* Properties *)

\* op_readlink never replies bytes that are not on disk: every successful
\* reply is a whole target or empty, never a string running past i_size.
ReadlinkNeverGarbage ==
    reply.op = "readlink" /\ reply.ok => reply.out # Garbage

\* kill_file_by_inode frees every inode it marks deleted: an inode with
\* its dtime set is clear in the inode bitmap.
DeletedInodesFreed == \A i \in Inos : inode[i].dtime => ~inode[i].used

\* An op_symlink that replies an error leaves no new name behind.
SymlinkErrorLeavesNoName ==
    reply.op = "symlink" /\ ~reply.ok => ~Named(reply.ino)
=============================================================================
