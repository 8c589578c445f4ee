----------------------------- MODULE Ext2Atomic -----------------------------
(***************************************************************************)
(* The namespace handlers of fuse-ext2fs run in steps, and between them   *)
(* the directories show a state no POSIX operation produces: do_rename    *)
(* has two entries named newname while it works ("we will have 2         *)
(* same-name entries in the newparent!").  The kernel sees the namespace  *)
(* only between requests (fuse_session_loop takes the next request once   *)
(* a handler replied), so the handlers implement PosixNamespace when each *)
(* request, seen from its start to its reply, is one of its operations or *)
(* none.  The history variable told holds the namespace the kernel was    *)
(* last shown: the directories' names whenever no request is in progress, *)
(* and during one what they were when it began.  It changes nothing the   *)
(* handlers do.                                                           *)
(***************************************************************************)
EXTENDS Ext2Namespace

VARIABLE told   \* the namespace as the kernel last saw it

\* The entries the kernel can reach by lookups from the root, with the kind
\* of the inode each leads to.
View == {[dir |-> e.dir, name |-> e.name, ino |-> e.ino, sub |-> IsDir(e.ino)]
           : e \in NameEntries}

HInit == Init /\ told = View

HNext ==
    /\ Next
    /\ told' = IF pc' = Idle THEN View' ELSE told

hvars == <<vars, told>>

HSpec == HInit /\ [][HNext]_hvars

Namespace == INSTANCE PosixNamespace WITH tree <- told

\* Seen between requests, every namespace request of fuse-ext2fs is one
\* atomic POSIX create, mkdir, link, unlink, rmdir or rename, or changes
\* no name: no reply leaves a half-done rename, a removed target without
\* its replacement, or a name whose inode changed kind.
ImplementsNamespace == Namespace!ASpec
=============================================================================
