----------------------------- MODULE Ext2Readdir -----------------------------
(***************************************************************************)
(* Directory listing (readdir.c) against concurrent changes of the same   *)
(* directory.  op_readdir builds, on every request, the whole listing of  *)
(* the directory as a buffer of fuse dirents (do_dir_iterate, walk_dir,   *)
(* dirbuf_add) and replies the bytes from the request's offset on         *)
(* (reply_buf_limited).  The kernel resumes the next request at the       *)
(* offset stored in the last whole dirent it consumed, so the offset is a *)
(* byte position in a buffer that the next request rebuilds from the      *)
(* directory as it is then.                                                *)
(*                                                                         *)
(* The directory is kept as libext2fs lays it out: a sequence of blocks,  *)
(* each a sequence of records [name, cap] where cap is rec_len.           *)
(* ext2fs_link fills the first record with room (splitting a live record  *)
(* with slack), ext2fs_expand_dir appends a block, ext2fs_unlink merges   *)
(* the record into the one before it, or clears the first of its block.   *)
(* Names are model values with a length; record and dirent sizes are      *)
(* computed from it.                                                       *)
(***************************************************************************)
EXTENDS Integers, Sequences, SequencesExt, FiniteSets

CONSTANTS
    Names,               \* names created and removed in the directory
    Dot, DotDot,         \* "." and ".."
    Empty,               \* the name of a record whose inode is 0
    NameLen,             \* the length of each name, "." and ".." included
    BlockBytes,          \* fs->blocksize
    MaxDirBlocks,        \* blocks the directory may grow to
    ReplySize,           \* the size of a readdir request (the kernel's page)
    ChangeDuringListing  \* whether create/unlink may run while a listing is open

ASSUME /\ Empty \notin Names \cup {Dot, DotDot}
       /\ MaxDirBlocks \in Nat \ {0}
       /\ ChangeDuringListing \in BOOLEAN

VARIABLES
    dir,      \* the directory's blocks of records
    state,    \* the listing: "none", "open", "eof", "eio" or "garbled"
    pos,      \* the kernel's position in the open listing (ctx->pos)
    got,      \* how often the listing has returned each name (up to 2)
    start,    \* the names in the directory when the listing was opened
    changed   \* names created or removed while the listing was open

vars == <<dir, state, pos, got, start, changed>>

\* EXT2_DIR_REC_LEN and FUSE_DIRENT_SIZE
RecLen(n) == ((NameLen[n] + 8 + 3) \div 4) * 4
DirentSize(n) == ((24 + NameLen[n] + 7) \div 8) * 8

\* The records of all blocks, in the order the iterator visits them.
RECURSIVE Concat(_)
Concat(S) == IF S = <<>> THEN <<>> ELSE Head(S) \o Concat(Tail(S))

Records == Concat(dir)
InDir == {Records[k].name : k \in DOMAIN Records} \ {Empty}

-----------------------------------------------------------------------------
(* op_readdir's buffer *)

\* do_dir_iterate(ino, 0, walk_dir, &b): the live records in on-disk order;
\* walk_dir adds each one to the buffer.
Listed ==
    LET live == SelectSeq(Records, LAMBDA r : r.name # Empty)
    IN  [k \in DOMAIN live |-> live[k].name]

\* The bytes the dirents of the names in S take.
RECURSIVE Bytes(_)
Bytes(S) == IF S = <<>> THEN 0 ELSE DirentSize(Head(S)) + Bytes(Tail(S))

\* Mutant: the dirent's off is the buffer size before it was added.
EndOfStart(L, k) == IF k = 0 THEN 0 ELSE Bytes(SubSeq(L, 1, k - 1))

\* dirbuf_add: b->size grows by the dirent's size and fuse_add_dirent
\* stores the new b->size as the dirent's off: the offset after the first
\* k dirents of L.
EndOf(L, k) == Bytes(SubSeq(L, 1, k))

\* reply_buf_limited: the reply starts off bytes into the buffer.
ReplyStart(off) == off

AllNames == Names \cup {Dot, DotDot}

\* got after the names of the sequence S were returned once more.
Count(S) == [n \in AllNames |->
                IF got[n] < 2 /\ \E k \in DOMAIN S : S[k] = n
                THEN got[n] + 1 ELSE got[n]]

-----------------------------------------------------------------------------
(* The directory: ext2fs_link and ext2fs_unlink *)

\* A record that can take a new entry named n.
Fits(r, n) ==
    IF r.name = Empty THEN r.cap >= RecLen(n)
    ELSE r.cap - RecLen(r.name) >= RecLen(n)

LinkAt(b, i, n) ==
    LET blk == dir[b]
        r   == blk[i]
    IN  IF r.name = Empty
        THEN [dir EXCEPT ![b][i].name = n]
        ELSE [dir EXCEPT ![b] =
                 InsertAt([blk EXCEPT ![i].cap = RecLen(r.name)], i + 1,
                          [name |-> n, cap |-> r.cap - RecLen(r.name)])]

UnlinkAt(b, i) ==
    LET blk == dir[b]
    IN  IF i > 1
        THEN [dir EXCEPT ![b] =
                 RemoveAt([blk EXCEPT ![i - 1].cap = blk[i - 1].cap + blk[i].cap], i)]
        ELSE [dir EXCEPT ![b][1].name = Empty]

Places == UNION {{<<b, i>> : i \in 1..Len(dir[b])} : b \in DOMAIN dir}
Before(p, q) == p[1] < q[1] \/ (p[1] = q[1] /\ p[2] < q[2])

\* A change is made while no listing is open, or, when the configuration
\* says so, while one is.
Changing(n) ==
    /\ state = "open" => ChangeDuringListing
    /\ changed' = IF state = "open" THEN changed \cup {n} ELSE changed

Init ==
    /\ dir = << << [name |-> Dot, cap |-> RecLen(Dot)],
                   [name |-> DotDot, cap |-> BlockBytes - RecLen(Dot)] >> >>
    /\ state = "none" /\ pos = 0 /\ got = [n \in AllNames |-> 0]
    /\ start = {}
    /\ changed = {}

\* do_create / do_mkdir / op_link reach do_link: ext2fs_link takes the
\* first record with room; with none, ext2fs_expand_dir adds a block and
\* the second ext2fs_link fills it.  The kernel asks only for absent names.
Link(n) ==
    /\ n \notin InDir
    /\ Changing(n)
    /\ LET fit == {p \in Places : Fits(dir[p[1]][p[2]], n)}
       IN  \/ \E p \in fit :
                /\ \A q \in fit : ~Before(q, p)
                /\ dir' = LinkAt(p[1], p[2], n)
           \/ /\ fit = {} /\ Len(dir) < MaxDirBlocks
              /\ dir' = Append(dir, << [name |-> n, cap |-> BlockBytes] >>)
    /\ UNCHANGED <<state, pos, got, start>>

\* do_unlink_on_ino / do_rmdir_on_ino: ext2fs_unlink of the entry.
Unlink(n) ==
    /\ n \in InDir
    /\ Changing(n)
    /\ \E p \in Places :
         /\ dir[p[1]][p[2]].name = n
         /\ dir' = UnlinkAt(p[1], p[2])
    /\ UNCHANGED <<state, pos, got, start>>

\* op_opendir (op_open): a new directory stream at position 0.
OpenDir ==
    /\ state # "open"
    /\ state' = "open" /\ pos' = 0 /\ got' = [n \in AllNames |-> 0]
    /\ start' = InDir /\ changed' = {}
    /\ UNCHANGED dir

\* op_readdir whose do_dir_iterate fails: the reply is EIO and the
\* listing ends with the error.
ReaddirFail ==
    /\ state = "open" /\ state' = "eio"
    /\ UNCHANGED <<dir, pos, got, start, changed>>

\* op_readdir at the kernel's position: check_perms (off) passes, the
\* iteration succeeds, and reply_buf_limited sends nothing at or past
\* the end (the listing ends), or the bytes from pos on.  The kernel
\* consumes the whole dirents among them and moves to the off of the last;
\* when pos is not the start of a dirent it parses bytes from the middle
\* of one.  The buffer and its offsets are bound once per request, as
\* op_readdir builds them once.
Readdir ==
    /\ state = "open"
    /\ \E L \in {Listed} :
       \E off \in {[k \in 0..Len(L) |-> EndOf(L, k)]} :
         LET total == off[Len(L)]
         IN  \/ /\ pos >= total
                /\ state' = "eof" /\ UNCHANGED <<pos, got>>
             \/ /\ pos < total /\ \A k \in 0..Len(L) : off[k] # ReplyStart(pos)
                /\ state' = "garbled" /\ UNCHANGED <<pos, got>>
             \/ \E k \in 0..Len(L) :
                  /\ pos < total /\ off[k] = ReplyStart(pos)
                  /\ LET j == Max({m \in k..Len(L) : off[m] <= off[k] + ReplySize})
                     IN  /\ got' = Count(SubSeq(L, k + 1, j))
                         /\ pos' = off[j]
                  /\ UNCHANGED state
    /\ UNCHANGED <<dir, start, changed>>

Next ==
    \/ \E n \in Names : Link(n) \/ Unlink(n)
    \/ OpenDir
    \/ Readdir
    \/ ReaddirFail

Spec == Init /\ [][Next]_vars

-----------------------------------------------------------------------------
(* Properties *)

\* Once a listing ends at its end, every name that was in the directory
\* when it was opened and was neither created nor removed since has been
\* returned exactly once, and every name returned was in the directory
\* at some point of the listing; no request parses a dirent from its middle.
ListingExact ==
    /\ state # "garbled"
    /\ state = "eof" =>
         /\ \A n \in start \ changed : got[n] = 1
         /\ \A n \in AllNames : got[n] > 0 => n \in start \cup changed

\* A listing during which the directory did not change returns it exactly:
\* the offsets dirbuf_add stores and reply_buf_limited's slicing page
\* through the buffer without a gap or an overlap.
ListingExactIfUnchanged == changed = {} => ListingExact
=============================================================================
