---------------------------- MODULE Ext2Truncate ----------------------------
(***************************************************************************)
(* do_shorten (truncate.c): the new size is written, ext2fs_block_iterate  *)
(* with BLOCK_FLAG_DEPTH_TRAVERSE calls truncate_blocks_proc on every      *)
(* block of the file, data blocks in order and each indirect block after   *)
(* the blocks below it, and the callback frees data blocks past the last   *)
(* one to keep and, through the sticky delete_indirect_flags, the          *)
(* indirect blocks that map only freed blocks.  The inode is then read     *)
(* again and i_blocks set from the blocks the callback counted.            *)
(*                                                                         *)
(* A block is <<0, d>> for data block d, or <<l, lo>> for the indirect     *)
(* block of level l (1 single, 2 double, 3 triple) whose first data block  *)
(* is lo.  The file is dense: do_lengthen writes its gaps.                 *)
(***************************************************************************)
EXTENDS Integers, Sequences, FiniteSets

CONSTANTS
    NInd,       \* num_in_indirect_block = blocksize / sizeof(__u32)
    BlockSize,  \* fs->blocksize, in units of the file length
    MaxBlocks,  \* the largest file, in data blocks
    Faults      \* whether the libext2fs calls can fail

ASSUME NInd >= 2 /\ BlockSize >= 1 /\ MaxBlocks \in Nat /\ Faults \in BOOLEAN

VARIABLES
    n,       \* data blocks of the file when do_shorten is called
    size,    \* i_size on disk
    length,  \* the requested length
    alloc,   \* the blocks the inode maps and the bitmap marks in use
    next,    \* the next data block the iterator visits
    pend,    \* indirect blocks to visit before the next data block
    flags,   \* info.delete_indirect_flags
    total,   \* info.total_num_blocks
    iblocks, \* i_blocks on disk, in blocks
    phase,   \* "start", "iterate", "reread" or "done"
    rc       \* the reply

vars == <<n, size, length, alloc, next, pend, flags, total, iblocks, phase, rc>>

NDIR == 12                      \* EXT2_NDIR_BLOCKS
DIND0 == NDIR + NInd            \* first data block under i_block[DIND]
TIND0 == DIND0 + NInd * NInd    \* first data block under i_block[TIND]

Ok == IF Faults THEN BOOLEAN ELSE {TRUE}

Data(d) == <<0, d>>

\* Data blocks of a file of length len, and of that many blocks.
NBlocks(len) == (len + BlockSize - 1) \div BlockSize

\* Whether data block d has an indirect block of level l above it, the
\* first data block of its region, and that of the level-l block above it.
HasAnc(d, l) == d >= CASE l = 1 -> NDIR [] l = 2 -> DIND0 [] l = 3 -> TIND0
Base(d) == CASE d < DIND0 -> NDIR [] d < TIND0 -> DIND0 [] OTHER -> TIND0
Lo(d, l) == Base(d) + ((d - Base(d)) \div NInd^l) * NInd^l

Ancestors(d) == {<<l, Lo(d, l)>> : l \in {l \in 1..3 : HasAnc(d, l)}}

FileBlocks(k) ==
    {Data(d) : d \in 0..k-1} \cup UNION {Ancestors(d) : d \in 0..k-1}

\* The blocks a file of length len needs: the reference the shortened
\* inode is checked against.
Needed(len) == FileBlocks(NBlocks(len))

\* ext2fs_block_iterate with BLOCK_FLAG_DEPTH_TRAVERSE: after data block d
\* of a k-block file, the indirect blocks whose last mapped block is d are
\* visited, innermost first.
Closing(d, k) ==
    LET ls == SelectSeq(<<1, 2, 3>>, LAMBDA l :
                  HasAnc(d, l) /\ (d + 1 = k \/ Lo(d + 1, l) # Lo(d, l)))
    IN  [i \in 1..Len(ls) |-> <<ls[i], Lo(d, ls[i])>>]

\* info.last_block_to_keep
LastToKeep == IF length = 0 THEN -1 ELSE (length - 1) \div BlockSize

\* Mutant: the last block to keep is freed too.
FreedFromLastKept(d) == d >= LastToKeep

\* The callback frees data block d (blockcnt > last_block_to_keep).
Freed(d) == d > LastToKeep

-----------------------------------------------------------------------------

Init ==
    /\ n \in 0..MaxBlocks
    /\ size \in (IF n = 0 THEN 0 ELSE (n - 1) * BlockSize + 1)..(n * BlockSize)
    /\ length \in 0..size
    /\ alloc = FileBlocks(n)
    /\ next = 0 /\ pend = <<>> /\ flags = {} /\ total = 0
    /\ iblocks = Cardinality(alloc)
    /\ phase = "start" /\ rc = "none"

\* do_shorten up to the iterator: an unchanged length returns 0, otherwise
\* set_file_size writes the new size (its error is returned).
DoShorten ==
    /\ phase = "start"
    /\ \/ /\ length = size
          /\ phase' = "done" /\ rc' = "OK" /\ UNCHANGED size
       \/ /\ length < size
          /\ \E ok \in Ok :
               IF ok THEN size' = length /\ phase' = "iterate" /\ UNCHANGED rc
               ELSE phase' = "done" /\ rc' = "ERR" /\ UNCHANGED size
    /\ UNCHANGED <<n, length, alloc, next, pend, flags, total, iblocks>>

\* Mutant: the single indirect flag is never set within DIND and TIND.
DelFlagsNoSingle(d) ==
    LET j == d - NDIR - (NInd + NInd * NInd)
    IN  {f \in {"ALL"} : d = NDIR \/ d = DIND0 \/ (d > DIND0 /\ j = 0)}
        \cup {f \in {"ALL_BUT_TRIPLE"} :
                d > DIND0 /\ j > 0 /\ j % (NInd * NInd) = 0}

\* The flags truncate_blocks_proc adds when it frees data block d: all
\* indirect blocks when d is the first block under i_block[IND], [DIND] or
\* [TIND]; the single indirect block when d is the first of its group; the
\* double indirect block too when d is the first of its group under TIND.
DelFlags(d) ==
    LET i == d - NDIR
        j == i - (NInd + NInd * NInd)
    IN  {f \in {"SINGLE"} : d > DIND0 /\ i % NInd = 0}
        \cup {f \in {"ALL"} : d = NDIR \/ d = DIND0 \/ (d > DIND0 /\ j = 0)}
        \cup {f \in {"ALL_BUT_TRIPLE"} :
                d > DIND0 /\ j > 0 /\ j % (NInd * NInd) = 0}

\* Whether the callback frees an indirect block of level l under flags fl.
Deletes(l, fl) ==
    CASE l = 1 -> fl # {}
      [] l = 2 -> fl \cap {"ALL_BUT_TRIPLE", "ALL"} # {}
      [] l = 3 -> "ALL" \in fl

\* The iterator reads an indirect block before the first block under it;
\* when that read fails the iteration stops, and do_shorten ignores the
\* error ext2fs_block_iterate returns.
FirstUnder(d) == \E l \in 1..3 : HasAnc(d, l) /\ Lo(d, l) = d

\* truncate_blocks_proc on data block d: freed (block_alloc_stats -1,
\* *blocknr = 0, wipe) with new flags past last_block_to_keep, else counted.
VisitData ==
    /\ phase = "iterate" /\ pend = <<>> /\ next < n
    /\ \E ok \in Ok :
         \/ /\ ~ok /\ FirstUnder(next)
            /\ phase' = "reread"
            /\ UNCHANGED <<alloc, next, pend, flags, total>>
         \/ /\ ok /\ next' = next + 1 /\ pend' = Closing(next, n)
            /\ IF Freed(next)
               THEN /\ alloc' = alloc \ {Data(next)}
                    /\ flags' = flags \cup DelFlags(next)
                    /\ UNCHANGED total
               ELSE total' = total + 1 /\ UNCHANGED <<alloc, flags>>
            /\ UNCHANGED phase
    /\ UNCHANGED <<n, size, length, iblocks, rc>>

\* truncate_blocks_proc on an indirect block (blockcnt BLOCK_COUNT_IND,
\* _DIND, _TIND): freed when the flags say so, else counted.
VisitIndirect ==
    /\ phase = "iterate" /\ pend # <<>>
    /\ LET b == Head(pend) IN
         IF Deletes(b[1], flags)
         THEN alloc' = alloc \ {b} /\ UNCHANGED total
         ELSE total' = total + 1 /\ UNCHANGED alloc
    /\ pend' = Tail(pend)
    /\ UNCHANGED <<n, size, length, next, flags, iblocks, phase, rc>>

IterateEnd ==
    /\ phase = "iterate" /\ pend = <<>> /\ next = n
    /\ phase' = "reread"
    /\ UNCHANGED <<n, size, length, alloc, next, pend, flags, total, iblocks, rc>>

\* ext2fs_read_inode, then i_blocks = total_num_blocks * blocksize / 512
\* and ext2fs_write_inode, whose result is the reply.
Reread ==
    /\ phase = "reread"
    /\ \E rd, wr \in Ok :
         /\ iblocks' = IF rd /\ wr THEN total ELSE iblocks
         /\ rc' = IF rd /\ wr THEN "OK" ELSE "ERR"
    /\ phase' = "done"
    /\ UNCHANGED <<n, size, length, alloc, next, pend, flags, total>>

Next == DoShorten \/ VisitData \/ VisitIndirect \/ IterateEnd \/ Reread

\* do_shorten runs to its return without waiting on anything.
Spec == Init /\ [][Next]_vars /\ WF_vars(Next)

-----------------------------------------------------------------------------
(* Properties *)

TypeOK ==
    /\ n \in 0..MaxBlocks /\ size \in Nat /\ length \in 0..size
    /\ alloc \subseteq FileBlocks(n)
    /\ next \in 0..n /\ pend \in Seq(FileBlocks(n))
    /\ flags \subseteq {"SINGLE", "ALL_BUT_TRIPLE", "ALL"}
    /\ total \in Nat /\ iblocks \in Nat
    /\ phase \in {"start", "iterate", "reread", "done"}
    /\ rc \in {"none", "OK", "ERR"}

\* Shortening never frees a block the new length still needs: no data block
\* up to last_block_to_keep and no indirect block mapping one of them is
\* released, whatever the sticky delete_indirect_flags say when the
\* iterator reaches it and whatever call fails.
NeverFreesNeeded == Needed(length) \subseteq alloc

\* A shorten that replies success has freed every block past the new
\* length, data and indirect, and i_blocks counts exactly the blocks kept.
ShortenSuccessFreesTail ==
    phase = "done" /\ rc = "OK" =>
        alloc = Needed(length) /\ iblocks = Cardinality(alloc)
=============================================================================
