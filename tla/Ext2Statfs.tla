----------------------------- MODULE Ext2Statfs -----------------------------
(***************************************************************************)
(* op_statfs and do_statvfs (src/ext2fs.c): the block counts reported to  *)
(* statfs(2) are computed from the superblock alone, by a formula for the *)
(* blocks the file system's own structures take: the blocks before        *)
(* s_first_data_block, a superblock copy and the group descriptor table   *)
(* in every group that has a backup (all groups, or with sparse_super     *)
(* groups 0, 1 and the powers of 3, 5 and 7), and in every group a block  *)
(* bitmap, an inode bitmap and the inode table.                           *)
(*                                                                         *)
(* The reference the formula is checked against lays the groups out block *)
(* by block and counts the blocks none of them takes.                     *)
(***************************************************************************)
EXTENDS Integers, FiniteSets

CONSTANTS
    GroupBlocks,     \* s_blocks_per_group
    MaxGroups,       \* largest group count of the superblocks enumerated
    DescPerBlock,    \* group descriptors per block (EXT2_DESC_PER_BLOCK)
    ItbChoices,      \* inode table blocks per group (inodes per group / per block)
    ReservedGdt,     \* values of s_reserved_gdt_blocks (resize_inode)
    OpenOutcomes     \* whether op_init's ext2fs_open succeeded

ASSUME /\ GroupBlocks \in Nat \ {0} /\ MaxGroups \in 1..3^10
       /\ DescPerBlock \subseteq Nat \ {0} /\ ItbChoices \subseteq Nat \ {0}
       /\ ReservedGdt \subseteq Nat /\ OpenOutcomes \subseteq BOOLEAN

VARIABLES
    sb,      \* the superblock as ext2fs_open read it
    opened,  \* fs is set: op_init's ext2fs_open succeeded
    reply    \* the statvfs op_statfs last replied, or NoReply

vars == <<sb, opened, reply>>

NoReply == [blocks |-> -1]

-----------------------------------------------------------------------------
(* The layout of a file system with n groups, the last of `last` blocks   *)

Ceil(a, b) == (a + b - 1) \div b

\* Group descriptor blocks for n groups.
GdtBlocks(n, dpb) == Ceil(n, dpb)

\* The blocks of a group other than its data: a backup superblock, the
\* descriptor table and its reserve when it has a backup, then two
\* bitmaps and the inode table.
MetaLen(n, dpb, itb, rgdt, backup) ==
    (IF backup THEN 1 + GdtBlocks(n, dpb) + rgdt ELSE 0) + 2 + itb

\* The superblocks enumerated: every geometry, with a full last group or
\* the shortest one mke2fs keeps (it drops a last group too small for its
\* own structures and 50 blocks more; here one block more).
Superblocks ==
    UNION {{[blocks |-> first + (n - 1) * GroupBlocks + last, first |-> first,
             sparse |-> sparse, dpb |-> dpb, itb |-> itb, rgdt |-> rgdt,
             free |-> free, rfree |-> 1]
              : last \in {MetaLen(n, dpb, itb, rgdt, TRUE) + 1, GroupBlocks},
                free \in {0, 1}}
           : first \in {0, 1}, n \in 1..MaxGroups, sparse \in BOOLEAN,
             dpb \in DescPerBlock, itb \in ItbChoices, rgdt \in ReservedGdt}

-----------------------------------------------------------------------------
(* do_statvfs *)

\* test_root(a, b): multiply num = b by b while a > num; a is a power of b
\* when the loop stops at a.
RECURSIVE TestRootLoop(_, _, _)
TestRootLoop(a, b, num) ==
    IF a > num THEN TestRootLoop(a, b, num * b) ELSE num = a

TestRoot(a, b) == TestRootLoop(a, b, b)

\* Mutant: group 1 is not taken as keeping a backup.
GroupSparseNoOne(g) == g = 0 \/ TestRoot(g, 3) \/ TestRoot(g, 5) \/ TestRoot(g, 7)

\* ext2_group_sparse: groups 0 and 1, and powers of 3, 5 and 7.
GroupSparse(g) == g <= 1 \/ TestRoot(g, 3) \/ TestRoot(g, 5) \/ TestRoot(g, 7)

\* ext2_bg_has_super: every group, unless sparse_super (ro_compat 0x0001)
\* is set and the group is not sparse.
BgHasSuper(s, g) == ~(s.sparse /\ ~GroupSparse(g))

\* do_statvfs: groups_count, db_count and itb_per_group from the
\* superblock, the overhead summed over the groups, and the counts.
DoStatvfs(s) ==
    LET groups   == (s.blocks - s.first - 1) \div GroupBlocks + 1
        db       == Ceil(groups, s.dpb)
        withSuper == Cardinality({i \in 0..groups - 1 : BgHasSuper(s, i)})
        overhead == s.first + withSuper * (1 + db) + groups * (2 + s.itb)
    IN  [blocks |-> s.blocks - overhead,
         bfree  |-> s.free,
         bavail |-> IF s.free >= s.rfree THEN s.free - s.rfree ELSE 0]

-----------------------------------------------------------------------------

\* op_init has run: ext2fs_open either set fs or failed, and op_init
\* returns either way; the session serves requests in both cases.
Init ==
    /\ sb \in Superblocks
    /\ opened \in OpenOutcomes
    /\ reply = NoReply

\* op_statfs: do_statvfs fills stbuf, or returns 1 at once when fs is NULL,
\* which op_statfs ignores: the reply is the uninitialised stack buffer.
Statfs ==
    /\ IF opened THEN reply' = DoStatvfs(sb)
                 ELSE reply' \in {[blocks |-> v, bfree |-> v, bavail |-> v]
                                    : v \in 0..1}
    /\ UNCHANGED <<sb, opened>>

Next == Statfs

Spec == Init /\ [][Next]_vars

-----------------------------------------------------------------------------
(* Reference layout *)

\* Powers of p up to the largest group count.
Powers(p) == {p^k : k \in 1..10}

\* A group keeps a superblock backup: with sparse_super only groups 0 and 1
\* and the powers of 3, 5 and 7.
Backup(s, g) == ~s.sparse \/ g \in {0, 1} \/ g \in Powers(3) \cup Powers(5) \cup Powers(7)

\* The groups are the runs of GroupBlocks blocks from s_first_data_block
\* that start before the end of the device; the last may be shorter.
Groups(s) == {g \in 0..MaxGroups : s.first + g * GroupBlocks < s.blocks}

GroupLen(s, g) ==
    LET rest == s.blocks - (s.first + g * GroupBlocks)
    IN  IF rest < GroupBlocks THEN rest ELSE GroupBlocks

\* The blocks left for data: in each group, its length less its own
\* structures, summed over the groups.
RECURSIVE DataFrom(_, _, _)
DataFrom(s, g, n) ==
    IF g = n THEN 0
    ELSE GroupLen(s, g) - MetaLen(n, s.dpb, s.itb, s.rgdt, Backup(s, g))
         + DataFrom(s, g + 1, n)

DataBlocks(s) == DataFrom(s, 0, Cardinality(Groups(s)))

-----------------------------------------------------------------------------
(* Properties *)

TypeOK ==
    /\ sb \in Superblocks /\ opened \in BOOLEAN
    /\ reply = NoReply \/ reply.blocks \in Nat

\* The total statfs(2) reports (f_blocks) is the number of blocks the layout
\* leaves for data: do_statvfs's groups_count, db_count and sparse test
\* find every group, every descriptor block and every superblock backup.
StatfsMatchesLayout == reply # NoReply => reply.blocks = DataBlocks(sb)
=============================================================================
