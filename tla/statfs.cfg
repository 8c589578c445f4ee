\* do_statvfs on every superblock of 1 to 50 groups of 32 blocks, with and without sparse_super, first data block 0 or 1, a full or a shortest last group, 4 or 64 descriptors per block, 1 or 2 inode table blocks per group, no reserved descriptor blocks.
CONSTANTS
    GroupBlocks = 32
    MaxGroups = 50
    DescPerBlock = {4, 64}
    ItbChoices = {1, 2}
    ReservedGdt = {0}
    OpenOutcomes = {TRUE}
SPECIFICATION Spec
INVARIANTS StatfsMatchesLayout
