\* do_statvfs on file systems with a resize_inode reserve of 2 descriptor blocks in every backup group: s_reserved_gdt_blocks is left out of the overhead, so f_blocks overstates the data blocks.
CONSTANTS
    GroupBlocks = 32
    MaxGroups = 50
    DescPerBlock = {4, 64}
    ItbChoices = {1, 2}
    ReservedGdt = {0, 2}
    OpenOutcomes = {TRUE}
SPECIFICATION Spec
INVARIANTS StatfsMatchesLayout
