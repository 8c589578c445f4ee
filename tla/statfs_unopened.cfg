\* op_statfs after op_init's ext2fs_open failed: do_statvfs returns 1 at once with fs NULL, op_statfs ignores it and replies the uninitialised stack buffer.
CONSTANTS
    GroupBlocks = 32
    MaxGroups = 5
    DescPerBlock = {4, 64}
    ItbChoices = {1, 2}
    ReservedGdt = {0}
    OpenOutcomes = {TRUE, FALSE}
SPECIFICATION Spec
INVARIANTS StatfsMatchesLayout
