\* A failed read of an indirect block stops ext2fs_block_iterate; do_shorten ignores its result and replies success.
CONSTANTS
    NInd = 2
    BlockSize = 2
    MaxBlocks = 26
    Faults = TRUE
SPECIFICATION Spec
INVARIANT ShortenSuccessFreesTail
CHECK_DEADLOCK FALSE
