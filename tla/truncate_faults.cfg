\* do_shorten with failing set_file_size, indirect-block reads, inode read and inode write, on files of up to 26 blocks.
CONSTANTS
    NInd = 2
    BlockSize = 2
    MaxBlocks = 26
    Faults = TRUE
SPECIFICATION Spec
INVARIANTS NeverFreesNeeded
CHECK_DEADLOCK FALSE
