\* do_shorten on every dense file of up to 36 blocks (3 pointers per indirect block: all three indirect levels, two groups under the triple-indirect block) and every shorter length, no failures.
CONSTANTS
    NInd = 3
    BlockSize = 2
    MaxBlocks = 36
    Faults = FALSE
SPECIFICATION Spec
INVARIANTS ShortenSuccessFreesTail
CHECK_DEADLOCK FALSE
