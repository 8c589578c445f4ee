\* One process death and remount among requests as the kernel VFS sends them, with op_fsync and op_destroy, no I/O errors; three inodes, three blocks.
CONSTANTS
    Root = Root
    i1 = i1  i2 = i2  i3 = i3
    na = na  nb = nb
    b0 = b0  b1 = b1  b2 = b2  b3 = b3
    Dot = Dot  DotDot = DotDot  NoIno = NoIno
    Inos <- MCInos3
    Names <- MCNames
    Blocks <- MCBlocks
    RootBlock = b0
    SlotsPerBlock = 3
    MaxFaults = 0
    FaultSites = {}
    VfsChecks = TRUE
    MaxLinks = 3
    MaxCrashes = 1
SPECIFICATION CSpec
INVARIANT NoDanglingEntry
SYMMETRY MCSymmetry
