\* One failed ext2fs_unlink while do_rename rolls back, as the kernel VFS sends it.
CONSTANTS
    Root = Root
    i1 = i1  i2 = i2  i3 = i3
    na = na  nb = nb
    b0 = b0  b1 = b1  b2 = b2  b3 = b3
    Dot = Dot  DotDot = DotDot  NoIno = NoIno
    Inos <- MCInos
    Names <- MCNames
    Blocks <- MCBlocks
    RootBlock = b0
    SlotsPerBlock = 3
    MaxFaults = 1
    FaultSites = {"ext2fs_unlink"}
    VfsChecks = TRUE
    MaxLinks = 3
SPECIFICATION Spec
INVARIANT NoDanglingEntry
SYMMETRY MCSymmetry
