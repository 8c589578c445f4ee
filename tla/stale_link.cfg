\* A handle's copy of the inode written back after op_link raised the link count.
CONSTANTS
    Root = Root
    i1 = i1  i2 = i2  i3 = i3
    na = na  nb = nb
    b0 = b0  b1 = b1  b2 = b2  b3 = b3
    h1 = h1  h2 = h2
    Dot = Dot  DotDot = DotDot  NoIno = NoIno  NoFile = NoFile
    Inos <- MCInos2
    Names <- MCNames
    Blocks <- MCBlocks
    Handles <- MCHandles1
    RootBlock = b0
    SlotsPerBlock = 3
    MaxFaults = 0
    FaultSites = {}
    VfsChecks = TRUE
    MaxLinks = 3
    MaxFileBlocks = 1
SPECIFICATION FSpec
INVARIANT NoDanglingEntry
SYMMETRY MCFilesSymmetry
