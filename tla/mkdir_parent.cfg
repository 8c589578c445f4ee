\* One failed write of the parent inode at the end of new_ext2fs_mkdir (mkdir.c).
CONSTANTS
    Root = Root
    i1 = i1  i2 = i2  i3 = i3
    na = na  nb = nb
    b0 = b0  b1 = b1  b2 = b2  b3 = b3
    Dot = Dot  DotDot = DotDot  NoIno = NoIno
    Inos <- MCInos3
    Names <- MCNames
    Blocks <- MCBlocks4
    RootBlock = b0
    SlotsPerBlock = 3
    MaxFaults = 1
    FaultSites = {"write_parent"}
    VfsChecks = TRUE
    MaxLinks = 3
SPECIFICATION Spec
INVARIANT LinksCoverRefs
SYMMETRY MCSymmetry
