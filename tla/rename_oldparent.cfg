\* A directory rename whose read of the old parent fails after the old name was removed replies an error with the move done.
CONSTANTS
    Root = Root
    i1 = i1  i2 = i2  i3 = i3
    na = na  nb = nb
    b0 = b0  b1 = b1  b2 = b2  b3 = b3
    Dot = Dot  DotDot = DotDot  NoIno = NoIno
    Inos <- MCInos
    Names <- MCNames
    Blocks <- MCBlocks
    RootBlock = b0
    SlotsPerBlock = 3
    MaxFaults = 1
    FaultSites = {"read_inode"}
    VfsChecks = TRUE
    MaxLinks = 3
SPECIFICATION Spec
PROPERTY RenameFailureKeepsEntries
SYMMETRY MCSymmetry
