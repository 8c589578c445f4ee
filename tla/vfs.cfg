\* Requests as the kernel VFS sends them, without I/O errors: four inodes, three blocks.
CONSTANTS
    Root = Root
    i1 = i1  i2 = i2  i3 = i3
    na = na  nb = nb
    b0 = b0  b1 = b1  b2 = b2  b3 = b3
    Dot = Dot  DotDot = DotDot  NoIno = NoIno
    Inos <- MCInos
    Names <- MCNames
    Blocks <- MCBlocks
    RootBlock = b0
    SlotsPerBlock = 3
    MaxFaults = 0
    FaultSites = {}
    VfsChecks = TRUE
    MaxLinks = 3
SPECIFICATION Spec
INVARIANTS TypeOK NoDanglingEntry LinksCoverRefs UniqueNames BlocksOwned
PROPERTIES RenameReplyTruthful
SYMMETRY MCSymmetry
VIEW MCView
