\* Directory renames within and across directories and over an existing directory, empty or not, as the kernel VFS sends them: four inodes, three blocks of five entries, one I/O error at the emptiness walk, at directory growth or at the block release of a removed target.
CONSTANTS
    Root = Root
    i1 = i1  i2 = i2  i3 = i3
    na = na  nb = nb
    b0 = b0  b1 = b1  b2 = b2  b3 = b3
    Dot = Dot  DotDot = DotDot  NoIno = NoIno
    Inos <- MCInos
    Names <- MCNames
    Blocks <- MCBlocks
    RootBlock = b0
    SlotsPerBlock = 5
    MaxFaults = 1
    FaultSites = {"dir_iterate", "expand_dir", "block_iterate"}
    VfsChecks = TRUE
    MaxLinks = 3
SPECIFICATION HSpec
INVARIANTS UniqueNames
PROPERTIES RenameFailureKeepsEntries ImplementsNamespace
SYMMETRY MCSymmetry
VIEW MCAtomicView
