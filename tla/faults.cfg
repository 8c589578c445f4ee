\* Up to two I/O errors at the libext2fs calls whose failure the handlers roll back or report.
CONSTANTS
    Root = Root
    i1 = i1  i2 = i2  i3 = i3
    na = na  nb = nb
    b0 = b0  b1 = b1  b2 = b2  b3 = b3
    Dot = Dot  DotDot = DotDot  NoIno = NoIno
    Inos <- MCInos3
    Names <- MCNames
    Blocks <- MCBlocks4
    RootBlock = b0
    SlotsPerBlock = 3
    MaxFaults = 2
    FaultSites = {"read_inode", "write_inode", "dir_iterate", "write_new_inode", "write_dir_block", "expand_dir", "ext2fs_link"}
    VfsChecks = TRUE
    MaxLinks = 3
SPECIFICATION Spec
INVARIANTS NoDanglingEntry LinksCoverRefs UniqueNames BlocksOwned
SYMMETRY MCSymmetry
VIEW MCView
