\* A directory renamed over an empty directory, with one I/O error at ext2fs_link: the new ".." fails to link after do_rmdir_on_ino removed the target, and the rollback cannot bring the target back.
CONSTANTS
    Root = Root
    i1 = i1  i2 = i2  i3 = i3
    na = na  nb = nb
    b0 = b0  b1 = b1  b2 = b2  b3 = b3
    Dot = Dot  DotDot = DotDot  NoIno = NoIno
    Inos <- MCInos
    Names <- MCNames
    Blocks <- MCBlocks
    RootBlock = b0
    SlotsPerBlock = 5
    MaxFaults = 1
    FaultSites = {"dir_iterate", "expand_dir", "ext2fs_link", "block_iterate"}
    VfsChecks = TRUE
    MaxLinks = 3
SPECIFICATION Spec
PROPERTIES RenameFailureKeepsEntries
SYMMETRY MCSymmetry
