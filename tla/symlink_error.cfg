\* op_symlink failing after do_link.
CONSTANTS
    na = na  nb = nb  nc = nc
    i1 = i1  i2 = i2  i3 = i3  i4 = i4
    ta = ta  tb = tb
    NoIno = NoIno  Empty = Empty  Garbage = Garbage  Junk = Junk
    Names <- MCNames
    Inos <- MCInos
    Targets <- MCTargets
    TLen <- MCTLen
    Kernel <- MCKernel
    FastBytes = 60
    MaxFaults = 2
    FaultSites = {"create", "link", "open", "write", "size", "close", "readlink", "read", "tomb"}
SPECIFICATION Spec
INVARIANT SymlinkErrorLeavesNoName
