\* A listing paged through 72-byte requests while names of two lengths are created and removed in a directory of up to two 48-byte blocks: a listing the directory did not change during is exact.
CONSTANTS
    na = na  nb = nb  nc = nc
    Dot = Dot  DotDot = DotDot  Empty = Empty
    Names <- MCNames
    NameLen <- MCNameLen
    BlockBytes = 48
    MaxDirBlocks = 2
    ReplySize = 72
    ChangeDuringListing = TRUE
SPECIFICATION Spec
INVARIANTS ListingExactIfUnchanged
