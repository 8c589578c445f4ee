\* Names created and removed while a listing is open: the listing skips, repeats or garbles names that were there throughout.
CONSTANTS
    na = na  nb = nb  nc = nc
    Dot = Dot  DotDot = DotDot  Empty = Empty
    Names <- MCNames
    NameLen <- MCNameLen
    BlockBytes = 48
    MaxDirBlocks = 2
    ReplySize = 72
    ChangeDuringListing = TRUE
SPECIFICATION Spec
INVARIANT ListingExact
