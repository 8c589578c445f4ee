\* check_perms_in_inode for root, an owner, a group member and others, every 9-bit mode and every request mask.
CONSTANTS
    Uids = {0, 1, 2}
    Gids = {1, 2}
SPECIFICATION Spec
INVARIANT MatchesPosix
CHECK_DEADLOCK FALSE
