\* The specification states the access rule as a disjunction over classes; check_perms_in_inode denies an owner what only the world bits grant.
CONSTANTS
    Uids = {0, 1, 2}
    Gids = {1, 2}
SPECIFICATION Spec
INVARIANT MatchesSpecRule
CHECK_DEADLOCK FALSE
