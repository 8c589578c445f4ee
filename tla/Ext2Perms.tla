----------------------------- MODULE Ext2Perms -----------------------------
(***************************************************************************)
(* The permission checks of perms.c as operators over a caller (the        *)
(* fuse_ctx uid and gid), an inode (i_uid, i_gid, the 0777 bits of i_mode) *)
(* and a request (a mask of R_OK 4, W_OK 2, X_OK 1), checked for every     *)
(* mode and request against a definition by permission classes.  One      *)
(* step evaluates check_perms_in_inode on the inputs chosen initially.     *)
(***************************************************************************)
EXTENDS Naturals, Bitwise

CONSTANTS
    Uids,   \* user ids, 0 is root
    Gids    \* group ids

VARIABLES ctx, node, req, res

vars == <<ctx, node, req, res>>

EACCES == "EACCES"
OK == "OK"   \* return 0

\* Mutant: the group class tested against the owner's bits.
CheckPermsInInodeGroupShift(c, i, r) ==
    LET perms == i.mode & 511
    IN  CASE c.uid = 0 -> OK
          [] i.uid = c.uid -> IF ((r * 64) & perms) = r * 64 THEN OK ELSE EACCES
          [] i.gid = c.gid -> IF ((r * 64) & perms) = r * 64 THEN OK ELSE EACCES
          [] OTHER -> IF (r & perms) = r THEN OK ELSE EACCES

\* check_perms_in_inode with a non-NULL ctx: root may do anything; the
\* owner gets the owner bits only, a member of the inode's group the group
\* bits only, everyone else the other bits; all requested bits must be set.
CheckPermsInInode(c, i, r) ==
    LET perms == i.mode & 511
    IN  CASE c.uid = 0 -> OK
          [] i.uid = c.uid -> IF ((r * 64) & perms) = r * 64 THEN OK ELSE EACCES
          [] i.gid = c.gid -> IF ((r * 8) & perms) = r * 8 THEN OK ELSE EACCES
          [] OTHER -> IF (r & perms) = r THEN OK ELSE EACCES

Init ==
    /\ ctx \in [uid : Uids, gid : Gids]
    /\ node \in [uid : Uids, gid : Gids, mode : 0..511]
    /\ req \in 0..7
    /\ res = "none"

Check ==
    /\ res = "none"
    /\ res' = CheckPermsInInode(ctx, node, req)
    /\ UNCHANGED <<ctx, node, req>>

Next == Check

Spec == Init /\ [][Next]_vars

-----------------------------------------------------------------------------
(* Reference definitions *)

\* The bits of class k (0 other, 1 group, 2 owner) in a mode, and the bits
\* of a request, as sets of "r", "w", "x".
Bits(m) == {b \in {"r", "w", "x"} :
              (m \div (CASE b = "r" -> 4 [] b = "w" -> 2 [] b = "x" -> 1)) % 2 = 1}
ClassBits(mode, k) == Bits((mode \div 8^k) % 8)

\* POSIX: the first class the caller falls in decides.
PosixAllows(c, i, r) ==
    \/ c.uid = 0
    \/ c.uid = i.uid /\ Bits(r) \subseteq ClassBits(i.mode, 2)
    \/ c.uid # i.uid /\ c.gid = i.gid /\ Bits(r) \subseteq ClassBits(i.mode, 1)
    \/ c.uid # i.uid /\ c.gid # i.gid /\ Bits(r) \subseteq ClassBits(i.mode, 0)

\* The access rule as the specification's testable properties state it:
\* any class whose bits grant the request.
SpecAllows(c, i, r) ==
    \/ c.uid = 0
    \/ c.uid = i.uid /\ Bits(r) \subseteq ClassBits(i.mode, 2)
    \/ c.gid = i.gid /\ Bits(r) \subseteq ClassBits(i.mode, 1)
    \/ Bits(r) \subseteq ClassBits(i.mode, 0)

-----------------------------------------------------------------------------
(* Properties *)

\* check_perms_in_inode's shifts and masks grant exactly what the caller's
\* permission class grants: the owner is judged by the owner bits alone,
\* a group member by the group bits, others by the other bits.
MatchesPosix == res # "none" => (res = OK <=> PosixAllows(ctx, node, req))

\* The specification's rule: the check succeeds iff the caller is root or
\* some class the caller is in grants the request (the world bits count
\* for the owner too).
MatchesSpecRule == res # "none" => (res = OK <=> SpecAllows(ctx, node, req))
=============================================================================
