--------------------------- MODULE MC_Ext2Readdir ---------------------------
(* Two short names and one long one: the short ones take 12-byte records  *)
(* and 32-byte dirents, the long one a 20-byte record and a 40-byte dirent *)
EXTENDS Ext2Readdir, TLC

CONSTANTS na, nb, nc

MCNames == {na, nb, nc}
MCNameLen == (na :> 4) @@ (nb :> 4) @@ (nc :> 12) @@ (Dot :> 1) @@ (DotDot :> 2)
=============================================================================
