--------------------------- MODULE MC_Ext2Symlink ---------------------------
EXTENDS Ext2Symlink, TLC

CONSTANTS na, nb, nc, i1, i2, i3, i4, ta, tb

MCNames == {na, nb, nc}
MCInos == {i1, i2, i3, i4}
MCTargets == {ta, tb}
\* a target that fits in i_block and one that does not
MCTLen == (ta :> 5) @@ (tb :> 70)
\* a slow and a fast link made by the Linux driver before the mount
MCKernel == {[name |-> na, ino |-> i1, t |-> tb], [name |-> nb, ino |-> i2, t |-> ta]}
=============================================================================
