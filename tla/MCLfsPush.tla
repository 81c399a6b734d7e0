------------------------------ MODULE MCLfsPush ------------------------------
EXTENDS LfsPush, TLC

CONSTANTS o1, o2, o3
MCOids == {o1, o2, o3}
MCSymmetry == Permutations(MCOids)
=============================================================================
