---------------------------- MODULE MCBatchPersist ----------------------------
EXTENDS BatchPersist, TLC

CONSTANTS k1, k2, k3
MCKeys == {k1, k2, k3}
MCMatching == {k1, k2}
=============================================================================
