--------------------------- MODULE MCInferenceLease ---------------------------
EXTENDS InferenceLease, TLC
CONSTANTS p1, p2, l1, l2
=============================================================================
