--------------------------- MODULE MCMindOwnership ---------------------------
EXTENDS MindOwnership, TLC
CONSTANTS p1, p2, p3
=============================================================================
