---------------------------- MODULE MCCoordinator ----------------------------
EXTENDS Coordinator
CONSTANTS m1, m2, f1, f2
=============================================================================
