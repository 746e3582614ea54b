---------------------------- MODULE MCEventStream ----------------------------
EXTENDS EventStream, TLC
CONSTANTS c1, c2
=============================================================================
