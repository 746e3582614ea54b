-------------------------- MODULE MCExecutionLease --------------------------
EXTENDS ExecutionLease
CONSTANTS p1, p2, p3
TwoMindFiles == [p \in Proc |-> IF p = p3 THEN "another" ELSE "ours"]
=============================================================================
