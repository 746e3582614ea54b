--------------------------- MODULE MCTaskLifecycle ---------------------------
EXTENDS TaskLifecycle, TLC
CONSTANTS t1, t2, t3, q1, q2
\* The group that both kinds of permutation generate.
Symmetry == {p @@ q : p \in Permutations(Task), q \in Permutations(Request)}
=============================================================================
