----------------------------- MODULE MCAttention -----------------------------
EXTENDS Attention, TLC
CONSTANTS m1, m2, t1, t2, s1

\* Messages and tasks are interchangeable, and safety does not tell them apart.
Symmetry == Permutations(Msg) \cup Permutations(Task)
=============================================================================
