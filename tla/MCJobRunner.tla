----------------------------- MODULE MCJobRunner -----------------------------
EXTENDS JobRunner, TLC

Symmetry == Permutations(Job) \cup Permutations(Worker)
AllFaults == FaultKind
=============================================================================
