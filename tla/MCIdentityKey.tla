---------------------------- MODULE MCIdentityKey ----------------------------
EXTENDS IdentityKey, TLC

Symmetry == Permutations(Job) \cup Permutations(Caller)
=============================================================================
