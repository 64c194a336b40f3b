------------------------------- MODULE MCAccess -------------------------------
EXTENDS Access, TLC

Symmetry == Permutations(Accounts) \cup Permutations(Requests)
=============================================================================
