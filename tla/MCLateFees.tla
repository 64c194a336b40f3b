----------------------------- MODULE MCLateFees -----------------------------
EXTENDS LateFees, TLC

Symmetry == Permutations(Readers)
=============================================================================
