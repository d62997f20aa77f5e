----------------------------- MODULE MC_Close ------------------------------
EXTENDS Close, TLC

Symmetry == Permutations(Vals) \cup Permutations(Errs)
=============================================================================
