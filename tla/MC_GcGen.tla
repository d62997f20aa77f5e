----------------------------- MODULE MC_GcGen ------------------------------
EXTENDS GcGen, TLC

Symmetry ==
  Permutations(Armable) \cup Permutations(Tabs \ Armable) \cup Permutations(Funcs)
  \cup Permutations(Strs) \cup Permutations(Uvs) \cup Permutations(Threads \ {Main})
=============================================================================
