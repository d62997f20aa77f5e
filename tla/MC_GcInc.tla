------------------------------ MODULE MC_GcInc ------------------------------
EXTENDS GcInc, TLC

Symmetry ==
  Permutations(Tabs) \cup Permutations(Funcs) \cup Permutations(Udatas)
  \cup Permutations(Strs) \cup Permutations(Uvs) \cup Permutations(Threads \ {Main})
=============================================================================
