CONSTANTS
  a = a
  b = b
  c = c
  d = d
  Strs = {a, b, c, d}
  Ints = {1, 2, 3}
  Hash <- MCHash
  Vals = {v}
  Groups <- MCGroups
  MaxReasize = 2
  Nil = Nil
  Stale = Stale
  All = All
SPECIFICATION Spec
INVARIANTS TypeOK IsAssigned ChainsEnd LenIsBorder NextKnowsKey
PROPERTY IsMap
