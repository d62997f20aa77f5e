CONSTANTS
  a = a
  b = b
  c = c
  d = d
  Strs = {a, b, c}
  Ints = {1}
  Hash <- MCHash
  Vals = {v}
  Groups <- MCGroups
  MaxReasize = 0
  Nil = Nil
  Stale = Stale
  All = All
SPECIFICATION TraceSpec
INVARIANT HrefkIsKey
