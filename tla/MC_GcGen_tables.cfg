CONSTANTS
  Tabs = {t1, t2}
  Funcs = {}
  Strs = {s1}
  Uvs = {}
  Threads = {main}
  Main = main
  Armable = {}
  Nil = nil
SPECIFICATION Spec
INVARIANTS TypeOK NoDangling OldToYoung TouchedListed OldSegment
SYMMETRY Symmetry
