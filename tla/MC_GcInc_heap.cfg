CONSTANTS
  Tabs = {t1}
  Funcs = {}
  Udatas = {d1}
  Strs = {s1}
  Uvs = {}
  Threads = {main}
  Main = main
  Nil = nil
SPECIFICATION Spec
INVARIANTS TypeOK NoDangling TriColor
PROPERTY KeepsPromise
SYMMETRY Symmetry
