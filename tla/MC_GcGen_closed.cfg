CONSTANTS
  Tabs = {t1}
  Funcs = {f1}
  Strs = {}
  Uvs = {u1}
  Threads = {main}
  Main = main
  Armable = {}
  Nil = nil
SPECIFICATION Spec
INVARIANT NoDangling
CHECK_DEADLOCK FALSE
