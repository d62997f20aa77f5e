CONSTANTS
  Tabs = {t1}
  Funcs = {f1}
  Strs = {}
  Uvs = {u1}
  Threads = {main}
  Main = main
  Armable = {t1}
  Nil = nil
SPECIFICATION Spec
INVARIANTS StacksKept PendingKept
SYMMETRY Symmetry
CHECK_DEADLOCK FALSE
