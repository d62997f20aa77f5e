CONSTANTS
  Tabs = {}
  Funcs = {f1}
  Udatas = {}
  Strs = {}
  Uvs = {u1}
  Threads = {main, co}
  Main = main
  Nil = nil
SPECIFICATION FairSpec
INVARIANT IInv
PROPERTIES KeepsPromise CyclesEnd GarbageGoes
