CONSTANTS
  loop = loop
  iter = iter
  func = func
  ret = ret
  call = call
  loops = loops
  recurses = recurses
  Pcs = {loop, iter, func, ret, call}
  Kind <- KindOf
  Proto <- ProtoOf
  Nil = Nil
  Cur = Cur
  MaxTrace = 2
  Handlers = {"abort", "bc"}
  HookMasks = {}
  Profiler = FALSE
  Interrupts = FALSE
SPECIFICATION Spec
INVARIANTS TypeOK PatchedIsLive ChainExact JumpsLive StateClean NoJitNoTrace
