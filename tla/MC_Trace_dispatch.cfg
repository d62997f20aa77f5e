CONSTANTS
  loop = loop
  iter = iter
  func = func
  ret = ret
  call = call
  loops = loops
  recurses = recurses
  Pcs = {func, ret, call}
  Kind <- KindOf
  Proto <- ProtoOf
  Nil = Nil
  Cur = Cur
  MaxTrace = 2
  Handlers = {"stop", "abort"}
  HookMasks <- EventMasks
  Profiler = TRUE
  Interrupts = FALSE
SPECIFICATION Spec
INVARIANTS DispatchAgrees Executable
