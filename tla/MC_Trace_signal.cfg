CONSTANTS
  loop = loop
  iter = iter
  func = func
  ret = ret
  call = call
  loops = loops
  recurses = recurses
  Pcs = {loop}
  Kind <- KindOf
  Proto <- ProtoOf
  Nil = Nil
  Cur = Cur
  MaxTrace = 1
  Handlers = {}
  HookMasks = {}
  Profiler = TRUE
  Interrupts = TRUE
SPECIFICATION Spec
INVARIANT ProfhookArmed
