CONSTANTS
  Vals = {x, y, z}
  Errs = {e1, e2}
  Nil = Nil
  Junk = Junk
  MaxFrames = 6
  Callers = {"lua"}
  OwnTbc = FALSE
  By = {"api", "wrap"}
SPECIFICATION Spec
INVARIANTS TypeOK NoneOutlives ClosedOnce ErrorsAreErrors StatusAgrees
PROPERTIES LastMarkedFirst 
SYMMETRY Symmetry
CHECK_DEADLOCK FALSE
