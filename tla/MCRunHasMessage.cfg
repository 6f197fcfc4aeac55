SPECIFICATION Spec
CONSTANTS
  Task = {t1}
  Msg = {m1, m2}
  None = None
  Worker = {w1, w2}
  InitialWorkers = {w1, w2}
  Root = Root
  Getters = {Root}
CHECK_DEADLOCK FALSE
INVARIANT
  RunHasMessage
