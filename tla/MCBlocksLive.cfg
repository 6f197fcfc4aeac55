SPECIFICATION FairSpec
CONSTANTS
  Task = {t1, t2}
  Msg = {m1}
  None = None
  Worker = {w1, w2}
  InitialWorkers = {w1}
  Root = Root
  Getters = {Root, t1, t2}
CHECK_DEADLOCK FALSE
PROPERTIES
  EventuallyAnswered
  GetReturnsEventually
