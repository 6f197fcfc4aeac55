SPECIFICATION Spec
CONSTANTS
  Task = {t1, t2}
  Msg = {m1, m2}
  None = None
  Worker = {w1, w2}
  InitialWorkers = {w1}
  Root = Root
  Getters = {Root, t1}
SYMMETRY Symmetry
CHECK_DEADLOCK FALSE
INVARIANTS
  TypeOK
  OneRunner
  TaskStateMatches
  NoOrphanTask
  NoLostWakeup
  WorkNotForgotten
  
  MailboxLifetime
  AnswerComplete
  NoMissedReply
  FinalValueKept
PROPERTIES
  ImplementsActors
  DeadStaysDead
