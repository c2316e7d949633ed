SPECIFICATION FairSpec
CONSTANTS
  Task = {t1, t2, t3}
  Worker = {w1, w2}
  Client = {c1, c2}
  MaxTasks = 2
  NoTask = NoTask
INVARIANTS
  TypeOK
  FifoExactlyOnce
  TaskHasAWaker
  ShutdownDrains
PROPERTIES
  AcceptedIsServed
  ShutdownReturns
  QueueSpec
CHECK_DEADLOCK FALSE
