SPECIFICATION FairSpec
CONSTANTS
  Msg = {m1, m2, m3}
  Caller = {k1, k2}
  MaxTasks = 2
  NoMsg = NoMsg
  MaxDay = 3
CHECK_DEADLOCK FALSE
INVARIANTS
  TypeOK
  LoggedExactlyOnce
  ShutdownDrainsLog
  OneLineLateAtMidnight
PROPERTIES
  ShutdownReturns
  QueueSpec
