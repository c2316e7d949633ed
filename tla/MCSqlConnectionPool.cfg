SPECIFICATION FairSpec
CONSTANTS
  Conn = {m1, m2}
  Thread = {t1, t2, t3, t4}
  PoolSize = 2
  NoConn = NoConn
INVARIANTS
  TypeOK
  OnePlaceEach
  WaiterHasAWaker
  NothingLeaks
PROPERTIES
  ShutdownClosesAll
  ShutdownFreesWaiters
