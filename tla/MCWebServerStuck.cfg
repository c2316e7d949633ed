SPECIFICATION FairSpec
CONSTANTS
  Sock = {c1}
  Fd = {f1}
  Worker = {w1}
  MaxTasks = 2
  RespLen = 1
  Script <- TwoRequests
  Pipelining = FALSE
  c1 = c1
  c2 = c2
  r1 = r1
  r2 = r2
  r3 = r3
  Req = {r1, r2, r3}
  Request <- MCRequest
  NoSock = NoSock
  NoReq = NoReq
  NoTask = NoTask
  NoConn = NoConn
  ListenFd = ListenFd
  HeadLimit = 4
  BodyLimit = 4
  RecvMax = 2
  SizeMod = 64
PROPERTIES
  RequestServed
