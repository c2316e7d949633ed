SPECIFICATION FairSpec
CONSTANTS
  get = get
  long = long
  post = post
  wide = wide
  late = late
  wrap = wrap
  loop = loop
  huge = huge
  bad = bad
  put = put
  close = close
  old = old
  s1 = s1
  Req = {get, long, post, wide, late, wrap, loop, huge, bad, put, close, old}
  Request <- MCRequest
  Scripts <- MCScripts
  Sock = {s1}
  NoSock = NoSock
  NoReq = NoReq
  HeadLimit = 2
  BodyLimit = 2
  RecvMax = 2
  RespLen = 1
  SizeMod = 8
  MaxAnswers = 5
CHECK_DEADLOCK FALSE
INVARIANTS
  TypeOK
  FramingKept
  AnswersTheScript
  LimitsHold
  BufferBounded
PROPERTIES
  CloseIsAnnounced
  ScriptAnswered
