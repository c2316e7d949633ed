SPECIFICATION Spec
CONSTANTS
  Browser = {b1}
  Name = {n1}
  Password = {p1}
  Token = {t1}
  MaxId = 1
  Char <- RawChar
  Titles <- RawTitles
  Categories <- RawCategories
  Contents <- RawContents
  PoolSize = 1
  ListLimit = 1
  MaxFaults = 0
  MaxText = 1
  Samples <- RawTitles
  NoUser = NoUser
  NoToken = NoToken
  NoPassword = NoPassword
  NoRow = NoRow
  NoReq = NoReq
CHECK_DEADLOCK FALSE
INVARIANTS
  ReturnsOriginalText
