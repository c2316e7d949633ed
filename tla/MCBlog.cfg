SPECIFICATION Spec
CONSTANTS
  Browser = {b1, b2}
  Name = {n1, n2}
  Password = {p1, p2}
  Token = {t1, t2}
  MaxId = 2
  Char <- PageChar
  Titles <- ShortTitles
  Categories <- ShortCategories
  Contents <- ShortContents
  PoolSize = 1
  ListLimit = 1
  MaxFaults = 1
  MaxText = 3
  Samples <- PageTexts
  NoUser = NoUser
  NoToken = NoToken
  NoPassword = NoPassword
  NoRow = NoRow
  NoReq = NoReq
SYMMETRY Symmetry
CHECK_DEADLOCK FALSE
INVARIANTS
  TypeOK
  HandlerNeverWaits
  CookieIsOwnSession
  AnswerIsTrue
  ShowsTheText
  EveryTextSurvives
PROPERTIES
  ChangesOwnRowLoggedIn
