SPECIFICATION Spec
CONSTANTS
  NClients = 2
  MaxWaits = 1
  a = a
  b = b
  Places = {a, b}
  Cap = 1
  Answers <- ShortAnswers
  MaxTurns = 2
  MaxAsked = 2
  Ceiling = 4
  p1 = p1
  p2 = p2
  v1 = v1
  v2 = v2
  Urls = {p1, p2}
  First = p1
  Versions = {v1, v2}
  NoUrl = NoUrl
  LinkOf <- TwoPages
  MaxAttempts = 2
  MaxChanges = 2
  MaxDeaths = 1
INVARIANTS
  LoopsTypeOK
  KeptIsSafe
  NothingSoundIsLost
  ResultIsTrue
  WalkIsTheListing
  PaidOnce
PROPERTIES
  ReviewEnds
  WalkEnds
CHECK_DEADLOCK FALSE
