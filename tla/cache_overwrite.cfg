SPECIFICATION CacheSpec
CONSTANTS
  p1 = p1
  p2 = p2
  v1 = v1
  v2 = v2
  Urls = {p1, p2}
  First = p1
  Versions = {v1, v2}
  NoUrl = NoUrl
  LinkOf <- TwoPages
  MaxAttempts = 2
  MaxChanges = 2
  MaxDeaths = 1
INVARIANTS
  BodyMatchesMetadata
CHECK_DEADLOCK FALSE
