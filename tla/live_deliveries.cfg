SPECIFICATION FairLiveSpec
CONSTANTS
  a = a
  b = b
  c = c
  r1 = r1
  r2 = r2
  r3 = r3
  Runs = {r1, r2, r3}
  Lines = {a}
  Cap = 1
  Batches <- NothingKept
  NoRow = NoRow
  NPushes = 2
  MaxTries = 2
  MaxHuman = 0
  NoRun = NoRun
INVARIANTS
  OneReviewPerDelivery
  NewestReviewed
PROPERTIES
  HeadGetsReviewed
CHECK_DEADLOCK FALSE
