SPECIFICATION LiveSpec
CONSTANTS
  a = a
  b = b
  c = c
  r1 = r1
  r2 = r2
  r3 = r3
  Runs = {r1, r2}
  Lines = {a, b, c}
  Cap = 2
  Batches <- SomeKept
  NoRow = NoRow
  NPushes = 2
  MaxTries = 1
  MaxHuman = 1
  NoRun = NoRun
SYMMETRY RunSymmetry
INVARIANTS
  LiveTypeOK
  FinishedBeforePosted
  NotWhereCommented
CHECK_DEADLOCK FALSE
