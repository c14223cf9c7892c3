SPECIFICATION IngestSpec
CONSTANTS
  s1 = s1
  s2 = s2
  s3 = s3
  i1 = i1
  i2 = i2
  i3 = i3
  Units = {s1, s2, s3, i1, i2, i3}
  KindOf <- SixKinds
  Rank <- SixRanks
  Contents = {1, 2}
  Collections <- TreesAndWindows
  LongestList = 5
  RowsPerShard = 3
  BatchSize = 3
  FilesPerCommit = 4
  NoRow = NoRow
INVARIANTS
  RowFindsText
CHECK_DEADLOCK FALSE
