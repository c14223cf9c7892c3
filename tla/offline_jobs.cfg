SPECIFICATION Spec
CONSTANTS
  j1 = j1
  j2 = j2
  j3 = j3
  p1 = p1
  p2 = p2
  p3 = p3
  q1 = q1
  q2 = q2
  P = P
  Q = Q
  A = A
  B = B
  C = C
  branch = branch
  name = name
  Groups = {branch, name}
  Jobs = {j1, j2, j3}
  BatchNames = {A, B, C}
  Pulls = {p1, p2, p3, q1, q2}
  RepoOf <- TwoRepos
  Shuffle <- ThreeShuffles
  CompareTo <- ThirdComparesFirst
  Count = 2
  MaxDeaths = 1
  MaxSpent = 1
  s1 = s1
  s2 = s2
  s3 = s3
  i1 = i1
  i2 = i2
  i3 = i3
  Units = {s1, s2, s3, i1, i2, i3}
  KindOf <- SixKinds
  Rank <- SixRanks
  Contents = {1, 2}
  Collections <- TreesAndWindows
  LongestList = 5
  RowsPerShard = 2
  BatchSize = 3
  FilesPerCommit = 4
  NoRow = NoRow
  Corpora = {1, 2, 3}
  HasGold = {1, 2}
  CandidatesOf <- TwoRankings
  Parts = {"p"}
  Shards = {"s"}
  MaxTableRuns = 2
  MaxMinings = 2
  MaxJobFailures = 1
  Missing = Missing
  Tune <- ThreeRepos
  Requests <- ThreeRequests
  ListingOf <- ShortListings
  FaultsOf <- TwoFaulty
  PullOf <- PullsOfThree
  AuthorOf <- OneByTheAuthor
  RankOf <- Shuffled
  PullAuthor <- OneOpener
  MAX_PAIRS_PER_PR = 2
  PageSize = 3
  MaxPairsRuns = 2
  MAX_CHARS = 6
  MIN_CHARS = 2
  Lengths = {1, 4}
  MaxFile = 5
  BrokenKinds = {"blank", "in"}
SYMMETRY JobSymmetry
INVARIANTS
  OfflineTypeOK
  DraftedOnce
  RowsHaveShards
  RerunWritesNothing
  IndexFollowsTree
  TableIsOneStudy
  FrozenSetIsFair
  ChunksKeepTheFile
PROPERTIES
  CorpusKeepsPromise
  ChoiceIsFair
CHECK_DEADLOCK FALSE
