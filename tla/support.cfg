SPECIFICATION Spec
CONSTANTS
  NTests = 2
  MaxFailures = 1
  MaxDropped = 1
  MaxBlocks = 3
  MaxCost = 2
  MaxBudget = 5
  MigrationJobs = {j1, j2}
  LastMigration = 2
  MaxMigrates = 3
  f = f
  g = g
  h = h
  Paths = {f, g, h}
  LinesOf <- ThreeFiles
  HitsOf <- ThreeHits
  Changed <- FilesInOrder
  Numbers <- AskedNumbers
  NoNumber = NoNumber
  Infinite = Infinite
  NoFile = NoFile
  MaxReadLines = 2
  MaxGrepMatches = 4
  CharsOf <- LineLengths
  HeaderChars = 2
  RowChars = 1
  MAX_ROW_CHARS = 2
  MAX_RESULT_CHARS = 8
  MaxToolCalls = 3
  repo = repo
  held = held
  Documents <- FiveDocuments
  Holdout = {held}
  Repositories = {repo, held}
  MaxScore = 1
  K = 1
  Budgets = {1, 3}
  FUSION_DEPTH = 2
  RRF_K = 60
  Scale = 3782
  DiffPaths = {a, b}
  MaxHunks = 2
  MaxSide = 2
  MaxDiffLines = 4
  Breaks = FALSE
  Trees <- SmallTrees
  NameOf <- NameOfLine
  SplitName <- NameSplit
  ExtrasIn <- ExtrasOfLine
  Checked <- CheckedLines
  MAX_REQUIREMENTS = 3
  GroupDepth = 5
  FileDepth = 3
  OutLines <- PytestLines
  ErrLines <- StrayLines
  MaxLines = 5
  Pieces <- LinePieces
  OUTPUT_CAP = 4
  MAX_FAILURES = 1
  Requirements = {"lib", "tool"}
  MAX_DROPPED_REQUIREMENTS = 1
INVARIANTS
  SupportTypeOK
  LeavesNothing
  RegressionsAreReal
  FitIsFair
  MigratedOnce
  AnswersAreHonest
  PastOnly
  NumbersAreTrue
  DetectionIsSound
  EvidenceIsHonest
CHECK_DEADLOCK FALSE
