SPECIFICATION PairsSpec
CONSTANTS
  Tune <- ThreeRepos
  Requests <- ThreeRequests
  ListingOf <- ShortListings
  FaultsOf <- TwoFaulty
  PullOf <- PullsOfThree
  AuthorOf <- OneByTheAuthor
  RankOf <- Shuffled
  PullAuthor <- OneOpener
  MAX_PAIRS_PER_PR = 2
  PageSize = 3
  MaxPairsRuns = 2
INVARIANTS
  PairsAreDistinct
CHECK_DEADLOCK FALSE
