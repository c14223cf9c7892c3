SPECIFICATION ReplaySpec
CONSTANTS
  j1 = j1
  j2 = j2
  j3 = j3
  p1 = p1
  p2 = p2
  p3 = p3
  q1 = q1
  q2 = q2
  P = P
  Q = Q
  A = A
  B = B
  C = C
  branch = branch
  name = name
  Groups = {branch, name}
  Jobs = {j1, j2, j3}
  BatchNames = {A, B}
  Pulls = {p1, p2, p3, q1, q2}
  RepoOf <- TwoRepos
  Shuffle <- TwoShuffles
  CompareTo <- NoComparison
  Count = 3
  MaxDeaths = 1
  MaxSpent = 0
SYMMETRY JobSymmetry
INVARIANTS
  RerunDraftsWhatIsLeft
CHECK_DEADLOCK FALSE
