SPECIFICATION Spec
CONSTANTS
  Backends = {"c", "nodejs", "rust"}
  Searches <- MCSearches
  Tables <- MCTables
  Values = {1, 2}
INVARIANTS BoundUnlessIterated ReturnedMatch MatchesAnswered GroupsBest
CHECK_DEADLOCK FALSE
