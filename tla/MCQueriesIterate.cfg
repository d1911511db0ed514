SPECIFICATION Spec
CONSTANTS
  Backends = {"c", "nodejs", "rust"}
  Searches <- MCSearches
  Tables <- MCTables
  Values = {1, 2}
INVARIANT BoundRight
CHECK_DEADLOCK FALSE
