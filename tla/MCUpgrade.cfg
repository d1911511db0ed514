SPECIFICATION Spec
CONSTANTS
  MaxEdits = 2
  Bases <- MCBases
  Options <- MCOptions
INVARIANTS NamesExist ExitExact Reported
PROPERTIES ImplementsSchemas NothingLost
CHECK_DEADLOCK FALSE
