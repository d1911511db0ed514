CONSTANTS
  Backends = {"c", "nodejs", "rust"}
  Schemas <- MCSchemas
  Arguments <- MCArguments
  MaxCalls = 2
SPECIFICATION Spec
INVARIANT PasswordsHashed
PROPERTIES ImplementsRecords ExcludedInC
CHECK_DEADLOCK FALSE
