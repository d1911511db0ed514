SPECIFICATION Spec
CONSTANTS
  user = user
  admin = admin
  guest = guest
  All = all
  Default = default
  None = none
  Named <- MCNamed
  Parent <- MCParent
  Structs <- MCStructs
  FieldsOf <- MCFieldsOf
  Embedded <- MCEmbedded
  Passwords = {"secret"}
  Writes <- MCWrites
  Searches <- MCSearches
  Returns <- MCReturns
  Counts = {"count"}
  Grants <- MCGrants
  Noexports <- MCNoexports
  Flags <- MCFlags
  Audited <- Roles
INVARIANTS AllReported ExportsExact
CHECK_DEADLOCK FALSE
