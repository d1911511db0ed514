SPECIFICATION Spec
CONSTANTS
  user = user
  admin = admin
  root = root
  guest = guest
  search = search
  insert = insert
  All = all
  Default = default
  None = none
  Named <- MCNamed
  Parent <- MCParent
  Backend = "c"
  Ops = {search, insert}
  Queries = {search}
  Following = {search}
  Rolemaps <- MCRolemaps
INVARIANTS TypeOK BoxAgrees ExecutedGranted DeniedUngranted ExportGranted AncestorsAccepted
PROPERTIES AncestorsOnly ImplementsAccessControl
CHECK_DEADLOCK FALSE
