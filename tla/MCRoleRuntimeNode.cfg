SPECIFICATION Spec
CONSTANTS
  user = user
  admin = admin
  root = root
  guest = guest
  search = search
  insert = insert
  All = all
  Default = default
  None = none
  Named <- MCNamed
  Parent <- MCParent
  Backend = "nodejs"
  Ops = {search, insert}
  Queries = {search}
  Following = {search}
  Rolemaps <- MCRolemaps
INVARIANT MappedGranted
CHECK_DEADLOCK FALSE
