SPECIFICATION RolesSpec
CONSTANTS
  user = user
  admin = admin
  typo = typo
  insert = insert
  search = search
  secret = secret
  id = id
  gone = gone
  None = none
  RoleNames = {user, admin, typo, none}
  Known = {user, admin, none}
  OpNames = {insert, search, gone}
  Present = {insert, search}
  ExportNames = {secret, id}
  Columns = {secret, id}
  RoleLists <- MCRoleLists
  MaxWritten = 4
INVARIANTS OperationsExact NeverAborts NoexportKept
SYMMETRY Symmetric
CHECK_DEADLOCK FALSE
