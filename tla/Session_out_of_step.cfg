SPECIFICATION Spec
CONSTANTS
  MaxOps = 3
  MaxOrphans = 0
  MaxPackages = 1
  Kinds <- CoreKinds
  Users <- NoUsers
  NoUser = NoUser
  NoSchema = ""
  DefaultSchema = ""
INVARIANT PoolInStep
CHECK_DEADLOCK FALSE
