SPECIFICATION Spec
CONSTANTS
  MaxOps = 3
  MaxOrphans = 1
  MaxPackages = 1
  Kinds <- UserKinds
  Users <- NoUsers
  NoUser = NoUser
  NoSchema = ""
  DefaultSchema = "d"
INVARIANT RollbackFinal
CHECK_DEADLOCK FALSE
