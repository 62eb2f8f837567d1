SPECIFICATION Spec
CONSTANTS
  MaxOps = 3
  MaxOrphans = 0
  MaxPackages = 1
  Kinds <- UserKinds
  Users <- TwoUsers
  NoUser = NoUser
  NoSchema = ""
  DefaultSchema = "d"
INVARIANT RunsInSchema
CHECK_DEADLOCK FALSE
