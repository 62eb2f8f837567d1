SPECIFICATION LiveSpec
CONSTANTS
  MaxOps = 3
  MaxOrphans = 1
  MaxPackages = 1
  Kinds <- LiveKinds
  Users <- OneUser
  NoUser = NoUser
  NoSchema = ""
  DefaultSchema = "d"
INVARIANTS
  OneUserPerTx
PROPERTIES
  EveryCallEnds
CHECK_DEADLOCK FALSE
