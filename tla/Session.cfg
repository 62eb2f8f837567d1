SPECIFICATION Spec
CONSTANTS
  MaxOps = 3
  MaxOrphans = 1
  MaxPackages = 2
  Kinds <- CoreKinds
  Users <- NoUsers
  NoUser = NoUser
  NoSchema = ""
  DefaultSchema = ""
CONSTRAINT UsersOrCancel
INVARIANTS
  TypeOK
  OwnReply
  OneAtATime
  CommitOnly
  AutoCommitted
  PoolClean
  GaugesExact
  StatementsMatch
PROPERTIES
  Transactional
CHECK_DEADLOCK FALSE
