SPECIFICATION Spec
CONSTANTS
  Modes <- OnlySeq
  BulkSize = 2
  MaxRows = 4
  MaxChunks = 0
INVARIANTS
  StmtNoIsRow
