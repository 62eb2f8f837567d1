SPECIFICATION ValuesSpec
CONSTANTS
  Modes = {"many", "fct", "seq"}
  BulkSize = 2
  MaxRows = 4
  MaxChunks = 2
  TinyBits = 3
  SmallBits = 4
  IntBits = 5
  BigBits = 6
  MaxReal = 56
  MaxDouble = 120
  RealBits = 3
  DoubleBits = 4
  LenSmall = 245
  LenMedium = 32767
  LenBig = 100000
  Hours = 3
  Minutes = 2
  Seconds = 2
  Ticks = 2
  TickNs = 2
  Digits = 2
  Bias = 4
  MantBits = 7
  ExpBits = 4
  ByteBits = 3
  WordBytes = 2
  Fixed8Size = 2
  Fixed12Size = 3
  Fixed16Size = 4
  ParamFields <- DecimalField8
  GoValues <- NegativeVals
  Texts8 <- AllTexts
  DstSizes = {6, 7}
  ReadLobs <- AllLobs
  ChunkSizes = {3, 5, 9}
  minLobChunkSize = 4
  maxLobChunkSize = 5
  MaxInline = 3
  WriteRows <- LobRows
  NumFieldSize = 1
  LobFieldSize = 2
  Scripts <- AllScripts
  Requests <- AllRequests
  SessionVars <- AllSessionVars
  Replies <- AllReplies
  MaxInt16 = 32767
  MaxUint16 = 65535
  MaxInt32 = 200000
  MaxUint32 = 400000
  Handshakes = {1, 2, 3}
  Logons <- AllLogons
  Salts = {1}
  RoundNums = {1, 2}
  maxEntry = 2
INVARIANTS
  DecimalRounded
CHECK_DEADLOCK FALSE
