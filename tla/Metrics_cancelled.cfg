SPECIFICATION Spec
CONSTANTS
  d1 = d1
  c1 = c1
  c2 = c2
  c3 = c3
  Driver = Driver
  DBs = {d1}
  Conns = {c1, c2}
  MetricsOf <- OneDB
  Cap = 2
  MaxMsgs = 2
  Cancels = {c1}
  Orderly = TRUE
INVARIANTS
  NoSendOnClosed
CHECK_DEADLOCK FALSE
