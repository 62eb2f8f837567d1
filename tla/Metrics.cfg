SPECIFICATION FairSpec
CONSTANTS
  d1 = d1
  c1 = c1
  c2 = c2
  c3 = c3
  Driver = Driver
  DBs = {d1}
  Conns = {c1, c2, c3}
  MetricsOf <- Mixed
  Cap = 1
  MaxMsgs = 2
  Cancels = {c1}
  Orderly = TRUE
INVARIANTS
  TypeOK
  Conservation
  Drained
  GaugeExact
  OnlyAbandonedSends
PROPERTIES
  CloseEnds
CHECK_DEADLOCK FALSE
