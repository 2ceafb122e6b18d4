SPECIFICATION Spec
CONSTANTS
  r1 = r1
  r2 = r2
  r3 = r3
  d1 = d1
  d2 = d2
  d3 = d3
  c1 = c1
  c2 = c2
  k1 = k1
  k2 = k2
  svc = svc
  usr = usr
  Row = {r1, r2}
  Drain = {d1, d2}
  Client = {}
  Key = {}
  Operator = {svc, usr}
  operatorOf <- SameOperator
  None = None
  BatchLimit = 2
  MaxAttempts = 2
  MaxAborts = 1
  MaxLapses = 1
SYMMETRY RowSymmetry
INVARIANTS TypeOK PublishedWasDelivered DeadLetterJustified AttemptsAreBounded NoSharedRowWithoutLapse
PROPERTIES SettledIsFinal ImplementsLedger
\* All rows settled and nobody replays: the outbox is at rest.
CHECK_DEADLOCK FALSE
