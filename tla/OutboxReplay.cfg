SPECIFICATION Spec
CONSTANTS
  r1 = r1
  r2 = r2
  r3 = r3
  d1 = d1
  d2 = d2
  d3 = d3
  c1 = c1
  c2 = c2
  k1 = k1
  k2 = k2
  svc = svc
  usr = usr
  Row = {r1, r2, r3}
  Drain = {d1}
  Client = {c1, c2}
  Key = {k1, k2}
  Operator = {svc, usr}
  operatorOf <- SameOperator
  None = None
  BatchLimit = 1
  MaxAttempts = 1
  MaxAborts = 0
  MaxLapses = 0
SYMMETRY RowSymmetry
INVARIANTS ReplaysSound
\* All rows settled and nobody replays: the outbox is at rest.
CHECK_DEADLOCK FALSE
