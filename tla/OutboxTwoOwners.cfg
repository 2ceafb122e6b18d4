SPECIFICATION FairSpec
CONSTANTS
  r1 = r1
  r2 = r2
  r3 = r3
  d1 = d1
  d2 = d2
  d3 = d3
  c1 = c1
  c2 = c2
  k1 = k1
  k2 = k2
  svc = svc
  usr = usr
  Row = {r1}
  Drain = {d1, d2, d3}
  Client = {}
  Key = {}
  Operator = {svc, usr}
  operatorOf <- TwoOperators
  None = None
  BatchLimit = 1
  MaxAttempts = 3
  MaxAborts = 1
  MaxLapses = 2
PROPERTIES FenceStopsOthers EventuallySettled DeadLetterIsAlerted
\* All rows settled and nobody replays: the outbox is at rest.
CHECK_DEADLOCK FALSE
