SPECIFICATION DeliverySpec
CONSTANTS
  n1 = n1
  u1 = u1
  w1 = w1
  w2 = w2
  a1 = a1
  k1 = k1
  f1 = f1
  Node = {n1}
  User = {u1}
  Worker = {w1, w2}
  Actor = {a1}
  Key = {k1}
  Command <- OneWorker
  Fact = {f1}
  None = None
  MaxRetries = 3
  MaxTouches = 1
  MaxFailures = 1
  MaxAttempts = 3
INVARIANTS OutcomesTellTheTruth TaskFollowsWorkOrder OutcomeExplained
PROPERTIES ImplementsWorkLedger FactEventuallyCounted
\* The requests have their receipts and the rows of the facts are settled.
CHECK_DEADLOCK FALSE
