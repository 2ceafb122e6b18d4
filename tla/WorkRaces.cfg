SPECIFICATION Spec
CONSTANTS
  n1 = n1
  u1 = u1
  u2 = u2
  w1 = w1
  a1 = a1
  a2 = a2
  k1 = k1
  k2 = k2
  f1 = f1
  Node = {n1}
  User = {u1, u2}
  Worker = {}
  Actor = {a1, a2}
  Key = {k1, k2}
  Command <- Rivals
  Fact = {}
  None = None
  MaxRetries = 2
  MaxTouches = 1
  MaxFailures = 1
SYMMETRY Interchangeable
INVARIANTS TypeOK ReceiptsAreTrue
PROPERTIES WorkIsFinal ImplementsWorkLedger
\* Every key has its receipt and nobody delivers a fact: nothing is left to do.
CHECK_DEADLOCK FALSE
