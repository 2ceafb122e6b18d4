SPECIFICATION Spec
CONSTANTS
  s1 = s1
  s2 = s2
  c1 = c1
  c2 = c2
  w1 = w1
  w2 = w2
  Shipment = {s1, s2}
  Container = {c1, c2}
  Proof = {"actual_time"}
  None = None
  NoFlow = NoFlow
  Planned = Planned
  MaxHandoffs = 2
  MaxMishaps = 3
  MaxEvents = 2
  Worker = {w1}
SYMMETRY Interchangeable
INVARIANTS FrozenScopeStaysLinked
CHECK_DEADLOCK FALSE
