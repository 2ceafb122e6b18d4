SPECIFICATION Spec
CONSTANTS
  s1 = s1
  s2 = s2
  c1 = c1
  c2 = c2
  w1 = w1
  w2 = w2
  Shipment = {s1, s2}
  Container = {c1, c2}
  Proof = {"missing", "actual_time"}
  None = None
  NoFlow = NoFlow
  Planned = Planned
  MaxHandoffs = 3
  MaxMishaps = 2
  MaxEvents = 3
  Worker = {w1, w2}
SYMMETRY Interchangeable
INVARIANTS TypeOK RequestNamesActive ProcessedMeansStarted RefusedForAReason PendingIsUnderWay
PROPERTIES ImplementsLifecycleStart
CHECK_DEADLOCK FALSE
