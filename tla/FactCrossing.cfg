SPECIFICATION Spec
CONSTANTS
  f1 = f1
  f1x = f1x
  f2 = f2
  c1 = c1
  c2 = c2
  FinalNode = 2
  Fact = {f1x}
  NodeOf <- NodeOfFacts
  PlaceOf <- PlacesOfFacts
  At <- TimesOfFacts
  Supersedes <- CorrectedFacts
  Guarded = {}
  Caller = {c1, c2}
  None = None
  MaxRepeats = 1
  MaxTouches = 0
  MaxTroubles = 0
SYMMETRY Commands
CHECK_DEADLOCK FALSE
INVARIANTS DoneIsNotRejected
