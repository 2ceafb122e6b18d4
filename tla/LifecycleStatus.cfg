SPECIFICATION Spec
CONSTANTS
  c1 = c1
  c2 = c2
  o1 = o1
  departed = departed
  sailing = sailing
  transit_arrived = transit_arrived
  transit_departed = transit_departed
  arrived = arrived
  Last = 3
  Departure = 1
  Optional = {}
  Event = {departed, sailing}
  Targets <- TargetsOfEvents
  StatusOf <- RankOfEvents
  At <- TimesOfEvents
  Caller = {c1, c2}
  Operator = {}
  Asked <- Nobody
  None = None
  MaxExecutions = 2
  MaxCrashes = 0
  MaxDecisions = 0
  MaxBlocks = 0
SYMMETRY Executions
PROPERTIES StatusMonotone
