SPECIFICATION Spec
CONSTANTS
  c1 = c1
  c2 = c2
  o1 = o1
  departed = departed
  sailing = sailing
  transit_arrived = transit_arrived
  transit_departed = transit_departed
  arrived = arrived
  Last = 3
  Departure = 1
  Optional = {2}
  Event = {transit_arrived, transit_departed, arrived}
  Targets <- TargetsOfEvents
  StatusOf <- RankOfEvents
  At <- TimesOfEvents
  Caller = {c1, c2}
  Operator = {o1}
  Asked <- SkipMiddle
  None = None
  MaxExecutions = 3
  MaxCrashes = 1
  MaxDecisions = 1
  MaxBlocks = 1
SYMMETRY Executions
INVARIANTS TypeOK OneOpenNode TimesInOrder CompletedByOneEvent StatusIsExplained AnnouncedWasReached BlockedWhileOpen
PROPERTIES HistorySealed
