\* One ticket, two requests at a time, hours of two minutes, days of two hours.
CONSTANTS
  s1 = s1  s2 = s2  t1 = t1
  Ticket = {t1}
  Session = {s1, s2}
  None = None
  Hour = 2  Day = 4
  Skew = 1
  MaxTime = 3
  Asked <- MCAsked
SPECIFICATION Spec
SYMMETRY MCSymmetry
CHECK_DEADLOCK FALSE
INVARIANTS
  TypeOK
  CompletedAtMeansTerminal
  TimesInOrder
  SummaryCoversItsCompletions
  PeriodsAddUp
  PointsMatchSummaries
  RollupAgreesWithSummary
