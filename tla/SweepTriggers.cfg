CONSTANTS
  g1 = g1  g2 = g2  g3 = g3
  Goroutines = {g1, g2, g3}
  MaxCrashes = 2
SPECIFICATION FairSpec
PROPERTIES SweepsRecur AuditSingleFlight PRSingleFlight
