CONSTANTS
  r1 = r1  r2 = r2  c1 = c1  c2 = c2  system = system  script = script
  Repos = {r1, r2}
  Conventions = {c1, c2}
  Types = {system, script}
  AppliesTo <- MCAppliesTo
  NoIssues = {r2}
  Handlers = {}
  Production = TRUE
  DbWritesFail = FALSE
  MaxEvents = 1
  MaxFaults = 2
  NoPair = NoPair
  NoType = NoType
SPECIFICATION Spec
INVARIANT NoCheckForgotten
PROPERTIES OnlyOutOfScopeDeleted OnlyScopeSurvives TableRefined
