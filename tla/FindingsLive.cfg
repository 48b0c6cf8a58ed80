CONSTANTS
  r1 = r1  r2 = r2  c1 = c1  c2 = c2  system = system  script = script
  Repos = {r1}
  Conventions = {c1}
  Types = {system, script}
  AppliesTo <- MCAppliesTo
  NoIssues = {}
  Handlers = {h1}
  Production = TRUE
  DbWritesFail = TRUE
  MaxEvents = 3
  MaxFaults = 2
  NoPair = NoPair
  NoType = NoType
SPECIFICATION FairSpec
INVARIANTS AtMostOneOpenIssue NoFalseVerdict
PROPERTIES Converges SweepEnds
