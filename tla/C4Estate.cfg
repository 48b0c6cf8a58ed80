CONSTANTS
  loganne = loganne  sys = sys  script = script
  Systems = {loganne, sys}
  Names = {loganne, sys}
  Loganne = loganne
  Public = {loganne, sys}
  DependsOn <- MCDependsOn
  WriteAuth = TRUE
  Absent = Absent
  Edited = Edited
  MaxEvents = 2
  MaxFaults = 1
SPECIFICATION FairSpec
INVARIANTS EdgesDeclared SuccessIsFresh
PROPERTIES IssuesTrue IssuesConverge ModelConverges CommitsCease
