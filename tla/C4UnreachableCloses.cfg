CONSTANTS
  loganne = loganne  sys = sys  script = script
  Systems = {loganne, sys}
  Names = {loganne, sys, script}
  Loganne = loganne
  Public = {loganne, sys}
  DependsOn <- MCDependsOn
  WriteAuth = TRUE
  Absent = Absent
  Edited = Edited
  MaxEvents = 1
  MaxFaults = 1
SPECIFICATION Spec
PROPERTY ClosedOnlyWhenGone
