CONSTANTS
  general = general  hosted = hosted  scheduled = scheduled
  system = system  component = component
  Unconfigured = unconfigured  NoType = notype
  Conventions = {general, hosted, scheduled}
  Types = {system, component}
  AppliesTo <- MCAppliesTo
  ScheduledOnly = {scheduled}
  NeedsHosts = {hosted}
  MaxChanges = 1
  MaxFaults = 2
  MaxSweeps = 1
  MaxClients = 1
SPECIFICATION Spec
INVARIANTS RegressionsReal RegressionsFound DryRunComplete DiffExact
CHECK_DEADLOCK FALSE
