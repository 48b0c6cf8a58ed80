CONSTANTS
  a = a  b = b  u = u  v1 = v1  v2 = v2
  Callers = {a, b}
  Urls = {u}
  Versions = {v1, v2}
  Waits <- MCWaits
  MinInterval = 2
  MaxWait = 3
  MaxOversleep = 1
  MaxCalls = 3
  MaxTime = 24
  NoWait = NoWait
  Nothing = Nothing
SPECIFICATION FairSpec
INVARIANTS NoSlotLost Agreement
PROPERTIES SpacedApart  CallsReturn
CHECK_DEADLOCK FALSE
