CONSTANTS
  c1 = c1  c2 = c2  old = old  new = new  photos = photos
  Callers = {c1, c2}
  Repos = {photos}
  Kids = {old, new}
  jwksCacheDuration = 2
  limit = 1
  window = 2
  MaxRequests = 3
  MaxRotations = 1
  MaxTime = 2
SPECIFICATION FairSpec
INVARIANTS WithinLimit  NotShutOut
PROPERTY RequestsAnswered
CHECK_DEADLOCK FALSE
