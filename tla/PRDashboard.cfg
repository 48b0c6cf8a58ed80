CONSTANTS
  a = a  b = b  p1 = p1  p2 = p2  p3 = p3   bot = bot  owner = owner
  Repos = {a, b}
  PRs = {p1, p2, p3}
  Home <- MCHome
  Dependabots = {p1}
  Bots = {bot}
  Owner = owner
  Checks <- MCChecks
  ReviewLists <- MCReviewLists
  Initially <- MCInitially
  PageSize = 1
  MaxEvents = 2
  MaxFailures = 1
SPECIFICATION FairDashboardSpec
INVARIANTS CountedOnce 
PROPERTIES HealthFollows
