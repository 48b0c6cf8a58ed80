CONSTANTS
  orb = orb  plain = plain  legacy = legacy  go = go  py = py
  analyzeGo = analyzeGo  analyzePy = analyzePy
  Names = {orb, plain, legacy, analyzeGo, analyzePy}
  Jobs = {orb}
  Langs = {go, py}
  Main = Main
  PRBranch = PRBranch
  Trees <- MCTrees
  RequiredSets <- MCRequired
  Analyze <- MCAnalyze
  Trim <- MCTrim
  Bare <- MCBare
  Context <- MCContext
  MaxFailures = 1
  MaxCommits = 3
SPECIFICATION Spec
INVARIANTS NoFalseStale  PassEarned Fixable SuggestionsWork
