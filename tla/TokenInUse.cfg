CONSTANTS
  sweep = sweep  a = a  b = b
  Callers = {sweep, a, b}
  Sweep = sweep
  Nobody = Nobody
  Lifetime = 6
  Margin = 2
  MaxExchange = 2
  MaxWork = 1
  MaxSkew = 1
  MaxTime = 9
SPECIFICATION FairSpec
INVARIANT LiveInUse
PROPERTY TokensArrive
