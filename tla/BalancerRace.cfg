SPECIFICATION Spec
CONSTANTS
  Gateways = {g1, g2}
  Proxies = {p1, p2}
  Scrapers = {}
  Pruner = Pruner
  NoThread = NoThread
  NoTarget = NoTarget
  MaxTries = 1
  MaxSlow = 0
  CounterMod = 6
CHECK_DEADLOCK FALSE
INVARIANTS AllUnhealthyIsTrue
