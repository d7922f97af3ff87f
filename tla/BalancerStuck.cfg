SPECIFICATION FairSpec
CONSTANTS
  Gateways = {g1}
  Proxies = {p1}
  Scrapers = {}
  Pruner = Pruner
  NoThread = NoThread
  NoTarget = NoTarget
  MaxTries = 1
  MaxSlow = 0
  CounterMod = 6
CHECK_DEADLOCK FALSE
PROPERTIES DeadGatewaysRemoved
