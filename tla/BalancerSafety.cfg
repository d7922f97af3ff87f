SPECIFICATION Spec
CONSTANTS
  Gateways = {g1, g2}
  Proxies = {p1, p2}
  Scrapers = {s1}
  Pruner = Pruner
  NoThread = NoThread
  NoTarget = NoTarget
  MaxTries = 2
  MaxSlow = 1
  CounterMod = 2
CHECK_DEADLOCK FALSE
SYMMETRY Symmetry
INVARIANTS TypeOK NoDuplicates RegisteredStay TargetRegistered LoneRequestTriesAll OnlyStuckBlock
PROPERTIES StuckForGood ImplementsRegistry
