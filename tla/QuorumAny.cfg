SPECIFICATION Spec
CONSTANTS
  Monitors = {g1}
  Originals = {rabbit1, rabbit2}
  Seed = rabbit1
  Spares = {s1, s2, s3}
  NoNode = NoNode
  MaxRetries = 2
  MaxFailures = 1
  MaxReturns = 0
  MaxErrors = 0
  MaxCrashes = 0
CHECK_DEADLOCK FALSE
PROPERTY AnyNodeRecovered
