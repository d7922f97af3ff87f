SPECIFICATION Spec
CONSTANTS
  Monitors = {g1}
  Originals = {rabbit1, rabbit2}
  Seed = rabbit1
  Spares = {s1, s2, s3}
  NoNode = NoNode
  MaxRetries = 2
  MaxFailures = 2
  MaxReturns = 1
  MaxErrors = 1
  MaxCrashes = 1
CHECK_DEADLOCK FALSE
INVARIANTS TypeOK MembersHaveContainers PlacesKept HealthyUntouched SeedNeverRecovered
PROPERTY QuorumRestored
