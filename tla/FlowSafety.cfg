SPECIFICATION Spec
CONSTANTS
  Requests = {r1, r2}
  Gateways = {g1, g2}
  Shards = {s1}
  ShardOf <- OneShard
  Forms <- RouteForms
  TaskWorkers = 1
  MaxRetries = 1
  MaxFaults = 1
  NoGateway = NoGateway
CHECK_DEADLOCK FALSE
SYMMETRY Symmetry
INVARIANTS TypeOK NoClientStranded NobodyBlocked NoDurableTaskLost DeadAreReported
