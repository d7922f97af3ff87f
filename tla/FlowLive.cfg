SPECIFICATION FairSpec
CONSTANTS
  Requests = {r1}
  Gateways = {g1, g2}
  Shards = {s1}
  ShardOf <- OneShard
  Forms <- RouteForms
  TaskWorkers = 1
  MaxRetries = 2
  MaxFaults = 1
  NoGateway = NoGateway
CHECK_DEADLOCK FALSE
INVARIANTS ReportsInOrder OneVerdict AnswersStand
PROPERTIES EveryClientAnswered DurableTasksDrain ImplementsService
