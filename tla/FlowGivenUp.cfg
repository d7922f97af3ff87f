SPECIFICATION Spec
CONSTANTS
  Requests = {r1}
  Gateways = {g1}
  Shards = {s1}
  ShardOf <- OneShard
  Forms <- RetryForms
  TaskWorkers = 1
  MaxRetries = 3
  MaxFaults = 0
  NoGateway = NoGateway
CHECK_DEADLOCK FALSE
INVARIANTS GivenUpTasksReachDlq
