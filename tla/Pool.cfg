SPECIFICATION Spec
CONSTANTS
  q1 = q1
  q2 = q2
  Ring <- TwoShards
  Extra = {e1, e2}
  NoWorker = NoWorker
  Threshold = 0
  Burst = 2
  HashSize = 4
  IntSize = 8
  MaxTasks = 2
CHECK_DEADLOCK FALSE
INVARIANTS TypeOK CountIsPool GaugeSettles EveryTaskHasShard ShardsServed
PROPERTIES ClosedPoolEmpties BacklogWorkedOff
