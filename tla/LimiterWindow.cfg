SPECIFICATION Spec
CONSTANTS
  MaxRequests = 2
  Window = 3
  Horizon = 8
  MaxCalls = 6
CHECK_DEADLOCK FALSE
INVARIANTS SlidingLimit QuietUserAllowed
PROPERTY RefusedUntilPause
