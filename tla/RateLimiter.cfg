SPECIFICATION Spec
CONSTANTS
  Keys = {k1, k2}
  Limit = 2
  Window = 3
  TicksPerSecond = 2
  MaxKeys = 0
  MaxTime = 7
INVARIANTS RetryAfterExact StaleKeysReclaimed
PROPERTY ImplementsSlidingWindow
