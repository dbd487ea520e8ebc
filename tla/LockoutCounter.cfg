SPECIFICATION Spec
CONSTANTS
  Backends = {"redis"}
  Threshold = 2
  LockTTL = 2
  CounterTTL = 3
  Calls = {c1, c2}
  None = None
  Faults = TRUE
INVARIANT CounterExpires
