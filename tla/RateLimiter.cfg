\* A window of two and a half seconds, cut to an expiry of two.
SPECIFICATION Spec
CONSTANTS
  Requests = {r1, r2, r3, r4}
  Backends = {"redis", "memory"}
  Limit = 2
  Window = 5
  Second = 2
  Delay = 1
  MaxTime = 9
  None = None
  Faults = TRUE
SYMMETRY Symmetry
INVARIANT TypeOK NeverMoreThanLimit
PROPERTY RefusalIsEarned
CHECK_DEADLOCK FALSE
