\* Three calls at once against a threshold of two without faults, or two with them.
SPECIFICATION MCSpec
CONSTANTS
  Backends = {"redis", "memory"}
  Threshold = 2
  LockTTL = 2
  CounterTTL = 3
  Calls = {c1, c2, c3}
  FaultyCalls = {f1, f2}
  None = None
  Faults = FALSE
INVARIANTS TypeOK GuessesAreBounded CounterExpires
PROPERTY FaultyLockoutEnds
