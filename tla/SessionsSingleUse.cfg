SPECIFICATION Spec
CONSTANTS
  Users = {u1}
  Devices = {}
  Sids = {s1, s2, s3}
  Calls = {c1, c2}
  Phantom = Phantom
  None = None
  Faults = FALSE
INVARIANT RefreshIsSingleUse
CHECK_DEADLOCK FALSE
