SPECIFICATION Spec
CONSTANTS
  Users = {u1}
  Devices = {d1}
  Sids = {s1, s2}
  Calls = {c1}
  Phantom = Phantom
  None = None
  Faults = FALSE
PROPERTY RevokedDeviceHasNoSession
CHECK_DEADLOCK FALSE
