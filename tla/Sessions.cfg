\* One device and two sessions, no device and three, or one call, with commands that fail.
SPECIFICATION MCSpec
CONSTANTS
  Users = {u1}
  Devices = {d1}
  Sids = {s1, s2, s3}
  Calls = {c1, c2}
  LoneSids = {t1, t2, t3}
  LoneCalls = {c3}
  Phantom = Phantom
  None = None
  Faults = TRUE
SYMMETRY Symmetry
INVARIANTS TypeOK IssuedWasListed RevokedNeverLive
PROPERTIES RevocationIsImmediate RefreshKeepsOneAlive ImplementsSessionLife DeletionFadesOut
\* Every user may have been deleted, and then nothing happens any more.
CHECK_DEADLOCK FALSE
