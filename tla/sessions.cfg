SPECIFICATION Spec
CONSTANTS
  None = None
  alice = alice
  root = root
  b1 = b1
  Users = {root, alice}
  Admins = {root}
  Browsers = {b1}
  Window = 2
  MaxSessions = 2
  MaxWire = 2
  MaxTime = 3
  MaxCodes = 2
INVARIANTS SigningInIsOneFact DisguiseIsBounded RefreshStaysUsable
CONSTRAINT InScope
CHECK_DEADLOCK FALSE
