SPECIFICATION Spec
CONSTANTS
  User = {u1, u2}
  Request = {r1, r2}
  NoOne = NoOne
  NoUser = NoUser
  MaxFaults = 2
SYMMETRY Alike
INVARIANTS ActingAdminKept OneFounderUnlessRaced NobodyPassedOver DeletionTold
CHECK_DEADLOCK FALSE
