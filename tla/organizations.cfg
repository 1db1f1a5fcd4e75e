\* Two users, one invitation, three requests of any kind, two of them at
\* once, one failure.
SPECIFICATION Spec
CONSTANTS
  User = {u1, u2}
  Invitation = {i1}
  Request = {r1, r2, r3}
  None = None
  MaxOpen = 2
  MaxFaults = 1
INVARIANTS
  OwnerKeptUnlessRaced
  EveryDepartureToldOnce
  SeatsOnce
PROPERTIES
  RevokedAdmitsNobody
SYMMETRY Symmetry
CHECK_DEADLOCK FALSE
