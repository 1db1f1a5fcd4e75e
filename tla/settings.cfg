\* Two edits of two keys, alone or together, on two instances; two faults:
\* failed edits, boots without the database, exits; two requests about the
\* overrides of one organization, which may be deleted.
SPECIFICATION OrgSpec
CONSTANTS
  Setting = {k1, k2}
  Value = {v0, v1}
  Default = v0
  NoValue = NoValue
  Edit = {e1, e2}
  Instance = {i1, i2}
  MaxOpen = 2
  MaxFaults = 2
  Org = {o1}
  Overridable = {k1}
  OrgRequest = {r1, r2}
  MaxOverrides = 2
CONSTRAINT Apart
INVARIANTS
  NoLostUpdate
  OrgsGetWhatWasTold
PROPERTIES
  EndsFresh
CHECK_DEADLOCK FALSE
