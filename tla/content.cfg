SPECIFICATION ContentSpec
CONSTANTS
  NoRow = NoRow
  Requests = {r1, r2}
  i1 = i1
  i2 = i2
  i3 = i3
  h1 = h1
  h2 = h2
  h3 = h3
  Rank <- InOrder
  Scopes <- Groups
  Belongs <- InOrgs
  Founder <- OwnedBy
  Items = {i1, i2, i3}
  Seeded = i3
  Handles = {h1, h2, h3}
  Reserved = {h2}
  Limit = 2
  DailyLimit = 1
  MaxOwned = 1
  MaxWrites = 2
  MaxDay = 1
  Day <- Dates
CONSTRAINT Edited
SYMMETRY Symmetric
INVARIANTS UniqueUnlessRaced JournalTellsRows
PROPERTIES LimitsKeptUnlessRaced MovesLand
CHECK_DEADLOCK FALSE
