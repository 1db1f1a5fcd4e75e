SPECIFICATION Spec
CONSTANTS
  NoRow = NoRow
  Requests = {r1, r2}
  Members = {m1, m2}
  Files = {f1, f2}
  Names = {n1, n2}
  Exts = {png, jpg}
  Quota = 1
  MaxVersion = 2
SYMMETRY Symmetric
CONSTRAINT InScope
INVARIANTS StoreMatchesRows QuotaKeptUnlessRaced
CHECK_DEADLOCK FALSE
