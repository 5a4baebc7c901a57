SPECIFICATION Spec
CONSTANTS
  Users = {u1, u2, u3}
  Rows = {r1}
  Columns = {c1, c2}
  Vals = {v1, v2, v3}
  Immutable = TRUE
  WriteMayFail = TRUE
  Absent = Absent
SYMMETRY Symmetry
INVARIANT TypeOK
INVARIANT RowsInv
INVARIANT Faithful
INVARIANT Flushable
INVARIANT ReadsLatest
INVARIANT CacheIsLatest
PROPERTY ImplementsStore
