SPECIFICATION Spec
CONSTANTS
  k1 = k1
  k2 = k2
  Keys = {k1, k2}
  PrimaryOf <- TwoRowsOf
  States = {s1, s2, s3}
  Writes = {w1, w2}
  Users = {u1}
  Flushers = {f1, f2}
  OpKinds = {"new", "change", "delete", "access"}
  FlushKinds = {"raw", "one"}
  DcMayFail = {}
  Immutable = TRUE
  WriteMayFail = TRUE
  Observed = TRUE
  ItemConfirm = TRUE
  NoState = NoState
  Nobody = Nobody
  NoJob = NoJob
SYMMETRY Symmetry
INVARIANT WrittenOnce
INVARIANT GuardsMatchPool
INVARIANT NoPanic
