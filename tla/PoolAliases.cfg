SPECIFICATION Spec
CONSTANTS
  k1 = k1
  k2 = k2
  Keys = {k1, k2}
  PrimaryOf <- OneRowOf
  States = {s1, s2, s3}
  Writes = {w1, w2}
  Users = {u1, u2}
  Flushers = {f1}
  OpKinds = {"new", "init", "change", "delete", "access"}
  FlushKinds = {"raw", "many", "one"}
  DcMayFail = {"change", "delete"}
  Immutable = FALSE
  WriteMayFail = TRUE
  Observed = TRUE
  ItemConfirm = TRUE
  NoState = NoState
  Nobody = Nobody
  NoJob = NoJob
SYMMETRY Symmetry
INVARIANT TypeOK
INVARIANT IInv
INVARIANT NoLostUpdate
INVARIANT WritersShareRecord
INVARIANT HoldersDoNotWait
PROPERTY ReleasedWhenWritten
PROPERTY Implements
