SPECIFICATION LiveSpec
CONSTANTS
  k1 = k1
  k2 = k2
  Keys = {k1, k2}
  PrimaryOf <- OneRowOf
  States = {s1, s2, s3}
  Writes = {w1, w2, w3}
  Users = {u1, u2}
  Flushers = {f1}
  OpKinds = {"new", "delete"}
  FlushKinds = {"raw", "one"}
  DcMayFail = {"delete"}
  Immutable = TRUE
  WriteMayFail = TRUE
  Observed = FALSE
  ItemConfirm = FALSE
  NoState = NoState
  Nobody = Nobody
  NoJob = NoJob
INVARIANT IInv
PROPERTY CallsReturn
