SPECIFICATION LiveSpec
CONSTANTS
  Users = {u1, u2}
  Writes = {w1}
  MayClose = TRUE
  WriteMayFail = TRUE
INVARIANT MonitorInv
INVARIANT FailureIsReported
INVARIANT LastFlush
INVARIANT CloseWaits
PROPERTY Implements
PROPERTY PendingIsFlushed
PROPERTY CloseReturns
