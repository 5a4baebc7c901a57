SPECIFICATION Spec
CONSTANTS
  Users = {u1}
  Writes = {w1, w2}
  MayClose = TRUE
  WriteMayFail = FALSE
INVARIANT CloseDrains
