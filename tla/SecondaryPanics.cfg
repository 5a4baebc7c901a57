SPECIFICATION KeyedSpec
CONSTANTS
  Users = {u1}
  Rows = {r1}
  Columns = {Email}
  Vals = {e1}
  Immutable = TRUE
  WriteMayFail = FALSE
  Absent = Absent
  Email = Email
  Forms = {"compute"}
  EvictsAlone = TRUE
  NoRow = NoRow
  e1 = e1
  SecondaryOf <- OneKeyOf
INVARIANT NoCallPanics
