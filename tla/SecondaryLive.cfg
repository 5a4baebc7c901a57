SPECIFICATION KeyedLiveSpec
CONSTANTS
  Users = {u1, u2}
  Rows = {r1}
  Columns = {Email}
  Vals = {e1}
  Immutable = FALSE
  WriteMayFail = TRUE
  Absent = Absent
  Email = Email
  Forms = {"compute", "init"}
  EvictsAlone = TRUE
  NoRow = NoRow
  e1 = e1
  SecondaryOf <- OneKeyOf
PROPERTY KeyedCallsReturn
