SPECIFICATION Spec
CONSTANTS
  Rows = {r1, r2, r3}
  Vals = {v1, v2, v3}
  Limit = 2
  Absent = Absent
  NoItem = NoItem
INVARIANT WriteBackInv
INVARIANT UpdatesFit
INVARIANT AllItemsAreSent
PROPERTY WrittenAtOnce
PROPERTY RefusedOnlyWhenTraded
