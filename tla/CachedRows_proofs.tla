-------------------------- MODULE CachedRows_proofs --------------------------
(***************************************************************************)
(* What users see and what is written of a row is what was last accepted,  *)
(* for any number of users, rows, columns and values and for every data    *)
(* controller, unless the row is exposed.                                  *)
(***************************************************************************)
EXTENDS CachedRowsInv, TLAPS

-----------------------------------------------------------------------------
(* The updates of DCCommon                                                 *)

\* The four kinds of update.
LEMMA UpdateForms ==
  ASSUME NEW upd \in Updates
  PROVE  \/ upd = NoUpdate
         \/ upd = Delete
         \/ \E am \in ActiveModel : upd = Insert(am)
         \/ \E am \in ActiveModel : upd = Update(am)
  BY DEF Updates, Insert, Update

\* What each of them makes of a row.
LEMMA WrittenForms ==
  ASSUME NEW row, NEW am \in ActiveModel
  PROVE  /\ Written(NoUpdate, row) = row
         /\ Written(Delete, row) = Absent
         /\ Written(Insert(am), row) = Model(am)
         /\ row = Absent => Written(Update(am), row) = Absent
         /\ row # Absent =>
              Written(Update(am), row) =
                [c \in Columns |-> IF am[c].state = "set" THEN am[c].val ELSE row[c]]
  BY DEF Written, NoUpdate, Delete, Insert, Update

\* An update of a row that is there leaves it there.
LEMMA UpdateLeavesRow ==
  ASSUME NEW am \in ActiveModel, NEW row \in Value \cup {Absent}, row # Absent
  PROVE  Written(Update(am), row) \in Value
  <1>1. Written(Update(am), row) = [c \in Columns |-> IF am[c].state = "set" THEN am[c].val ELSE row[c]]
    BY WrittenForms
  <1>. QED
    BY <1>1 DEF Value, ActiveModel, ActiveValue

\* Writing an update leaves a row or none.
LEMMA WrittenType ==
  ASSUME NEW upd \in Updates, NEW row \in Value \cup {Absent}
  PROVE  Written(upd, row) \in Value \cup {Absent}
  <1>1. CASE upd = NoUpdate
    BY <1>1 DEF Written, NoUpdate
  <1>2. CASE upd = Delete
    BY <1>2 DEF Written, Delete
  <1>3. ASSUME NEW am \in ActiveModel, upd = Insert(am)
        PROVE  Written(upd, row) \in Value
    <2>1. Written(upd, row) = Model(am)
      BY <1>3, WrittenForms
    <2>. QED
      BY <2>1 DEF Model, Value, ActiveModel, ActiveValue
  <1>4. ASSUME NEW am \in ActiveModel, upd = Update(am), row # Absent
        PROVE  Written(upd, row) \in Value
    BY <1>4, UpdateLeavesRow
  <1>5. ASSUME NEW am \in ActiveModel, upd = Update(am), row = Absent
        PROVE  Written(upd, row) = Absent
    BY <1>5, WrittenForms
  <1>. QED
    BY <1>1, <1>2, <1>3, <1>4, <1>5, UpdateForms

\* A value turned into a record of unchanged columns, and back.
LEMMA IntoActiveType ==
  ASSUME NEW v \in Value
  PROVE  IntoActive(v) \in ActiveModel /\ Model(IntoActive(v)) = v
  BY DEF IntoActive, Model, Value, ActiveModel, ActiveValue

\* wbdbc_on_new: the update writes the new value to a table that has no such row.
LEMMA NewSays ==
  ASSUME NEW v \in Value, NEW row
  PROVE  /\ Insert(IntoActive(v)) \in Updates
         /\ Written(Insert(IntoActive(v)), row) = v
         /\ row = Absent => Acceptable(Insert(IntoActive(v)), row)
         /\ Known(Insert(IntoActive(v)), row)
         /\ Insert(IntoActive(v)) # NoUpdate
  <1>1. Written(Insert(IntoActive(v)), row) = v
    BY IntoActiveType, WrittenForms
  <1>2. Insert(IntoActive(v)) \in Updates
    BY IntoActiveType DEF Updates, Insert
  <1>. QED
    BY <1>1, <1>2 DEF Insert, Acceptable, Known, NoUpdate

\* wbdc_on_delete: a pending insertion is dropped, which is right if the table has no
\* such row, and everything else becomes a deletion.
LEMMA DeleteSays ==
  ASSUME NEW prev \in Updates, NEW row, Acceptable(prev, row)
  PROVE  /\ OnDelete(prev) \in Updates
         /\ Written(OnDelete(prev), row) = Absent
         /\ Acceptable(OnDelete(prev), row)
         /\ Known(OnDelete(prev), row)
  <1>1. CASE Drops(prev)
    BY <1>1 DEF OnDelete, Drops, Acceptable, Written, Known, NoUpdate, Updates
  <1>2. CASE ~Drops(prev)
    BY <1>2 DEF OnDelete, Acceptable, Written, Known, Delete, Updates
  <1>. QED
    BY <1>1, <1>2

\* Comparing a value with a base: the result tells the value, and what it leaves
\* unchanged was so in the base.
LEMMA DiffSays ==
  ASSUME NEW base \in ActiveModel, NEW v \in Value
  PROVE  /\ Diff(base, v) \in ActiveModel
         /\ \A c \in Columns :
              /\ Diff(base, v)[c].val = v[c]
              /\ Diff(base, v)[c].state = "unchanged" =>
                   base[c].state = "unchanged" /\ base[c].val = v[c]
  BY DEF Diff, IntoActive, Value, ActiveModel, ActiveValue

\* An update of a stored row that tells a value, and knows the rest, writes that value.
LEMMA UpdateWrites ==
  ASSUME NEW am \in ActiveModel, NEW v \in Value, NEW row \in Value,
         \A c \in Columns : am[c].val = v[c],
         \A c \in Columns : am[c].state = "unchanged" => am[c].val = row[c]
  PROVE  Written(Update(am), row) = v
  <1>1. Written(Update(am), row) =
          [c \in Columns |-> IF am[c].state = "set" THEN am[c].val ELSE row[c]]
    BY RowsAssumption, WrittenForms
  <1>2. \A c \in Columns : am[c].state \in {"set", "unchanged"}
    BY DEF ActiveModel, ActiveValue
  <1>. QED
    BY <1>1, <1>2 DEF Value

\* A change of a row without a pending update.
LEMMA FirstChange ==
  ASSUME NEW old \in Value, NEW v \in Value
  PROVE  LET n == OnChange(v, old, NoUpdate)
         IN  /\ n \in Updates
             /\ Written(n, old) = v
             /\ Acceptable(n, old)
             /\ Known(n, old)
             /\ ~Changed(v, old, NoUpdate) => n = NoUpdate /\ v = old
  <1>. DEFINE base == IntoActive(old)
              n == OnChange(v, old, NoUpdate)
              d == Diff(base, v)
  <1>1. base \in ActiveModel
    BY IntoActiveType
  <1>2. Base(old, NoUpdate) = base
    BY DEF Base
  <1>3. CASE Changed(v, old, NoUpdate)
    <2>1. n = Update(d)
      BY <1>2, <1>3 DEF OnChange, Replaced
    <2>2. /\ d \in ActiveModel
          /\ \A c \in Columns : d[c].val = v[c]
          /\ \A c \in Columns : d[c].state = "unchanged" => base[c].val = v[c]
      BY <1>1, DiffSays
    <2>3. \A c \in Columns : d[c].state = "unchanged" => d[c].val = old[c]
      BY <2>2 DEF IntoActive
    <2>4. Written(n, old) = v
      BY <2>1, <2>2, <2>3, UpdateWrites
    <2>5. n \in Updates
      BY <2>1, <2>2 DEF Updates, Update
    <2>. QED
      BY <1>3, <2>1, <2>3, <2>4, <2>5, RowsAssumption DEF Acceptable, Known, Update
  <1>4. CASE ~Changed(v, old, NoUpdate)
    <2>1. IntoActive(old) = IntoActive(v)
      BY <1>2, <1>4 DEF Changed
    <2>2. old = v
      BY <2>1, IntoActiveType
    <2>3. n = NoUpdate
      BY <1>4 DEF OnChange
    <2>. QED
      BY <1>4, <2>2, <2>3 DEF Written, Acceptable, Known, NoUpdate, Updates
  <1>. QED
    BY <1>3, <1>4

\* A change of a row whose insertion or modification is pending.
LEMMA FurtherChange ==
  ASSUME NEW old \in Value, NEW v \in Value, NEW prev \in Updates,
         NEW row \in Value \cup {Absent},
         prev # NoUpdate, prev # Delete,
         Written(prev, row) = old, Acceptable(prev, row), Known(prev, row)
  PROVE  LET n == OnChange(v, old, prev)
         IN  /\ n \in Updates
             /\ Written(n, row) = v
             /\ Acceptable(n, row)
             /\ Known(n, row)
             /\ ~Changed(v, old, prev) => n = prev /\ v = old
  <1>. DEFINE n == OnChange(v, old, prev)
  <1>1. PICK am \in ActiveModel : prev = Insert(am) \/ prev = Update(am)
    BY UpdateForms
  <1>2. Base(old, prev) = am
    BY <1>1 DEF Base, Insert, Update
  <1>. DEFINE d == Diff(am, v)
  <1>3. /\ d \in ActiveModel
        /\ \A c \in Columns : d[c].val = v[c]
        /\ \A c \in Columns : d[c].state = "unchanged" =>
             am[c].state = "unchanged" /\ am[c].val = v[c]
    BY DiffSays
  <1>4. Changed(v, old, prev) => n = [prev EXCEPT !.am = d]
    BY <1>2 DEF OnChange, Replaced
  <1>5. ~Changed(v, old, prev) => n = prev /\ am = IntoActive(v)
    BY <1>2 DEF OnChange, Changed
  <1>6. CASE prev = Insert(am)
    <2>1. row = Absent
      BY <1>6 DEF Acceptable, Insert
    <2>2. CASE Changed(v, old, prev)
      <3>1. n = Insert(d)
        BY <1>4, <1>6, <2>2 DEF Insert
      <3>2. Model(d) = v
        BY <1>3 DEF Model, Value
      <3>. QED
        BY <1>3, <2>1, <2>2, <3>1, <3>2 DEF Insert, Written, Acceptable, Known, Updates
    <2>3. CASE ~Changed(v, old, prev)
      <3>1. Model(am) = v
        BY <1>5, <2>3, IntoActiveType
      <3>2. old = v
        BY <1>6, <3>1, WrittenForms
      <3>. QED
        BY <1>5, <2>3, <3>2
    <2>. QED
      BY <2>2, <2>3
  <1>7. CASE prev = Update(am)
    <2>1. row \in Value /\ row # Absent
      BY <1>7 DEF Acceptable, Update
    <2>2. \A c \in Columns : am[c].state = "unchanged" => am[c].val = row[c]
      BY <1>7 DEF Known, Update
    <2>3. CASE Changed(v, old, prev)
      <3>1. n = Update(d)
        BY <1>4, <1>7, <2>3 DEF Update
      <3>2. \A c \in Columns : d[c].state = "unchanged" => d[c].val = row[c]
        BY <1>3, <2>2
      <3>3. Written(n, row) = v
        BY <1>3, <2>1, <3>1, <3>2, UpdateWrites
      <3>. QED
        BY <1>3, <2>1, <2>3, <3>1, <3>2, <3>3 DEF Update, Acceptable, Known, Updates
    <2>4. CASE ~Changed(v, old, prev)
      <3>1. am = IntoActive(v)
        BY <1>5, <2>4
      <3>2. \A c \in Columns : am[c].val = v[c]
        BY <3>1 DEF IntoActive
      <3>3. Written(prev, row) = v
        BY <1>7, <2>1, <2>2, <3>2, UpdateWrites
      <3>. QED
        BY <1>5, <2>4, <3>3
    <2>. QED
      BY <2>3, <2>4
  <1>. QED
    BY <1>1, <1>6, <1>7

\* wbdc_on_change, whatever is pending: the update writes the new value, the backend takes
\* it, and a value that counts as unchanged is the one that was accepted last.
LEMMA ChangeSays ==
  ASSUME NEW old \in Value, NEW v \in Value, NEW prev \in Updates,
         NEW row \in Value \cup {Absent},
         prev # Delete,
         Written(prev, row) = old, Acceptable(prev, row), Known(prev, row)
  PROVE  LET n == OnChange(v, old, prev)
         IN  /\ n \in Updates
             /\ Written(n, row) = v
             /\ Acceptable(n, row)
             /\ Known(n, row)
             /\ ~Changed(v, old, prev) => n = prev /\ v = old
  <1>1. CASE prev = NoUpdate
    <2>1. row = old
      BY <1>1, WrittenForms DEF Written, NoUpdate
    <2>. QED
      BY <1>1, <2>1, FirstChange
  <1>2. CASE prev # NoUpdate
    BY <1>2, FurtherChange
  <1>. QED
    BY <1>1, <1>2

\* Whatever the value it is compared with, a change of a row that is there leaves the row
\* there, and the backend takes it.
LEMMA ChangeKeepsRow ==
  ASSUME NEW old \in Value, NEW v \in Value, NEW prev \in Updates,
         NEW row \in Value \cup {Absent},
         Written(prev, row) # Absent, Acceptable(prev, row)
  PROVE  LET n == OnChange(v, old, prev)
         IN  Written(n, row) # Absent /\ Acceptable(n, row)
  <1>. DEFINE n == OnChange(v, old, prev)
  <1>1. CASE prev = NoUpdate
    <2>1. row # Absent
      BY <1>1 DEF Written, NoUpdate
    <2>2. n = NoUpdate \/ n = Update(Diff(IntoActive(old), v))
      BY <1>1 DEF OnChange, Replaced, Base
    <2>3. Diff(IntoActive(old), v) \in ActiveModel
      BY IntoActiveType, DiffSays
    <2>4. CASE n = NoUpdate
      BY <2>1, <2>4 DEF Written, Acceptable, NoUpdate
    <2>5. ASSUME NEW am \in ActiveModel, n = Update(am)
          PROVE  Written(n, row) \in Value
      BY <2>1, <2>5, UpdateLeavesRow
    <2>. QED
      BY <2>1, <2>2, <2>3, <2>4, <2>5, RowsAssumption DEF Acceptable, Update
  <1>2. CASE prev = Delete
    BY <1>2 DEF Written, Delete
  <1>3. ASSUME NEW am \in ActiveModel, prev = Insert(am)
        PROVE  Written(n, row) # Absent /\ Acceptable(n, row)
    <2>1. Diff(am, v) \in ActiveModel
      BY DiffSays
    <2>2. n = Insert(am) \/ n = Insert(Diff(am, v))
      BY <1>3 DEF OnChange, Replaced, Base, Insert, NoUpdate
    <2>3. \A a \in ActiveModel : Written(Insert(a), row) \in Value
      BY WrittenForms DEF Model, Value, ActiveModel, ActiveValue
    <2>. QED
      BY <1>3, <2>1, <2>2, <2>3, RowsAssumption DEF Acceptable, Insert
  <1>4. ASSUME NEW am \in ActiveModel, prev = Update(am)
        PROVE  Written(n, row) # Absent /\ Acceptable(n, row)
    <2>1. Diff(am, v) \in ActiveModel
      BY DiffSays
    <2>2. n = Update(am) \/ n = Update(Diff(am, v))
      BY <1>4 DEF OnChange, Replaced, Base, Update, NoUpdate
    <2>3. row \in Value /\ row # Absent
      BY <1>4, WrittenForms
    <2>4. \A a \in ActiveModel : Written(Update(a), row) \in Value
      BY <2>3, UpdateLeavesRow
    <2>. QED
      BY <2>1, <2>2, <2>3, <2>4, RowsAssumption DEF Acceptable, Update
  <1>. QED
    BY <1>1, <1>2, <1>3, <1>4, UpdateForms

-----------------------------------------------------------------------------
(* Types                                                                   *)

\* A change that is merged, or is the first one, is an update.
LEMMA ChangeType ==
  ASSUME NEW old \in Value, NEW v \in Value, NEW prev \in Updates, prev # Delete
  PROVE  OnChange(v, old, prev) \in Updates
  <1>1. CASE prev = NoUpdate
    <2>1. Diff(IntoActive(old), v) \in ActiveModel
      BY IntoActiveType, DiffSays
    <2>. QED
      BY <1>1, <2>1 DEF OnChange, Base, Replaced, Update, Updates
  <1>2. CASE prev # NoUpdate
    <2>1. PICK am \in ActiveModel : prev = Insert(am) \/ prev = Update(am)
      BY <1>2, UpdateForms
    <2>2. prev.am = am /\ Diff(am, v) \in ActiveModel
      BY <2>1, DiffSays DEF Insert, Update
    <2>3. OnChange(v, old, prev) = prev \/ OnChange(v, old, prev) = [prev EXCEPT !.am = Diff(am, v)]
      BY <1>2, <2>2 DEF OnChange, Base, Replaced
    <2>. QED
      BY <2>1, <2>2, <2>3 DEF Insert, Update, Updates
  <1>. QED
    BY <1>1, <1>2

\* The end of a call, as far as the others are concerned.
LEMMA ReturnTypes ==
  ASSUME TypeOK, NEW u \in Users, Return(u)
  PROVE  /\ pc' \in [Users -> {"idle", "check", "flush", "lane", "callback"}]
         /\ op' \in [Users -> {"compute", "init"}]
         /\ key' = key
         /\ \A t \in Users \ {u} : op'[t] = op[t]
         /\ seen' \in [Users -> Value \cup {Absent}]
         /\ fetched' \in [Users -> BOOLEAN]
         /\ \A t \in Users : fetched'[t] => seen'[t] # Absent
         /\ pc'[u] = "idle"
         /\ \A t \in Users \ {u} : pc'[t] = pc[t] /\ seen'[t] = seen[t]
  BY DEF TypeOK, Return

\* Writing rows leaves the types.
LEMMA WriteBackTypes ==
  ASSUME TypeOK, NEW ks \in SUBSET Rows, WriteBack(ks)
  PROVE  table' \in [Rows -> Value \cup {Absent}] /\ update' \in [Rows -> Updates]
  <1>1. \A k \in Rows : Written(update[k], table[k]) \in Value \cup {Absent}
    BY WrittenType DEF TypeOK
  <1>. QED
    BY <1>1 DEF WriteBack, TypeOK, Updates

\* The histories are of rows.
LEMMA RecordedTypes ==
  ASSUME TypeOK, Recorded
  PROVE  exposed' \subseteq Rows /\ aged' \subseteq Rows
  BY DEF TypeOK, Recorded

\* A closure that modifies its row, and ends.
LEMMA AnswerTypes ==
  ASSUME TypeOK, Recorded, NEW u \in Users, NEW n \in Updates, NEW v \in Value \cup {Absent},
         NEW e \in Value \cup {Absent}, Return(u), table' = table,
         \/ Accept(u, n, v)
         \/ update' = [update EXCEPT ![key[u]] = n] /\ latest' = latest
         \/ UNCHANGED <<update, latest>>,
         cached' = cached \/ cached' = [cached EXCEPT ![key[u]] = e]
  PROVE  TypeOK'
  <1>1. key[u] \in Rows
    BY DEF TypeOK
  <1>2. {cached', latest'} \subseteq [Rows -> Value \cup {Absent}] /\ update' \in [Rows -> Updates]
    BY <1>1 DEF TypeOK, Accept
  <1>. QED
    BY <1>2, ReturnTypes, RecordedTypes DEF TypeOK

LEMMA UserTypes ==
  ASSUME TypeOK, NEW u \in Users, UserStep(u)
  PROVE  TypeOK'
  <1>0. /\ key[u] \in Rows /\ seen[u] \in Value \cup {Absent} /\ NoUpdate \in Updates
        /\ update[key[u]] \in Updates
    BY DEF TypeOK, Updates
  <1>1. ASSUME NEW kind \in {"compute", "init"}, NEW k \in Rows, Call(u, kind, k)
        PROVE  TypeOK'
    BY <1>1, RecordedTypes DEF Call, TypeOK
  <1>2. CASE Check(u)
    BY <1>2, RecordedTypes DEF Check, AfterCheck, TypeOK
  <1>3. CASE FlushOne(u)
    BY <1>0, <1>3, WriteBackTypes, RecordedTypes DEF FlushOne, TypeOK
  <1>4. CASE FlushOneFails(u)
    BY <1>4, ReturnTypes, RecordedTypes DEF FlushOneFails, TypeOK
  <1>5. CASE Load(u)
    <2>1. table[key[u]] \in Value \cup {Absent} /\ cached[key[u]] \in Value \cup {Absent}
      BY <1>0 DEF TypeOK
    <2>. QED
      BY <1>5, <2>1, RecordedTypes DEF Load, Fetches, TypeOK
  <1>6. CASE Nop(u) \/ InitFound(u)
    <2>1. cached' = cached \/ cached' = [cached EXCEPT ![key[u]] = seen[u]]
      BY <1>6 DEF Nop, InitFound
    <2>. QED
      BY <1>0, <1>6, <2>1, AnswerTypes DEF Nop, InitFound
  <1>7. CASE Remove(u)
    <2>1. OnDelete(update[key[u]]) \in Updates
      BY DEF OnDelete, Updates
    <2>. QED
      BY <1>7, <2>1, AnswerTypes DEF Remove
  <1>8. ASSUME NEW v \in Value, PutNew(u, v) \/ InitNew(u, v)
        PROVE  TypeOK'
    <2>1. Insert(IntoActive(v)) \in Updates
      BY IntoActiveType DEF Insert, Updates
    <2>2. cached' = cached \/ cached' = [cached EXCEPT ![key[u]] = v]
      BY <1>8 DEF PutNew, InitNew
    <2>. QED
      BY <1>8, <2>1, <2>2, AnswerTypes DEF PutNew, InitNew
  <1>9. ASSUME NEW v \in Value, PutChanged(u, v)
        PROVE  TypeOK'
    <2>1. CASE update[key[u]] = Delete
      <3>1. update' = [update EXCEPT ![key[u]] = NoUpdate] /\ UNCHANGED <<cached, latest>>
        BY <1>9, <2>1 DEF PutChanged
      <3>. QED
        BY <1>0, <1>9, <3>1, AnswerTypes DEF PutChanged
    <2>2. CASE update[key[u]] # Delete
      <3>. DEFINE n == OnChange(v, seen[u], update[key[u]])
      <3>1. Accept(u, n, v) /\ (cached' = cached \/ cached' = [cached EXCEPT ![key[u]] = v])
        BY <1>9, <2>2 DEF PutChanged
      <3>2. n \in Updates
        BY <1>0, <1>9, <2>2, ChangeType DEF PutChanged
      <3>. QED
        BY <1>9, <3>1, <3>2, AnswerTypes DEF PutChanged
    <2>. QED
      BY <2>1, <2>2
  <1>10. ASSUME NEW k \in Rows, NEW v \in Value, InsertRow(u, k, v)
         PROVE  TypeOK'
    <2>1. Insert(IntoActive(v)) \in Updates
      BY IntoActiveType DEF Insert, Updates
    <2>. QED
      BY <1>10, <2>1, RecordedTypes DEF InsertRow, TypeOK, callVars
  <1>. QED
    BY <1>1, <1>2, <1>3, <1>4, <1>5, <1>6, <1>7, <1>8, <1>9, <1>10 DEF UserStep

LEMMA TypeStep ==
  ASSUME TypeOK, [Next]_vars
  PROVE  TypeOK'
  <1>1. ASSUME NEW k \in Rows, Evict(k)
        PROVE  TypeOK'
    BY <1>1, RecordedTypes DEF Evict, callVars, TypeOK
  <1>2. ASSUME NEW ks \in SUBSET Rows, Flush(ks)
        PROVE  TypeOK'
    BY <1>2, WriteBackTypes, RecordedTypes DEF Flush, callVars, TypeOK
  <1>3. CASE UNCHANGED vars
    BY <1>3 DEF vars, callVars, TypeOK
  <1>. QED
    BY <1>1, <1>2, <1>3, UserTypes DEF Next

\* Rows, updates and calls are well formed, and what a call has fetched is there, whatever
\* the data controller and the calls do.
THEOREM CallsAreTyped == Spec => []TypeOK
  <1>1. Init => TypeOK
    BY DEF Init, TypeOK, Updates
  <1>. QED
    BY <1>1, TypeStep, PTL DEF Spec

-----------------------------------------------------------------------------
(* What a step does to a row                                               *)

\* Initial states satisfy the invariant.
LEMMA InitRowsInv == Init => RowsInv
  <1>. SUFFICES ASSUME Init PROVE RowsInv
    OBVIOUS
  <1>1. TypeOK
    BY DEF Init, TypeOK, Updates
  <1>2. \A k \in Rows :
          Written(update[k], table[k]) = latest[k] /\ Acceptable(update[k], table[k]) /\ Known(update[k], table[k])
    BY DEF Init, Written, Acceptable, Known, NoUpdate
  <1>. QED
    BY <1>1, <1>2
    DEF Init, RowsInv, RowSound, UpdateTells, EntryTells, LaneIsReady, ClosureKnows, Agrees, OnePerLane,
        AgedIsMutable

\* A row that is not exposed has not been before, and the step has not exposed it.
LEMMA Spared ==
  ASSUME Recorded, NEW k \in Rows, k \notin exposed'
  PROVE  /\ k \notin exposed
         /\ ~Undercut(k) /\ ~Crossed(k) /\ ~Unseen(k)
         /\ k \in aged' <=> k \in aged \/ Outlived(k)
  BY DEF Recorded

\* Rows age only where changes are kept out of the cache.
LEMMA AgedKeeps ==
  ASSUME RowsInv, Recorded
  PROVE  AgedIsMutable'
  BY DEF RowsInv, AgedIsMutable, Recorded, Outlived

\* A closure that modifies its row is alone with it.
LEMMA ModifiesAlone ==
  ASSUME RowsInv, Recorded, NEW u \in Users, pc[u] = "callback",
         key[u] \notin exposed', Modified(key[u]),
         NEW t \in Users \ {u}, pc[t] = "callback", key[t] = key[u]
  PROVE  FALSE
  <1>1. op[t] # op[u]
    BY DEF RowsInv, OnePerLane
  <1>2. /\ op[t] \in {"compute", "init"} /\ op[u] \in {"compute", "init"}
        /\ key[u] \in Rows
    BY DEF RowsInv, TypeOK
  <1>3. op[t] \in Lanes(key[u]) /\ op[u] \in Lanes(key[u])
    BY DEF Lanes
  <1>. QED
    BY <1>1, <1>2, <1>3, Spared DEF Crossed

\* So is insert.
LEMMA InsertsAlone ==
  ASSUME RowsInv, Recorded, NEW k \in Rows, k \notin exposed', Modified(k),
         LaneFree("compute", k), UNCHANGED callVars,
         NEW t \in Users, pc[t] = "callback", key[t] = k
  PROVE  FALSE
  <1>1. op[t] = "init"
    BY DEF RowsInv, TypeOK, LaneFree, Occupies
  <1>2. "init" \in Lanes(k)
    BY <1>1 DEF Lanes
  <1>. QED
    BY <1>2, Spared DEF Crossed

\* A row stays sound if its update still fits the table and tells the value it now has, if its
\* entry tells this value, and if no closure runs for it while it gets another one.
LEMMA RowKeeps ==
  ASSUME RowsInv, Recorded, NEW k \in Rows, k \notin exposed',
         table'[k] = table[k],
         Acceptable(update'[k], table[k]),
         k \notin aged' => Written(update'[k], table[k]) = latest'[k] /\ Known(update'[k], table[k]),
         Written(update'[k], table[k]) = Absent <=> latest'[k] = Absent,
         cached'[k] # Absent => latest'[k] # Absent /\ (k \in aged' \/ cached'[k] = latest'[k]),
         \A t \in Users : pc'[t] = "callback" /\ key'[t] = k =>
            pc[t] = "callback" /\ key[t] = k /\ seen'[t] = seen[t] /\ latest'[k] = latest[k],
         \A t \in Users : pc'[t] = "lane" /\ key'[t] = k => (pc[t] = "lane" /\ key[t] = k) \/ Ready(k)'
  PROVE  RowSound(k)'
  <1>1. RowSound(k) /\ (k \in aged => k \in aged') /\ ~Undercut(k)
    BY Spared DEF RowsInv
  <1>2. UpdateTells(k)'
    BY DEF UpdateTells, Agrees
  <1>3. EntryTells(k)'
    BY DEF EntryTells, Agrees
  <1>4. LaneIsReady(k)'
    <2>. SUFFICES ASSUME NEW t \in Users, pc'[t] = "lane", key'[t] = k
                  PROVE  Ready(k)'
      BY DEF LaneIsReady
    <2>1. CASE pc[t] = "lane" /\ key[t] = k
      <3>1. Ready(k)
        BY <1>1, <2>1 DEF RowSound, LaneIsReady
      <3>. QED
        BY <1>1, <2>1, <3>1 DEF Undercut
    <2>. QED
      BY <2>1
  <1>5. ClosureKnows(k)'
    BY <1>1 DEF RowSound, ClosureKnows, Agrees
  <1>. QED
    BY <1>2, <1>3, <1>4, <1>5 DEF RowSound

\* A row that the step leaves alone stays sound.
LEMMA SameRow ==
  ASSUME RowsInv, Recorded, NEW k \in Rows, k \notin exposed',
         table'[k] = table[k], update'[k] = update[k], latest'[k] = latest[k], cached'[k] = cached[k],
         \A t \in Users : pc'[t] = "callback" /\ key'[t] = k =>
            pc[t] = "callback" /\ key[t] = k /\ seen'[t] = seen[t],
         \A t \in Users : pc'[t] = "lane" /\ key'[t] = k => (pc[t] = "lane" /\ key[t] = k) \/ Ready(k)'
  PROVE  RowSound(k)'
  <1>1. RowSound(k) /\ (k \in aged => k \in aged')
    BY Spared DEF RowsInv
  <1>2. /\ Acceptable(update[k], table[k])
        /\ k \notin aged' => Written(update[k], table[k]) = latest[k] /\ Known(update[k], table[k])
        /\ Written(update[k], table[k]) = Absent <=> latest[k] = Absent
    BY <1>1 DEF RowSound, UpdateTells, Agrees
  <1>3. cached[k] # Absent => latest[k] # Absent /\ (k \in aged' \/ cached[k] = latest[k])
    BY <1>1 DEF RowSound, EntryTells, Agrees
  <1>. QED
    BY <1>2, <1>3, RowKeeps

\* Only row k is touched, and no call moves on to its lane or its closure.
LEMMA OneRowKeeps ==
  ASSUME RowsInv, Recorded, TypeOK', NEW k \in Rows,
         \A j \in Rows \ {k} : table'[j] = table[j] /\ update'[j] = update[j]
                               /\ latest'[j] = latest[j] /\ cached'[j] = cached[j],
         \A t \in Users : pc'[t] = "callback" =>
            pc[t] = "callback" /\ key'[t] = key[t] /\ op'[t] = op[t] /\ seen'[t] = seen[t],
         \A t \in Users, j \in Rows : pc'[t] = "lane" /\ key'[t] = j =>
            (pc[t] = "lane" /\ key[t] = j) \/ Ready(j)',
         k \notin exposed' => RowSound(k)'
  PROVE  RowsInv'
  <1>1. OnePerLane'
    BY DEF RowsInv, OnePerLane
  <1>2. ASSUME NEW j \in Rows, j \notin exposed'
        PROVE  RowSound(j)'
    BY <1>2, SameRow
  <1>. QED
    BY <1>1, <1>2, AgedKeeps DEF RowsInv

-----------------------------------------------------------------------------
(* One lemma per action                                                    *)

\* No row is touched: a call begins, fails, or finds the entry of its key.
LEMMA CallsKeep ==
  ASSUME RowsInv, Recorded, TypeOK', NEW k \in Rows,
         UNCHANGED <<table, cached, update, latest>>,
         \A t \in Users : pc'[t] = "callback" =>
            pc[t] = "callback" /\ key'[t] = key[t] /\ op'[t] = op[t] /\ seen'[t] = seen[t],
         \A t \in Users, j \in Rows : pc'[t] = "lane" /\ key'[t] = j =>
            (pc[t] = "lane" /\ key[t] = j) \/ Ready(j)'
  PROVE  RowsInv'
  <1>1. k \notin exposed' => RowSound(k)'
    BY SameRow
  <1>. QED
    BY <1>1, OneRowKeeps

LEMMA CallKeeps ==
  ASSUME RowsInv, TypeOK', NEW u \in Users, NEW kind \in {"compute", "init"}, NEW k \in Rows,
         Call(u, kind, k)
  PROVE  RowsInv'
  <1>1. \A t \in Users : pc'[t] \in {"lane", "callback"} =>
           pc[t] = pc'[t] /\ key'[t] = key[t] /\ op'[t] = op[t] /\ seen'[t] = seen[t]
    BY DEF Call, RowsInv, TypeOK
  <1>. QED
    BY <1>1, CallsKeep DEF Call

\* The call goes on to its lane only with an entry.
LEMMA CheckKeeps ==
  ASSUME RowsInv, TypeOK', NEW u \in Users, Check(u)
  PROVE  RowsInv'
  <1>1. key[u] \in Rows /\ \A t \in Users : pc'[t] = "callback" => pc[t] = "callback"
    BY DEF Check, AfterCheck, RowsInv, TypeOK
  <1>2. ASSUME NEW t \in Users, NEW j \in Rows, pc'[t] = "lane", key'[t] = j, pc[t] # "lane"
        PROVE  Ready(j)'
    BY <1>2 DEF Check, AfterCheck, Ready, RowsInv, TypeOK
  <1>. QED
    BY <1>1, <1>2, CallsKeep DEF Check

LEMMA FlushOneFailsKeeps ==
  ASSUME RowsInv, TypeOK', NEW u \in Users, FlushOneFails(u)
  PROVE  RowsInv'
  <1>0. key[u] \in Rows
    BY DEF RowsInv, TypeOK
  <1>1. \A t \in Users : pc'[t] \in {"lane", "callback"} =>
           pc[t] = pc'[t] /\ key'[t] = key[t] /\ op'[t] = op[t] /\ seen'[t] = seen[t]
    BY ReturnTypes DEF FlushOneFails, RowsInv
  <1>. QED
    BY <1>0, <1>1, CallsKeep DEF FlushOneFails

\* Rows are written: the table has what the updates said, which are gone. A call may enter
\* the lane of a row that has been written.
LEMMA WriteBackKeeps ==
  ASSUME RowsInv, Recorded, TypeOK', NEW ks \in SUBSET Rows, WriteBack(ks),
         UNCHANGED <<cached, latest, key, op>>,
         \A t \in Users : pc'[t] = "lane" => pc[t] = "lane" \/ key[t] \in ks,
         \A t \in Users : pc'[t] = "callback" => pc[t] = "callback" /\ seen'[t] = seen[t]
  PROVE  RowsInv'
  <1>1. OnePerLane'
    BY DEF RowsInv, OnePerLane
  <1>2. ASSUME NEW k \in Rows, k \notin exposed'
        PROVE  RowSound(k)'
    <2>1. RowSound(k) /\ (k \in aged => k \in aged')
      BY <1>2, Spared DEF RowsInv
    <2>2. /\ k \in ks => table'[k] = Written(update[k], table[k]) /\ update'[k] = NoUpdate
          /\ k \notin ks => table'[k] = table[k] /\ update'[k] = update[k]
      BY DEF WriteBack
    <2>3. /\ Written(NoUpdate, table'[k]) = table'[k]
          /\ Acceptable(NoUpdate, table'[k]) /\ Known(NoUpdate, table'[k])
      BY DEF Written, NoUpdate, Acceptable, Known
    <2>4. Agrees(k, Written(update'[k], table'[k]), latest[k])
      BY <2>1, <2>2, <2>3 DEF RowSound, UpdateTells
    <2>5. UpdateTells(k)'
      BY <2>1, <2>2, <2>3, <2>4 DEF RowSound, UpdateTells, Agrees
    <2>6. EntryTells(k)'
      BY <2>1 DEF RowSound, EntryTells, Agrees
    <2>7. LaneIsReady(k)'
      BY <2>1, <2>2 DEF RowSound, LaneIsReady, Ready
    <2>8. ClosureKnows(k)'
      <3>. SUFFICES ASSUME NEW t \in Users, pc'[t] = "callback", key'[t] = k
                    PROVE  (Agrees(k, seen[t], latest[k]) /\ (seen[t] = Absent => table[k] = Absent))'
        BY DEF ClosureKnows
      <3>1. /\ Agrees(k, seen[t], latest[k]) /\ (seen[t] = Absent => table[k] = Absent)
            /\ seen'[t] = seen[t] /\ latest'[k] = latest[k]
        BY <2>1 DEF RowSound, ClosureKnows
      <3>2. seen[t] = Absent => Written(update[k], table[k]) = Absent
        BY <2>1, <3>1 DEF RowSound, UpdateTells, Agrees
      <3>3. seen[t] = Absent => table'[k] = Absent
        BY <2>2, <3>1, <3>2
      <3>. QED
        BY <2>1, <3>1, <3>3 DEF Agrees
    <2>. QED
      BY <2>5, <2>6, <2>7, <2>8 DEF RowSound
  <1>. QED
    BY <1>1, <1>2, AgedKeeps DEF RowsInv

LEMMA FlushOneKeeps ==
  ASSUME RowsInv, TypeOK', NEW u \in Users, FlushOne(u)
  PROVE  RowsInv'
  <1>1. {key[u]} \in SUBSET Rows /\ WriteBack({key[u]})
    BY DEF FlushOne, RowsInv, TypeOK
  <1>2. /\ \A t \in Users : pc'[t] = "lane" => pc[t] = "lane" \/ key[t] \in {key[u]}
        /\ \A t \in Users : pc'[t] = "callback" => pc[t] = "callback" /\ seen'[t] = seen[t]
    BY DEF FlushOne, RowsInv, TypeOK
  <1>. QED
    BY <1>1, <1>2, WriteBackKeeps DEF FlushOne

\* The closure is given the entry, or the row of a table that is up to date.
LEMMA LoadKeeps ==
  ASSUME RowsInv, TypeOK', NEW u \in Users, Load(u)
  PROVE  RowsInv'
  <1>. DEFINE k == key[u]
  <1>1. /\ pc[u] = "lane" /\ LaneFree(op[u], k) /\ k \in Rows
        /\ \A t \in Users \ {u} : pc'[t] = pc[t] /\ seen'[t] = seen[t]
        /\ pc'[u] = "callback"
        /\ seen'[u] = IF cached[k] # Absent THEN cached[k] ELSE table[k]
        /\ UNCHANGED <<table, cached, update, latest, op, key>>
        /\ Recorded
    BY DEF Load, RowsInv, TypeOK
  <1>2. OnePerLane'
    BY <1>1 DEF LaneFree, Occupies, RowsInv, OnePerLane
  <1>3. ASSUME NEW j \in Rows, j \notin exposed'
        PROVE  RowSound(j)'
    <2>1. RowSound(j) /\ (j \in aged => j \in aged')
      BY <1>1, <1>3, Spared DEF RowsInv
    <2>2. UpdateTells(j)' /\ EntryTells(j)'
      BY <1>1, <2>1 DEF RowSound, UpdateTells, EntryTells, Agrees
    <2>3. LaneIsReady(j)'
      BY <1>1, <2>1 DEF RowSound, LaneIsReady, Ready
    <2>4. ASSUME j = k
          PROVE  Agrees(j, seen'[u], latest[j]) /\ (seen'[u] = Absent => table[j] = Absent)
      <3>1. CASE cached[j] # Absent
        BY <1>1, <2>1, <2>4, <3>1 DEF RowSound, EntryTells
      <3>2. CASE cached[j] = Absent
        <4>1. update[j] = NoUpdate
          BY <1>1, <2>1, <2>4, <3>2 DEF RowSound, LaneIsReady, Ready
        <4>2. Written(update[j], table[j]) = table[j]
          BY <4>1 DEF Written, NoUpdate
        <4>. QED
          BY <1>1, <2>1, <2>4, <3>2, <4>2 DEF RowSound, UpdateTells
      <3>. QED
        BY <3>1, <3>2
    <2>5. ClosureKnows(j)'
      BY <1>1, <2>1, <2>4 DEF RowSound, ClosureKnows, Agrees
    <2>. QED
      BY <2>2, <2>3, <2>5 DEF RowSound
  <1>. QED
    BY <1>1, <1>2, <1>3, AgedKeeps DEF RowsInv

\* The end of a closure: its row stays sound if what is pending, and the entry, tell the value
\* the row now has.
LEMMA AnswerKeeps ==
  ASSUME RowsInv, Recorded, TypeOK', NEW u \in Users, NEW k \in Rows,
         pc[u] = "callback", key[u] = k, Return(u), table' = table,
         \A j \in Rows \ {k} : update'[j] = update[j] /\ latest'[j] = latest[j] /\ cached'[j] = cached[j],
         k \notin exposed' =>
           /\ Acceptable(update'[k], table[k])
           /\ k \notin aged' => Written(update'[k], table[k]) = latest'[k] /\ Known(update'[k], table[k])
           /\ Written(update'[k], table[k]) = Absent <=> latest'[k] = Absent
           /\ cached'[k] # Absent => latest'[k] # Absent /\ (k \in aged' \/ cached'[k] = latest'[k])
  PROVE  RowsInv'
  <1>1. /\ pc'[u] = "idle" /\ key' = key
        /\ \A t \in Users \ {u} : pc'[t] = pc[t] /\ seen'[t] = seen[t] /\ op'[t] = op[t]
    BY ReturnTypes DEF RowsInv
  <1>2. k \notin exposed' => RowSound(k)'
    <2>. SUFFICES ASSUME k \notin exposed' PROVE RowSound(k)'
      OBVIOUS
    <2>1. ASSUME NEW t \in Users, pc'[t] = "callback", key'[t] = k
          PROVE  pc[t] = "callback" /\ key[t] = k /\ seen'[t] = seen[t] /\ latest'[k] = latest[k]
      <3>1. t # u /\ pc[t] = "callback" /\ key[t] = k /\ seen'[t] = seen[t]
        BY <1>1, <2>1
      <3>2. ~Modified(k)
        BY <3>1, ModifiesAlone
      <3>. QED
        BY <3>1, <3>2 DEF Modified
    <2>2. \A t \in Users : pc'[t] = "lane" /\ key'[t] = k => pc[t] = "lane" /\ key[t] = k
      BY <1>1
    <2>. QED
      BY <2>1, <2>2, RowKeeps
  <1>3. \A t \in Users : pc'[t] = "callback" =>
           pc[t] = "callback" /\ key'[t] = key[t] /\ op'[t] = op[t] /\ seen'[t] = seen[t]
    BY <1>1
  <1>4. \A t \in Users : pc'[t] = "lane" => pc[t] = "lane" /\ key'[t] = key[t]
    BY <1>1
  <1>. QED
    BY <1>2, <1>3, <1>4, OneRowKeeps

\* The closure puts a new row.
LEMMA PutNewKeeps ==
  ASSUME RowsInv, TypeOK', NEW u \in Users, NEW v \in Value, PutNew(u, v) \/ InitNew(u, v)
  PROVE  RowsInv'
  <1>. DEFINE n == Insert(IntoActive(v))
  <1>. PICK k \in Rows : k = key[u]
    BY DEF RowsInv, TypeOK
  <1>1. /\ pc[u] = "callback" /\ seen[u] = Absent
        /\ Accept(u, n, v) /\ Return(u) /\ Recorded
        /\ cached' \in {cached, [cached EXCEPT ![k] = v]}
        /\ table' = table
    BY DEF PutNew, InitNew
  <1>2. /\ update'[k] = n /\ latest'[k] = v /\ cached'[k] \in {cached[k], v}
        /\ \A j \in Rows \ {k} : update'[j] = update[j] /\ latest'[j] = latest[j] /\ cached'[j] = cached[j]
    BY <1>1 DEF Accept, RowsInv, TypeOK
  <1>3. ASSUME k \notin exposed'
        PROVE  /\ Written(n, table[k]) = v /\ Acceptable(n, table[k]) /\ Known(n, table[k])
               /\ cached[k] = Absent
    <2>1. RowSound(k)
      BY <1>1, <1>3, Spared DEF RowsInv
    <2>2. table[k] = Absent /\ latest[k] = Absent
      BY <1>1, <2>1 DEF RowSound, ClosureKnows, Agrees
    <2>. QED
      BY <2>1, <2>2, NewSays DEF RowSound, EntryTells, Agrees
  <1>4. v # Absent
    BY RowsAssumption
  <1>. QED
    BY <1>1, <1>2, <1>3, <1>4, AnswerKeeps

\* The closure changes the row.
LEMMA PutChangedKeeps ==
  ASSUME RowsInv, TypeOK', NEW u \in Users, NEW v \in Value, PutChanged(u, v)
  PROVE  RowsInv'
  <1>. PICK k \in Rows : k = key[u]
    BY DEF RowsInv, TypeOK
  <1>. DEFINE prev == update[k]
              old == seen[u]
              n == OnChange(v, old, prev)
  <1>1. /\ pc[u] = "callback" /\ old # Absent
        /\ IF prev = Delete
             THEN update' = [update EXCEPT ![k] = NoUpdate] /\ UNCHANGED <<cached, latest>>
             ELSE /\ Accept(u, n, v)
                  /\ cached' = IF Recached(v, old, prev) THEN [cached EXCEPT ![k] = v] ELSE cached
        /\ Return(u) /\ Recorded
        /\ table' = table
    BY DEF PutChanged
  <1>2. /\ old \in Value /\ prev \in Updates /\ table[k] \in Value \cup {Absent}
    BY <1>1 DEF RowsInv, TypeOK
  <1>3. \A j \in Rows \ {k} : update'[j] = update[j] /\ latest'[j] = latest[j] /\ cached'[j] = cached[j]
    BY <1>1 DEF Accept, RowsInv, TypeOK
  <1>4. ASSUME k \notin exposed'
        PROVE  /\ Acceptable(update'[k], table[k])
               /\ k \notin aged' => Written(update'[k], table[k]) = latest'[k] /\ Known(update'[k], table[k])
               /\ Written(update'[k], table[k]) = Absent <=> latest'[k] = Absent
               /\ cached'[k] # Absent => latest'[k] # Absent /\ (k \in aged' \/ cached'[k] = latest'[k])
    <2>1. RowSound(k) /\ (k \in aged' <=> k \in aged \/ Outlived(k))
      BY <1>1, <1>4, Spared DEF RowsInv
    <2>2. Agrees(k, old, latest[k]) /\ latest[k] # Absent
      BY <1>1, <2>1 DEF RowSound, ClosureKnows, Agrees
    <2>3. Written(prev, table[k]) # Absent /\ Acceptable(prev, table[k])
      BY <2>1, <2>2 DEF RowSound, UpdateTells, Agrees
    <2>4. prev # Delete
      BY <2>3 DEF Written, Delete
    <2>5. /\ update'[k] = n /\ latest'[k] = v /\ v # Absent
          /\ cached'[k] = IF Recached(v, old, prev) THEN v ELSE cached[k]
      BY <1>1, <2>4, RowsAssumption DEF Accept, RowsInv, TypeOK
    <2>6. CASE k \in aged
      BY <1>2, <2>1, <2>3, <2>5, <2>6, ChangeKeepsRow
    <2>7. CASE k \notin aged
      <3>1. Written(prev, table[k]) = old /\ Known(prev, table[k]) /\ latest[k] = old
        BY <2>1, <2>2, <2>7 DEF RowSound, UpdateTells, Agrees
      <3>2. /\ Written(n, table[k]) = v /\ Acceptable(n, table[k]) /\ Known(n, table[k])
            /\ ~Changed(v, old, prev) => v = old
        BY <1>2, <2>3, <2>4, <3>1, ChangeSays
      <3>3. cached[k] # Absent => cached[k] = old
        BY <2>1, <2>7, <3>1 DEF RowSound, EntryTells, Agrees
      <3>4. ASSUME cached'[k] # Absent, k \notin aged'
            PROVE  cached'[k] = v
        <4>1. CASE Recached(v, old, prev)
          BY <2>5, <4>1
        <4>2. CASE ~Changed(v, old, prev)
          BY <2>5, <3>2, <3>3, <3>4, <4>2 DEF Recached
        <4>3. CASE Changed(v, old, prev) /\ ~Recached(v, old, prev)
          <5>1. ~Immutable /\ cached'[k] = cached[k]
            BY <2>5, <4>3 DEF Recached
          <5>2. latest'[k] = latest[k]
            BY <2>1, <3>4, <5>1 DEF Outlived, Modified
          <5>. QED
            BY <2>5, <3>1, <3>3, <3>4, <5>1, <5>2
        <4>. QED
          BY <4>1, <4>2, <4>3
      <3>. QED
        BY <2>5, <3>2, <3>4
    <2>. QED
      BY <2>6, <2>7
  <1>. QED
    BY <1>1, <1>3, <1>4, AnswerKeeps

\* The closure removes the row.
LEMMA RemoveKeeps ==
  ASSUME RowsInv, TypeOK', NEW u \in Users, Remove(u)
  PROVE  RowsInv'
  <1>. PICK k \in Rows : k = key[u]
    BY DEF RowsInv, TypeOK
  <1>. DEFINE n == OnDelete(update[k])
  <1>1. /\ pc[u] = "callback"
        /\ Accept(u, n, Absent) /\ Return(u) /\ Recorded
        /\ cached' = [cached EXCEPT ![k] = Absent]
        /\ table' = table
    BY DEF Remove
  <1>2. /\ update'[k] = n /\ latest'[k] = Absent /\ cached'[k] = Absent
        /\ \A j \in Rows \ {k} : update'[j] = update[j] /\ latest'[j] = latest[j] /\ cached'[j] = cached[j]
        /\ update[k] \in Updates
    BY <1>1 DEF Accept, RowsInv, TypeOK
  <1>3. ASSUME k \notin exposed'
        PROVE  Written(n, table[k]) = Absent /\ Acceptable(n, table[k]) /\ Known(n, table[k])
    <2>1. Acceptable(update[k], table[k])
      BY <1>1, <1>3, Spared DEF RowsInv, RowSound, UpdateTells
    <2>. QED
      BY <1>2, <2>1, DeleteSays
  <1>. QED
    BY <1>1, <1>2, <1>3, AnswerKeeps

\* The closure changes nothing; what was fetched is cached.
LEMMA NopKeeps ==
  ASSUME RowsInv, TypeOK', NEW u \in Users, Nop(u) \/ InitFound(u)
  PROVE  RowsInv'
  <1>. PICK k \in Rows : k = key[u]
    BY DEF RowsInv, TypeOK
  <1>1. /\ pc[u] = "callback"
        /\ cached' = IF fetched[u] THEN [cached EXCEPT ![k] = seen[u]] ELSE cached
        /\ Return(u) /\ Recorded
        /\ UNCHANGED <<table, update, latest>>
    BY DEF Nop, InitFound
  <1>2. /\ cached'[k] = IF fetched[u] THEN seen[u] ELSE cached[k]
        /\ \A j \in Rows \ {k} : cached'[j] = cached[j]
        /\ fetched[u] => seen[u] # Absent
    BY <1>1 DEF RowsInv, TypeOK
  <1>3. ASSUME k \notin exposed'
        PROVE  /\ Acceptable(update[k], table[k])
               /\ k \notin aged' => Written(update[k], table[k]) = latest[k] /\ Known(update[k], table[k])
               /\ Written(update[k], table[k]) = Absent <=> latest[k] = Absent
               /\ cached'[k] # Absent => latest[k] # Absent /\ (k \in aged' \/ cached'[k] = latest[k])
    <2>1. RowSound(k) /\ (k \in aged => k \in aged')
      BY <1>1, <1>3, Spared DEF RowsInv
    <2>. QED
      BY <1>1, <1>2, <2>1 DEF RowSound, UpdateTells, EntryTells, ClosureKnows, Agrees
  <1>. QED
    BY <1>1, <1>2, <1>3, AnswerKeeps

\* insert puts a row that the backend does not have.
LEMMA InsertRowKeeps ==
  ASSUME RowsInv, TypeOK', NEW u \in Users, NEW k \in Rows, NEW v \in Value, InsertRow(u, k, v)
  PROVE  RowsInv'
  <1>. DEFINE n == Insert(IntoActive(v))
  <1>1. /\ LaneFree("compute", k) /\ Recorded
        /\ UNCHANGED <<table, callVars>>
        /\ update'[k] = n /\ latest'[k] = v
        /\ cached'[k] = IF Immutable THEN v ELSE cached[k]
        /\ \A j \in Rows \ {k} : update'[j] = update[j] /\ latest'[j] = latest[j] /\ cached'[j] = cached[j]
    BY DEF InsertRow, RowsInv, TypeOK
  <1>2. ASSUME k \notin exposed'
        PROVE  RowSound(k)'
    <2>1. RowSound(k) /\ ~Unseen(k) /\ (k \in aged' <=> k \in aged \/ Outlived(k))
      BY <1>1, <1>2, Spared DEF RowsInv
    <2>2. ~Modified(k) => latest[k] = v /\ update[k] = n
      BY <1>1, NewSays DEF Modified
    <2>3. table[k] = Absent
      <3>1. CASE ~Modified(k)
        BY <2>1, <2>2, <3>1 DEF RowSound, UpdateTells, Acceptable, Insert
      <3>2. CASE Modified(k)
        BY <1>1, <2>1, <3>2 DEF Unseen
      <3>. QED
        BY <3>1, <3>2
    <2>4. Written(n, table[k]) = v /\ Acceptable(n, table[k]) /\ Known(n, table[k]) /\ v # Absent
      BY <2>3, NewSays, RowsAssumption
    <2>5. cached'[k] # Absent => k \in aged' \/ cached'[k] = v
      <3>. SUFFICES ASSUME cached'[k] # Absent, cached'[k] # v PROVE k \in aged'
        OBVIOUS
      <3>1. ~Immutable /\ cached'[k] = cached[k]
        BY <1>1
      <3>2. CASE Modified(k)
        BY <2>1, <3>1, <3>2 DEF Outlived
      <3>3. CASE ~Modified(k)
        BY <2>1, <2>2, <3>1, <3>3 DEF RowSound, EntryTells, Agrees
      <3>. QED
        BY <3>2, <3>3
    <2>6. ASSUME NEW t \in Users, pc[t] = "callback", key[t] = k
          PROVE  latest'[k] = latest[k]
      <3>1. ~Modified(k)
        BY <1>1, <1>2, <2>6, InsertsAlone
      <3>. QED
        BY <3>1 DEF Modified
    <2>. QED
      BY <1>1, <1>2, <2>4, <2>5, <2>6, RowKeeps DEF callVars
  <1>. QED
    BY <1>1, <1>2, OneRowKeeps DEF callVars

\* An entry goes.
LEMMA EvictKeeps ==
  ASSUME RowsInv, TypeOK', NEW k \in Rows, Evict(k)
  PROVE  RowsInv'
  <1>1. /\ UNCHANGED <<table, update, latest, callVars>> /\ Recorded
        /\ cached'[k] = Absent
        /\ \A j \in Rows \ {k} : cached'[j] = cached[j]
    BY DEF Evict, RowsInv, TypeOK
  <1>2. ASSUME k \notin exposed'
        PROVE  RowSound(k)'
    <2>1. RowSound(k) /\ (k \in aged => k \in aged')
      BY <1>1, <1>2, Spared DEF RowsInv
    <2>2. /\ Acceptable(update[k], table[k])
          /\ k \notin aged' => Written(update[k], table[k]) = latest[k] /\ Known(update[k], table[k])
          /\ Written(update[k], table[k]) = Absent <=> latest[k] = Absent
      BY <2>1 DEF RowSound, UpdateTells, Agrees
    <2>. QED
      BY <1>1, <1>2, <2>2, RowKeeps DEF callVars
  <1>. QED
    BY <1>1, <1>2, OneRowKeeps DEF callVars

\* Every step preserves the invariant.
LEMMA RowsInvStep ==
  ASSUME RowsInv, [Next]_vars
  PROVE  RowsInv'
  <1>0. TypeOK'
    BY TypeStep DEF RowsInv
  <1>1. ASSUME NEW u \in Users, UserStep(u)
        PROVE  RowsInv'
    <2>1. ASSUME NEW kind \in {"compute", "init"}, NEW k \in Rows, Call(u, kind, k)
          PROVE  RowsInv'
      BY <1>0, <2>1, CallKeeps
    <2>2. ASSUME NEW v \in Value, PutNew(u, v) \/ PutChanged(u, v) \/ InitNew(u, v)
          PROVE  RowsInv'
      BY <1>0, <2>2, PutNewKeeps, PutChangedKeeps
    <2>3. ASSUME NEW k \in Rows, NEW v \in Value, InsertRow(u, k, v)
          PROVE  RowsInv'
      BY <1>0, <2>3, InsertRowKeeps
    <2>4. CASE Nop(u) \/ Remove(u) \/ InitFound(u)
      BY <1>0, <2>4, NopKeeps, RemoveKeeps
    <2>5. CASE Check(u) \/ FlushOne(u) \/ FlushOneFails(u) \/ Load(u)
      BY <1>0, <2>5, CheckKeeps, FlushOneKeeps, FlushOneFailsKeeps, LoadKeeps
    <2>. QED
      BY <1>1, <2>1, <2>2, <2>3, <2>4, <2>5 DEF UserStep
  <1>2. ASSUME NEW k \in Rows, Evict(k)
        PROVE  RowsInv'
    BY <1>0, <1>2, EvictKeeps
  <1>3. ASSUME NEW ks \in SUBSET Rows, Flush(ks)
        PROVE  RowsInv'
    BY <1>0, <1>3, WriteBackKeeps DEF Flush, callVars
  <1>4. CASE UNCHANGED vars
    BY <1>4
    DEF vars, callVars, RowsInv, TypeOK, OnePerLane, AgedIsMutable, RowSound, UpdateTells, EntryTells,
        LaneIsReady, ClosureKnows, Agrees, Ready
  <1>. QED
    BY <1>1, <1>2, <1>3, <1>4 DEF Next

\* What is cached, pending and stored of a row agrees in every reachable state, and so does
\* what the calls and the flush hold while they run, unless the row is exposed.
THEOREM RowsInvariant == Spec => []RowsInv
  <1>1. RowsInv /\ [Next]_vars => RowsInv'
    BY RowsInvStep
  <1>. QED
    BY InitRowsInv, <1>1, PTL DEF Spec

\* The pending update and the table tell the value the users were last promised, however
\* many changes were merged and whatever was flushed in between (wbdc_on_change, on_delete),
\* of every row that is not exposed.
THEOREM UpdatesAreFaithful == Spec => []Faithful
  <1>1. RowsInv => Faithful
    BY DEF RowsInv, RowSound, UpdateTells, Faithful
  <1>. QED
    BY RowsInvariant, <1>1, PTL

\* The backend has no reason of its own to refuse the update of a row that is not exposed
\* (wbdc_write_back).
THEOREM UpdatesAreFlushable == Spec => []Flushable
  <1>1. RowsInv => Flushable
    BY DEF RowsInv, RowSound, UpdateTells, Flushable
  <1>. QED
    BY RowsInvariant, <1>1, PTL

\* A closure for a row that is not exposed is given the value that was last accepted
\* (maybe_flush_one, get_for_key).
THEOREM ReadsAreLatest == Spec => []ReadsLatest
  <1>1. RowsInv => ReadsLatest
    BY DEF RowsInv, TypeOK, RowSound, ClosureKnows, ReadsLatest
  <1>. QED
    BY RowsInvariant, <1>1, PTL

\* No entry of a row that is not exposed is out of date, where changes are put into the
\* cache; elsewhere it is, once it has outlived a change, and only says that there is a row.
THEOREM EntriesAreLatest == Spec => []CacheIsLatest
  <1>1. RowsInv => CacheIsLatest
    BY DEF RowsInv, RowSound, EntryTells, CacheIsLatest
  <1>. QED
    BY RowsInvariant, <1>1, PTL

-----------------------------------------------------------------------------
(* The store that users see                                                *)

\* What a user's call shows in the store, if it is in its closure and its row is not lost.
LEMMA ShownSays ==
  ASSUME NEW g
  PROVE  /\ g \in Shown <=>
              \E u \in Users :
                /\ pc[u] = "callback" /\ key[u] \notin Lost
                /\ g = [user |-> u, lane |-> op[u], key |-> key[u], value |-> seen[u]]
         /\ g \in Shown' <=>
              \E u \in Users :
                /\ pc'[u] = "callback" /\ key'[u] \notin Lost'
                /\ g = [user |-> u, lane |-> op'[u], key |-> key'[u], value |-> seen'[u]]
  BY DEF Shown, Given

\* The closures stay as they are, and so do the rows that are lost.
LEMMA SameShown ==
  ASSUME Lost' = Lost,
         \A t \in Users : pc'[t] = "callback" <=> pc[t] = "callback",
         \A t \in Users : pc[t] = "callback" => key'[t] = key[t] /\ seen'[t] = seen[t] /\ op'[t] = op[t]
  PROVE  Shown' = Shown
  <1>1. \A g : g \in Shown' <=> g \in Shown
    BY ShownSays
  <1>. QED
    BY <1>1

\* What is kept of the rows.
LEMMA KeptSays ==
  /\ Kept(table) = [k \in Rows |-> IF k \in Lost THEN Absent ELSE table[k]]
  /\ Kept(latest) = [k \in Rows |-> IF k \in Lost THEN Absent ELSE latest[k]]
  /\ Kept(table)' = [k \in Rows |-> IF k \in Lost' THEN Absent ELSE table'[k]]
  /\ Kept(latest)' = [k \in Rows |-> IF k \in Lost' THEN Absent ELSE latest'[k]]
  BY DEF Kept

\* No row is lost unless it is modified, or its entry goes.
LEMMA NoneLost ==
  ASSUME Recorded, UNCHANGED <<cached, latest>>,
         \A k \in Rows : update'[k] \in {update[k], NoUpdate}
  PROVE  Lost' = Lost
  <1>1. ASSUME NEW k \in Rows
        PROVE  ~Modified(k) /\ (Ready(k) => Ready(k)')
    BY DEF Modified, Ready
  <1>2. ASSUME NEW k
        PROVE  (k \in exposed' <=> k \in exposed) /\ (k \in aged' <=> k \in aged)
    BY <1>1 DEF Recorded, Undercut, Crossed, Unseen, Outlived
  <1>. QED
    BY <1>2 DEF Lost

\* Where one row is touched no other one is lost.
LEMMA OneIsLost ==
  ASSUME Recorded, NEW k \in Rows,
         \A j \in Rows \ {k} : update'[j] = update[j] /\ latest'[j] = latest[j] /\ cached'[j] = cached[j]
  PROVE  Lost' \in {Lost, Lost \cup {k}}
  <1>1. ASSUME NEW j \in Rows \ {k}
        PROVE  ~Modified(j) /\ (Ready(j) => Ready(j)')
    BY <1>1 DEF Modified, Ready
  <1>2. ASSUME NEW j, j # k
        PROVE  (j \in exposed' <=> j \in exposed) /\ (j \in aged' <=> j \in aged)
    BY <1>1, <1>2 DEF Recorded, Undercut, Crossed, Unseen, Outlived
  <1>3. \A j : j \in Lost => j \in Lost'
    BY DEF Recorded, Lost
  <1>4. \A j : j # k => (j \in Lost' <=> j \in Lost)
    BY <1>2 DEF Lost
  <1>5. CASE k \in Lost'
    <2>1. \A j : j \in Lost' <=> j \in Lost \cup {k}
      BY <1>4, <1>5
    <2>. QED
      BY <2>1
  <1>6. CASE k \notin Lost'
    <2>1. \A j : j \in Lost' <=> j \in Lost
      BY <1>3, <1>4, <1>6
    <2>. QED
      BY <2>1
  <1>. QED
    BY <1>5, <1>6

\* The step loses the row that it touches, or the row was lost before.
LEMMA LoseImplements ==
  ASSUME Recorded, NEW k \in Rows, k \in Lost',
         \A j \in Rows \ {k} : table'[j] = table[j] /\ update'[j] = update[j]
                               /\ latest'[j] = latest[j] /\ cached'[j] = cached[j],
         \A t \in Users : (pc'[t] = "callback" /\ key'[t] # k) <=> (pc[t] = "callback" /\ key[t] # k),
         \A t \in Users : pc[t] = "callback" /\ key[t] # k =>
            key'[t] = key[t] /\ seen'[t] = seen[t] /\ op'[t] = op[t]
  PROVE  [RS!Next]_RS!vars
  <1>1. Lost' = Lost \cup {k}
    BY OneIsLost
  <1>2. ASSUME NEW g
        PROVE  g \in Shown' <=> g \in Shown /\ g.key # k
    BY <1>1, ShownSays
  <1>3. Shown' = {g \in Shown : g.key # k}
    BY <1>2
  <1>4. /\ Kept(table)' = [Kept(table) EXCEPT ![k] = Absent]
        /\ Kept(latest)' = [Kept(latest) EXCEPT ![k] = Absent]
    <2>1. \A j \in Rows \ {k} : /\ table'[j] = table[j] /\ latest'[j] = latest[j]
                               /\ j \in Lost' <=> j \in Lost
      BY <1>1
    <2>2. /\ Kept(table)' = [j \in Rows |-> IF j = k THEN Absent ELSE Kept(table)[j]]
          /\ Kept(latest)' = [j \in Rows |-> IF j = k THEN Absent ELSE Kept(latest)[j]]
      BY <2>1, KeptSays
    <2>. QED
      BY <2>2, KeptSays
  <1>5. RS!Lose(k)
    BY <1>1, <1>3, <1>4 DEF RS!Lose
  <1>. QED
    BY <1>5 DEF RS!Next

\* A closure ends, with a new value of its row or with the value it was given.
LEMMA AnswerImplements ==
  ASSUME RowsInv, TypeOK', Recorded, NEW u \in Users, pc[u] = "callback", Return(u), table' = table,
         \A j \in Rows \ {key[u]} : update'[j] = update[j] /\ latest'[j] = latest[j] /\ cached'[j] = cached[j]
  PROVE  [RS!Next]_RS!vars
  <1>. PICK k \in Rows : k = key[u]
    BY DEF RowsInv, TypeOK
  <1>1. /\ pc'[u] = "idle" /\ key' = key
        /\ \A t \in Users \ {u} : pc'[t] = pc[t] /\ seen'[t] = seen[t] /\ op'[t] = op[t]
    BY ReturnTypes DEF RowsInv
  <1>2. CASE k \in Lost'
    BY <1>1, <1>2, LoseImplements
  <1>3. CASE k \notin Lost'
    <2>. DEFINE g == [user |-> u, lane |-> op[u], key |-> k, value |-> seen[u]]
                v == latest'[k]
    <2>1. Lost' = Lost
      BY <1>3, OneIsLost
    <2>2. k \notin exposed' /\ k \notin Lost /\ k \notin exposed /\ k \notin aged
      BY <1>3, <2>1 DEF Lost
    <2>3. g \in Shown
      BY <2>2, ShownSays
    <2>4. seen[u] = latest[k]
      BY <2>2 DEF RowsInv, RowSound, ClosureKnows, Agrees
    <2>5. ASSUME NEW h
          PROVE  h \in Shown' <=> h \in Shown /\ h # g
      <3>1. h \in Shown' <=>
              \E t \in Users \ {u} :
                /\ pc[t] = "callback" /\ key[t] \notin Lost
                /\ h = [user |-> t, lane |-> op[t], key |-> key[t], value |-> seen[t]]
        BY <1>1, <2>1, ShownSays
      <3>2. \A t \in Users \ {u} : [user |-> t, lane |-> op[t], key |-> key[t], value |-> seen[t]] # g
        OBVIOUS
      <3>. QED
        BY <3>1, <3>2, ShownSays
    <2>6. Shown' = Shown \ {g}
      BY <2>5
    <2>7. v = seen[u] \/ \A h \in Shown \ {g} : h.key # k
      <3>. SUFFICES ASSUME v # seen[u], NEW h \in Shown \ {g}, h.key = k PROVE FALSE
        OBVIOUS
      <3>1. Modified(k)
        BY <2>4 DEF Modified
      <3>2. PICK t \in Users : pc[t] = "callback" /\ key[t] = k /\ t # u
        BY ShownSays
      <3>. QED
        BY <2>2, <3>1, <3>2, ModifiesAlone
    <2>8. /\ Kept(table)' = Kept(table)
          /\ Kept(latest)' = [Kept(latest) EXCEPT ![k] = v]
          /\ Kept(latest)[k] = latest[k]
      BY <2>1, <2>2, KeptSays
    <2>9. RS!Answer(g, v)
      BY <2>1, <2>4, <2>6, <2>7, <2>8 DEF RS!Answer
    <2>10. v \in Value \cup {Absent}
      BY DEF TypeOK
    <2>. QED
      BY <2>3, <2>9, <2>10 DEF RS!Next
  <1>. QED
    BY <1>2, <1>3

\* A closure is given the last value of its row.
LEMMA LoadImplements ==
  ASSUME RowsInv, RowsInv', NEW u \in Users, Load(u)
  PROVE  [RS!Next]_RS!vars
  <1>. PICK k \in Rows : k = key[u]
    BY DEF RowsInv, TypeOK
  <1>1. /\ pc[u] = "lane" /\ pc'[u] = "callback" /\ key' = key /\ op' = op
        /\ \A t \in Users \ {u} : pc'[t] = pc[t] /\ seen'[t] = seen[t]
        /\ UNCHANGED <<table, latest, cached, update>>
        /\ Recorded
    BY DEF Load, RowsInv, TypeOK
  <1>2. Lost' = Lost
    BY <1>1, NoneLost
  <1>3. Kept(table)' = Kept(table) /\ Kept(latest)' = Kept(latest)
    BY <1>1, <1>2, KeptSays
  <1>4. CASE k \in Lost
    <2>1. \A h : h \in Shown' <=> h \in Shown
      BY <1>1, <1>2, <1>4, ShownSays
    <2>2. Shown' = Shown
      BY <2>1
    <2>. QED
      BY <1>2, <1>3, <2>2 DEF RS!vars
  <1>5. CASE k \notin Lost
    <2>. DEFINE g == [user |-> u, lane |-> op[u], key |-> k, value |-> latest[k]]
    <2>1. seen'[u] = latest[k]
      BY <1>1, <1>2, <1>5 DEF RowsInv, RowSound, ClosureKnows, Agrees, Lost
    <2>2. \A h : h \in Shown' <=> h \in Shown \/ h = g
      BY <1>1, <1>2, <1>5, <2>1, ShownSays
    <2>3. Shown' = Shown \cup {g}
      BY <2>2
    <2>4. \A h \in Shown : h.user # u /\ ~(h.key = k /\ h.lane = op[u])
      BY <1>1, ShownSays DEF Load, LaneFree, Occupies
    <2>5. Kept(latest)[k] = latest[k] /\ op[u] \in RS!Lane
      BY <1>5, KeptSays DEF RowsInv, TypeOK, RS!Lane
    <2>6. RS!Give(u, op[u], k)
      BY <1>2, <1>3, <1>5, <2>3, <2>4, <2>5 DEF RS!Give
    <2>. QED
      BY <2>5, <2>6 DEF RS!Next
  <1>. QED
    BY <1>4, <1>5

\* What is written of a row is its last value.
LEMMA WriteBackImplements ==
  ASSUME RowsInv, Recorded, NEW ks \in SUBSET Rows, WriteBack(ks), UNCHANGED <<cached, latest, key, op, seen>>,
         \A t \in Users : pc'[t] = "callback" <=> pc[t] = "callback"
  PROVE  [RS!Next]_RS!vars
  <1>1. \A k \in Rows : update'[k] \in {update[k], NoUpdate}
    BY DEF WriteBack
  <1>2. Lost' = Lost
    BY <1>1, NoneLost
  <1>3. Shown' = Shown
    BY <1>2, SameShown
  <1>4. \A k \in Rows \ Lost : Written(update[k], table[k]) = latest[k]
    BY DEF RowsInv, RowSound, UpdateTells, Agrees, Lost
  <1>5. /\ Kept(table)' = [k \in Rows |-> IF k \in ks THEN Kept(latest)[k] ELSE Kept(table)[k]]
        /\ Kept(latest)' = Kept(latest)
    BY <1>2, <1>4, KeptSays DEF WriteBack
  <1>6. RS!Store(ks)
    BY <1>2, <1>3, <1>5 DEF RS!Store
  <1>. QED
    BY <1>6 DEF RS!Next

\* A row is inserted that is not stored, and given to nobody.
LEMMA InsertImplements ==
  ASSUME RowsInv, NEW u \in Users, NEW k \in Rows, NEW v \in Value, InsertRow(u, k, v)
  PROVE  [RS!Next]_RS!vars
  <1>1. /\ LaneFree("compute", k) /\ Recorded
        /\ UNCHANGED <<table, callVars>>
        /\ latest' = [latest EXCEPT ![k] = v]
        /\ \A j \in Rows \ {k} : update'[j] = update[j] /\ latest'[j] = latest[j] /\ cached'[j] = cached[j]
    BY DEF InsertRow, RowsInv, TypeOK
  <1>2. CASE k \in Lost'
    BY <1>1, <1>2, LoseImplements DEF callVars
  <1>3. CASE k \notin Lost'
    <2>1. Lost' = Lost
      BY <1>1, <1>3, OneIsLost
    <2>2. k \notin exposed'
      BY <1>3 DEF Lost
    <2>3. Shown' = Shown /\ Kept(table)' = Kept(table)
      BY <1>1, <2>1, SameShown, KeptSays DEF callVars
    <2>4. Kept(latest)' = [Kept(latest) EXCEPT ![k] = v] /\ Kept(table)[k] = table[k]
      BY <1>1, <1>3, <2>1, KeptSays DEF RowsInv, TypeOK
    <2>5. CASE Modified(k)
      <3>1. table[k] = Absent
        BY <1>1, <2>2, <2>5, Spared DEF Unseen
      <3>2. \A g \in Shown : g.key # k
        BY <1>1, <2>2, <2>5, ShownSays, InsertsAlone
      <3>3. RS!Insert(k, v)
        BY <1>3, <2>1, <2>3, <2>4, <3>1, <3>2 DEF RS!Insert
      <3>. QED
        BY <3>3 DEF RS!Next
    <2>6. CASE ~Modified(k)
      <3>1. \A j \in Rows : latest'[j] = latest[j]
        BY <1>1, <2>6 DEF Modified
      <3>2. Kept(latest)' = Kept(latest)
        BY <2>1, <3>1, KeptSays
      <3>. QED
        BY <2>1, <2>3, <3>2 DEF RS!vars
    <2>. QED
      BY <2>5, <2>6
  <1>. QED
    BY <1>2, <1>3

\* An entry goes, and with it, perhaps, what is known of the row.
LEMMA EvictImplements ==
  ASSUME RowsInv, NEW k \in Rows, Evict(k)
  PROVE  [RS!Next]_RS!vars
  <1>1. /\ UNCHANGED <<table, update, latest, callVars>> /\ Recorded
        /\ \A j \in Rows \ {k} : cached'[j] = cached[j]
    BY DEF Evict, RowsInv, TypeOK
  <1>2. CASE k \in Lost'
    BY <1>1, <1>2, LoseImplements DEF callVars
  <1>3. CASE k \notin Lost'
    <2>1. Lost' = Lost
      BY <1>1, <1>3, OneIsLost
    <2>2. Shown' = Shown /\ Kept(table)' = Kept(table) /\ Kept(latest)' = Kept(latest)
      BY <1>1, <2>1, SameShown, KeptSays DEF callVars
    <2>. QED
      BY <2>1, <2>2 DEF RS!vars
  <1>. QED
    BY <1>2, <1>3

\* A call begins, looks at the cache or fails: that is not to be seen.
LEMMA CallsAreUnseen ==
  ASSUME Recorded, UNCHANGED <<table, cached, update, latest>>,
         \A t \in Users : pc'[t] = "callback" <=> pc[t] = "callback",
         \A t \in Users : pc[t] = "callback" => key'[t] = key[t] /\ seen'[t] = seen[t] /\ op'[t] = op[t]
  PROVE  UNCHANGED RS!vars
  <1>1. Lost' = Lost
    BY NoneLost
  <1>. QED
    BY <1>1, SameShown, KeptSays DEF RS!vars

\* Every step of a user is a step of the store, or is not to be seen.
LEMMA UserImplements ==
  ASSUME RowsInv, RowsInv', NEW u \in Users, UserStep(u)
  PROVE  [RS!Next]_RS!vars
  <1>0. TypeOK' /\ key[u] \in Rows
    BY DEF RowsInv, TypeOK
  <1>1. CASE Load(u)
    BY <1>1, LoadImplements
  <1>2. ASSUME NEW kind \in {"compute", "init"}, NEW k \in Rows, Call(u, kind, k)
        PROVE  UNCHANGED RS!vars
    <2>1. /\ \A t \in Users : pc'[t] = "callback" <=> pc[t] = "callback"
          /\ \A t \in Users : pc[t] = "callback" => key'[t] = key[t] /\ seen'[t] = seen[t] /\ op'[t] = op[t]
      BY <1>2 DEF Call, RowsInv, TypeOK
    <2>. QED
      BY <1>2, <2>1, CallsAreUnseen DEF Call
  <1>3. CASE Check(u)
    <2>1. \A t \in Users : pc'[t] = "callback" <=> pc[t] = "callback"
      BY <1>3 DEF Check, AfterCheck, RowsInv, TypeOK
    <2>. QED
      BY <1>3, <2>1, CallsAreUnseen DEF Check
  <1>4. CASE FlushOne(u)
    <2>1. \A t \in Users : pc'[t] = "callback" <=> pc[t] = "callback"
      BY <1>4 DEF FlushOne, RowsInv, TypeOK
    <2>2. {key[u]} \in SUBSET Rows
      BY <1>0
    <2>. QED
      BY <1>4, <2>1, <2>2, WriteBackImplements DEF FlushOne
  <1>5. CASE FlushOneFails(u)
    <2>1. /\ pc[u] = "flush" /\ pc'[u] = "idle" /\ key' = key
          /\ \A t \in Users \ {u} : pc'[t] = pc[t] /\ seen'[t] = seen[t] /\ op'[t] = op[t]
      BY <1>5, ReturnTypes DEF FlushOneFails, RowsInv
    <2>2. \A t \in Users : pc'[t] = "callback" <=> pc[t] = "callback"
      BY <2>1
    <2>3. \A t \in Users : pc[t] = "callback" => key'[t] = key[t] /\ seen'[t] = seen[t] /\ op'[t] = op[t]
      BY <2>1
    <2>. QED
      BY <1>5, <2>2, <2>3, CallsAreUnseen DEF FlushOneFails
  <1>6. CASE Nop(u) \/ InitFound(u)
    <2>1. /\ pc[u] = "callback" /\ Return(u) /\ Recorded /\ UNCHANGED <<table, update, latest>>
          /\ \A j \in Rows \ {key[u]} : cached'[j] = cached[j]
      BY <1>0, <1>6 DEF Nop, InitFound, RowsInv, TypeOK
    <2>. QED
      BY <1>0, <2>1, AnswerImplements
  <1>7. CASE Remove(u)
    <2>1. /\ pc[u] = "callback" /\ Return(u) /\ Recorded /\ table' = table
          /\ \A j \in Rows \ {key[u]} :
                update'[j] = update[j] /\ latest'[j] = latest[j] /\ cached'[j] = cached[j]
      BY <1>7 DEF Remove, Accept, RowsInv, TypeOK
    <2>. QED
      BY <1>0, <2>1, AnswerImplements
  <1>8. ASSUME NEW v \in Value, PutNew(u, v) \/ PutChanged(u, v) \/ InitNew(u, v)
        PROVE  [RS!Next]_RS!vars
    <2>1. /\ pc[u] = "callback" /\ Return(u) /\ Recorded /\ table' = table
          /\ \A j \in Rows \ {key[u]} :
                update'[j] = update[j] /\ latest'[j] = latest[j] /\ cached'[j] = cached[j]
      BY <1>8 DEF PutNew, PutChanged, InitNew, Accept, RowsInv, TypeOK
    <2>. QED
      BY <1>0, <2>1, AnswerImplements
  <1>9. ASSUME NEW k \in Rows, NEW v \in Value, InsertRow(u, k, v)
        PROVE  [RS!Next]_RS!vars
    BY <1>9, InsertImplements
  <1>. QED
    BY <1>1, <1>2, <1>3, <1>4, <1>5, <1>6, <1>7, <1>8, <1>9 DEF UserStep

\* So is every step of the specification.
LEMMA StoreStep ==
  ASSUME RowsInv, RowsInv', [Next]_vars
  PROVE  [RS!Next]_RS!vars
  <1>1. ASSUME NEW k \in Rows, Evict(k)
        PROVE  [RS!Next]_RS!vars
    BY <1>1, EvictImplements
  <1>2. ASSUME NEW ks \in SUBSET Rows, Flush(ks)
        PROVE  [RS!Next]_RS!vars
    BY <1>2, WriteBackImplements DEF Flush, callVars
  <1>3. CASE UNCHANGED vars
    <2>1. Lost' = Lost
      BY <1>3 DEF vars, Lost
    <2>. QED
      BY <1>3, <2>1, SameShown, KeptSays DEF vars, callVars, RS!vars
  <1>. QED
    BY <1>1, <1>2, <1>3, UserImplements DEF Next

\* Users see a store without a cache: entries, pending updates and flushes are hidden, and so
\* are the rows that are exposed or have aged.
THEOREM RowsImplementStore == Spec => ImplementsStore
  <1>1. Init => RS!Init
    <2>. SUFFICES ASSUME Init PROVE RS!Init
      OBVIOUS
    <2>1. Shown = {} /\ Lost = {}
      BY DEF Init, Given, Shown, Lost
    <2>2. Kept(table) = table /\ Kept(latest) = latest
      BY <2>1 DEF Init, Kept
    <2>. QED
      BY <2>1, <2>2 DEF Init, RS!Init
  <1>2. RowsInv /\ RowsInv' /\ [Next]_vars => [RS!Next]_RS!vars
    BY StoreStep
  <1>. QED
    BY <1>1, <1>2, RowsInvariant, PTL DEF Spec, ImplementsStore, RS!Spec

=============================================================================
