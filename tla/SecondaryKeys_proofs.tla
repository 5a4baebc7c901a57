------------------------- MODULE SecondaryKeys_proofs -------------------------
(***************************************************************************)
(* Calls by secondary keys take the rows through steps of CachedRows only, *)
(* so what is proved of the rows holds of them; and their entries never    *)
(* refer to a row that is gone, unless it is exposed or has strayed.       *)
(***************************************************************************)
EXTENDS SecondaryKeysInv, CachedRows_proofs

-----------------------------------------------------------------------------
(* Every step on a row is a step of CachedRows                             *)

\* What a call by a secondary key does to a row is what a call by its primary key does.
LEMMA RowSteps ==
  ASSUME KeyedTypeOK, KeyedNext
  PROVE  Next \/ UNCHANGED vars
  <1>1. ASSUME NEW u \in Users, Starts(u)
        PROVE  Next \/ UNCHANGED vars
    <2>1. ASSUME NEW kind \in Forms, NEW s \in Vals, CallBySecondary(u, kind, s)
          PROVE  UNCHANGED vars
      BY <2>1 DEF CallBySecondary
    <2>2. ASSUME NEW kind \in {"compute", "init"}, NEW k \in Rows, CallByPrimary(u, kind, k)
          PROVE  UserStep(u)
      BY <2>2 DEF CallByPrimary, UserStep
    <2>3. ASSUME NEW k \in Rows, NEW v \in Value, InsertByPrimary(u, k, v)
          PROVE  UserStep(u)
      BY <2>3 DEF InsertByPrimary, UserStep
    <2>. QED
      BY <1>1, <2>1, <2>2, <2>3 DEF Starts, Next
  <1>2. ASSUME NEW u \in Users, InCall(u)
        PROVE  UserStep(u) \/ UNCHANGED vars
    <2>1. CASE Proceed(u) \/ KeyedFlushFails(u) \/ KeyedNop(u) \/ KeyedRemove(u) \/ KeyedInitFound(u)
      BY <2>1 DEF Proceed, KeyedFlushFails, KeyedNop, KeyedRemove, KeyedInitFound, UserStep
    <2>2. ASSUME NEW v \in Value, KeyedPutNew(u, v) \/ KeyedPutChanged(u, v) \/ KeyedInitNew(u, v)
          PROVE  UserStep(u)
      <3>1. PutNew(u, v) \/ PutChanged(u, v) \/ InitNew(u, v)
        BY <2>2 DEF KeyedPutNew, KeyedPutChanged, KeyedInitNew
      <3>. QED
        BY <3>1 DEF UserStep
    <2>3. ASSUME NEW k \in Rows, EnterKnown(u, k) \/ UnknownPut(u, k)
          PROVE  UserStep(u)
      <3>1. form[u] \in {"compute", "init"}
        BY DEF KeyedTypeOK
      <3>2. \E kind \in {"compute", "init"} : Call(u, kind, k)
        BY <2>3, <3>1 DEF EnterKnown, UnknownPut
      <3>. QED
        BY <3>2 DEF UserStep
    <2>4. ASSUME NEW k \in Rows, NEW v \in Value, UnknownInsert(u, k, v)
          PROVE  UserStep(u)
      BY <2>4 DEF UnknownInsert, UserStep
    <2>5. CASE EnterUnknown(u) \/ Link(u)
      BY <2>5 DEF EnterUnknown, Link
    <2>6. ASSUME NEW result \in {"nothing", "error"}, UnknownNop(u, result)
          PROVE  UNCHANGED vars
      BY <2>6 DEF UnknownNop
    <2>. QED
      BY <1>2, <2>1, <2>2, <2>3, <2>4, <2>5, <2>6 DEF InCall
  <1>3. ASSUME NEW k \in Rows, Invalidate(k) \/ EvictPrimary(k)
        PROVE  Next
    BY <1>3 DEF Invalidate, EvictPrimary, Next
  <1>4. ASSUME NEW s \in Vals, EvictSecondary(s)
        PROVE  UNCHANGED vars
    BY <1>4 DEF EvictSecondary
  <1>5. ASSUME NEW ks \in SUBSET Rows, KeyedFlush(ks)
        PROVE  Next
    BY <1>5 DEF KeyedFlush, Next
  <1>. QED
    BY <1>1, <1>2, <1>3, <1>4, <1>5 DEF KeyedNext, Next

-----------------------------------------------------------------------------
(* Types                                                                   *)

\* The history is of rows.
LEMMA EstrangedTypes ==
  ASSUME strayed \subseteq Rows, Estranged
  PROVE  strayed' \subseteq Rows
  BY DEF Estranged

\* A call on a row ends.
LEMMA EndTypes ==
  ASSUME TypeOK, KeyedTypeOK, NEW u \in Users, NEW result \in Outcomes,
         pc[u] # "idle", Ends(u, result), Return(u),
         alias' \in [Vals -> Rows \cup {NoRow}]
  PROVE  KeyedTypeOK'
  <1>1. pc'[u] = "idle" /\ \A t \in Users \ {u} : pc'[t] = pc[t]
    BY ReturnTypes
  <1>2. stage[u] \in {"none", "primary"}
    BY DEF KeyedTypeOK, Stages
  <1>. QED
    BY <1>1, <1>2, EstrangedTypes DEF Ends, KeyedTypeOK, Stages

\* The results of the closures.
LEMMA EndingTypes ==
  ASSUME TypeOK, KeyedTypeOK, NEW u \in Users,
         \/ KeyedFlushFails(u) \/ KeyedNop(u) \/ KeyedRemove(u) \/ KeyedInitFound(u)
         \/ \E v \in Value : KeyedPutNew(u, v) \/ KeyedPutChanged(u, v) \/ KeyedInitNew(u, v)
  PROVE  KeyedTypeOK'
  <1>1. pc[u] # "idle" /\ Return(u)
    BY DEF KeyedFlushFails, KeyedNop, KeyedRemove, KeyedInitFound, KeyedPutNew, KeyedPutChanged,
           KeyedInitNew, FlushOneFails, Nop, Remove, InitFound, PutNew, PutChanged, InitNew
  <1>2. \E result \in Outcomes : Ends(u, result)
    BY DEF KeyedFlushFails, KeyedNop, KeyedRemove, KeyedInitFound, KeyedPutNew, KeyedPutChanged,
           KeyedInitNew, ChangeResult, Outcomes
  <1>3. alias' = alias \/ alias' = Dropped(seen[u])
    BY DEF KeyedFlushFails, KeyedNop, KeyedRemove, KeyedInitFound, KeyedPutNew, KeyedPutChanged,
           KeyedInitNew
  <1>4. alias' \in [Vals -> Rows \cup {NoRow}]
    BY <1>3 DEF Dropped, KeyedTypeOK
  <1>. QED
    BY <1>1, <1>2, <1>4, EndTypes

LEMMA KeyedTypeStep ==
  ASSUME TypeOK, KeyedTypeOK, [KeyedNext]_keyedVars
  PROVE  KeyedTypeOK'
  <1>1. ASSUME NEW u \in Users, Starts(u)
        PROVE  KeyedTypeOK'
    <2>1. ASSUME NEW kind \in Forms, NEW s \in Vals, CallBySecondary(u, kind, s)
          PROVE  KeyedTypeOK'
      BY <2>1, SecondaryAssumption DEF CallBySecondary, vars, callVars, KeyedTypeOK, Stages
    <2>2. ASSUME NEW kind \in {"compute", "init"}, NEW k \in Rows, CallByPrimary(u, kind, k)
          PROVE  KeyedTypeOK'
      BY <2>2 DEF CallByPrimary, Call, linkVars, KeyedTypeOK, TypeOK
    <2>3. ASSUME NEW k \in Rows, NEW v \in Value, InsertByPrimary(u, k, v)
          PROVE  KeyedTypeOK'
      BY <2>3, EstrangedTypes DEF InsertByPrimary, InsertRow, callVars, linkVars, KeyedTypeOK
    <2>. QED
      BY <1>1, <2>1, <2>2, <2>3 DEF Starts
  <1>2. ASSUME NEW u \in Users, InCall(u)
        PROVE  KeyedTypeOK'
    <2>1. CASE Proceed(u)
      <3>1. /\ pc[u] # "idle" /\ pc'[u] # "idle"
            /\ \A t \in Users \ {u} : pc'[t] = pc[t]
            /\ UNCHANGED <<alias, panicked, strayed>> /\ UNCHANGED linkVars
        BY <2>1 DEF Proceed, Check, AfterCheck, FlushOne, Load, TypeOK
      <3>. QED
        BY <3>1 DEF linkVars, KeyedTypeOK
    <2>2. ASSUME NEW k \in Rows, EnterKnown(u, k)
          PROVE  KeyedTypeOK'
      BY <2>2 DEF EnterKnown, Enter, Call, KeyedTypeOK, Stages, TypeOK
    <2>3. ASSUME NEW k \in Rows, UnknownPut(u, k)
          PROVE  KeyedTypeOK'
      BY <2>3 DEF UnknownPut, Call, KeyedTypeOK, Stages, TypeOK
    <2>4. CASE EnterUnknown(u)
      BY <2>4 DEF EnterUnknown, Enter, vars, callVars, KeyedTypeOK, Stages
    <2>5. ASSUME NEW result \in {"nothing", "error"}, UnknownNop(u, result)
          PROVE  KeyedTypeOK'
      BY <2>5 DEF UnknownNop, vars, callVars, KeyedTypeOK, Stages, Outcomes
    <2>6. ASSUME NEW k \in Rows, NEW v \in Value, UnknownInsert(u, k, v)
          PROVE  KeyedTypeOK'
      BY <2>6, EstrangedTypes DEF UnknownInsert, InsertRow, callVars, KeyedTypeOK, Stages, Outcomes
    <2>7. CASE Link(u)
      <3>1. Linked(u) \in [Vals -> Rows \cup {NoRow}]
        BY DEF Linked, KeyedTypeOK
      <3>. QED
        BY <2>7, <3>1
        DEF Link, LinkPanics, UnwrapsNoKey, UnwrapsNoValue, WantsValue, vars, callVars, KeyedTypeOK,
            Stages, Outcomes
    <2>. QED
      BY <1>2, <2>1, <2>2, <2>3, <2>4, <2>5, <2>6, <2>7, EndingTypes DEF InCall
  <1>3. ASSUME UNCHANGED <<pc, panicked, strayed>>, UNCHANGED linkVars, alias' \in [Vals -> Rows \cup {NoRow}]
        PROVE  KeyedTypeOK'
    BY <1>3 DEF linkVars, KeyedTypeOK
  <1>4. ASSUME NEW k \in Rows, Invalidate(k) \/ EvictPrimary(k)
        PROVE  KeyedTypeOK'
    BY <1>3, <1>4 DEF Invalidate, EvictPrimary, Evict, Dropped, callVars, KeyedTypeOK
  <1>5. ASSUME NEW s \in Vals, EvictSecondary(s)
        PROVE  KeyedTypeOK'
    BY <1>3, <1>5 DEF EvictSecondary, vars, callVars, KeyedTypeOK
  <1>6. ASSUME NEW ks \in SUBSET Rows, KeyedFlush(ks)
        PROVE  KeyedTypeOK'
    BY <1>3, <1>6 DEF KeyedFlush, Flush, callVars, KeyedTypeOK
  <1>7. CASE UNCHANGED keyedVars
    BY <1>3, <1>7 DEF keyedVars, vars, callVars, KeyedTypeOK
  <1>. QED
    BY <1>1, <1>2, <1>4, <1>5, <1>6, <1>7 DEF KeyedNext

\* The rows change as they do without secondary keys.
LEMMA RowsUnderKeys ==
  ASSUME KeyedTypeOK, [KeyedNext]_keyedVars
  PROVE  [Next]_vars
  BY RowSteps DEF keyedVars

\* Calls by secondary keys are well formed, and have what they need at each of their steps,
\* whatever the users, the data controller and the evictions do.
THEOREM KeyedCallsAreTyped == KeyedSpec => [](TypeOK /\ KeyedTypeOK)
  <1>1. KeyedInit => TypeOK /\ KeyedTypeOK
    <2>. SUFFICES ASSUME KeyedInit PROVE TypeOK /\ KeyedTypeOK
      OBVIOUS
    <2>1. TypeOK /\ strayed \subseteq Rows
      BY InitRowsInv DEF KeyedInit, RowsInv
    <2>. QED
      BY <2>1 DEF KeyedInit, KeyedTypeOK, Stages, Outcomes
  <1>2. TypeOK /\ KeyedTypeOK /\ [KeyedNext]_keyedVars => TypeOK' /\ KeyedTypeOK'
    BY KeyedTypeStep, RowsUnderKeys, TypeStep
  <1>. QED
    BY <1>1, <1>2, PTL DEF KeyedSpec

\* The rows of a cache that is used by secondary keys, too, are the rows of CachedRows: all
\* that is proved of these holds of those.
THEOREM KeyedRowsAreRows == KeyedSpec => Spec
  <1>1. KeyedInit => Init
    BY DEF KeyedInit
  <1>2. KeyedTypeOK /\ [KeyedNext]_keyedVars => [Next]_vars
    BY RowsUnderKeys
  <1>. QED
    BY <1>1, <1>2, KeyedCallsAreTyped, PTL DEF KeyedSpec, Spec

\* So users of secondary keys, too, see a store without a cache.
THEOREM KeyedRowsImplementStore == KeyedSpec => ImplementsStore
  BY KeyedRowsAreRows, RowsImplementStore, PTL

-----------------------------------------------------------------------------
(* The secondary keys of the rows                                          *)

\* What the history says of a row that has not strayed.
LEMMA HasNotStrayed ==
  ASSUME KeyedInv, [KeyedNext]_keyedVars, NEW k \in Rows, k \notin strayed'
  PROVE  k \notin strayed /\ ~LinkCut(k) /\ HasKey(k, latest'[k])
  <1>1. Estranged \/ UNCHANGED <<latest, strayed>>
    <2>1. ASSUME NEW u \in Users, Starts(u)
          PROVE  Estranged \/ UNCHANGED <<latest, strayed>>
      BY <2>1 DEF Starts, CallBySecondary, CallByPrimary, Call, InsertByPrimary, vars
    <2>2. ASSUME NEW u \in Users, Proceed(u) \/ Link(u) \/ EnterUnknown(u)
          PROVE  UNCHANGED <<latest, strayed>>
      BY <2>2 DEF Proceed, Check, FlushOne, Load, Link, EnterUnknown, Enter, vars
    <2>3. ASSUME NEW u \in Users,
                 \/ \E k1 \in Rows : EnterKnown(u, k1) \/ UnknownPut(u, k1)
                 \/ \E result \in {"nothing", "error"} : UnknownNop(u, result)
          PROVE  UNCHANGED <<latest, strayed>>
      BY <2>3 DEF EnterKnown, Enter, UnknownPut, Call, UnknownNop, vars
    <2>4. ASSUME NEW u \in Users,
                 \/ KeyedFlushFails(u) \/ KeyedNop(u) \/ KeyedRemove(u) \/ KeyedInitFound(u)
                 \/ \E v \in Value : KeyedPutNew(u, v) \/ KeyedPutChanged(u, v) \/ KeyedInitNew(u, v)
                 \/ \E k1 \in Rows, v \in Value : UnknownInsert(u, k1, v)
          PROVE  Estranged
      BY <2>4 DEF KeyedFlushFails, KeyedNop, KeyedRemove, KeyedInitFound, KeyedPutNew, KeyedPutChanged,
           KeyedInitNew, UnknownInsert, Ends
    <2>5. ASSUME NEW u \in Users, InCall(u)
          PROVE  Estranged \/ UNCHANGED <<latest, strayed>>
      BY <2>2, <2>3, <2>4, <2>5 DEF InCall
    <2>6. ASSUME \/ \E k1 \in Rows : Invalidate(k1) \/ EvictPrimary(k1)
                 \/ \E s \in Vals : EvictSecondary(s)
                 \/ \E ks \in SUBSET Rows : KeyedFlush(ks)
                 \/ UNCHANGED keyedVars
          PROVE  UNCHANGED <<latest, strayed>>
      BY <2>6 DEF Invalidate, EvictPrimary, EvictSecondary, Evict, KeyedFlush, Flush, keyedVars, vars
    <2>. QED
      BY <2>1, <2>5, <2>6 DEF KeyedNext
  <1>2. CASE Estranged
    BY <1>2 DEF Estranged, Renamed, HasKey
  <1>3. CASE UNCHANGED <<latest, strayed>>
    BY <1>3 DEF LinkCut, KeyedInv, RowsKeepKeys, KeepsKey
  <1>. QED
    BY <1>1, <1>2, <1>3

\* An update that tells a value of a row with its key writes no other key.
LEMMA WrittenKeeps ==
  ASSUME NEW upd \in Updates, NEW row \in Value \cup {Absent}, NEW k \in Rows, HasKey(k, row),
         upd.kind \in {"insert", "update"} => upd.am[Email].val = SecondaryOf[k]
  PROVE  HasKey(k, Written(upd, row))
  <1>1. CASE upd = NoUpdate
    BY <1>1, WrittenForms DEF Written, NoUpdate
  <1>2. CASE upd = Delete
    BY <1>2 DEF Written, Delete, HasKey
  <1>3. ASSUME NEW am \in ActiveModel, upd = Insert(am)
        PROVE  HasKey(k, Written(upd, row))
    <2>1. Written(upd, row)[Email] = am[Email].val
      BY <1>3, WrittenForms, SecondaryAssumption DEF Model
    <2>. QED
      BY <1>3, <2>1 DEF HasKey, Insert
  <1>4. ASSUME NEW am \in ActiveModel, upd = Update(am)
        PROVE  HasKey(k, Written(upd, row))
    <2>1. CASE row = Absent
      BY <1>4, <2>1, WrittenForms DEF HasKey
    <2>2. CASE row # Absent
      <3>1. Written(upd, row)[Email] = IF am[Email].state = "set" THEN am[Email].val ELSE row[Email]
        BY <1>4, <2>2, WrittenForms, SecondaryAssumption
      <3>. QED
        BY <1>4, <2>2, <3>1 DEF HasKey, Update
    <2>. QED
      BY <2>1, <2>2
  <1>. QED
    BY <1>1, <1>2, <1>3, <1>4, UpdateForms

\* A change to a value with the row's key is an update with this key.
LEMMA ChangeHasKey ==
  ASSUME NEW old \in Value, NEW v \in Value, NEW prev \in Updates, prev # Delete, NEW k \in Rows,
         v[Email] = SecondaryOf[k],
         prev.kind \in {"insert", "update"} => prev.am[Email].val = SecondaryOf[k]
  PROVE  LET n == OnChange(v, old, prev)
         IN  n.kind \in {"insert", "update"} => n.am[Email].val = SecondaryOf[k]
  <1>. DEFINE n == OnChange(v, old, prev)
              d == Diff(Base(old, prev), v)
  <1>1. Base(old, prev) \in ActiveModel
    <2>1. CASE prev = NoUpdate
      BY <2>1, IntoActiveType DEF Base
    <2>2. CASE prev # NoUpdate
      BY <2>2, UpdateForms DEF Base, Insert, Update
    <2>. QED
      BY <2>1, <2>2
  <1>2. d[Email].val = v[Email]
    BY <1>1, DiffSays, SecondaryAssumption
  <1>3. n = prev \/ n = Update(d) \/ (prev # NoUpdate /\ n = [prev EXCEPT !.am = d])
    BY DEF OnChange, Replaced
  <1>4. CASE n = prev \/ n = Update(d)
    BY <1>2, <1>4 DEF Update
  <1>5. CASE prev # NoUpdate /\ n = [prev EXCEPT !.am = d]
    <2>1. PICK am \in ActiveModel : prev = Insert(am) \/ prev = Update(am)
      BY <1>5, UpdateForms
    <2>. QED
      BY <1>2, <1>5, <2>1 DEF Insert, Update
  <1>. QED
    BY <1>3, <1>4, <1>5

\* What is written of a row has its key.
LEMMA WriteBackHasKey ==
  ASSUME TypeOK, NEW k \in Rows, KeepsKey(k), NEW ks \in SUBSET Rows, WriteBack(ks)
  PROVE  /\ HasKey(k, table'[k])
         /\ update'[k].kind \in {"insert", "update"} => update'[k].am[Email].val = SecondaryOf[k]
  <1>1. HasKey(k, Written(update[k], table[k]))
    BY WrittenKeeps DEF TypeOK, KeepsKey
  <1>. QED
    BY <1>1 DEF WriteBack, NoUpdate, KeepsKey

\* A row keeps its key in a step that accepts no other one.
LEMMA KeyStays ==
  ASSUME TypeOK, [Next]_vars, NEW k \in Rows, KeepsKey(k), HasKey(k, latest'[k])
  PROVE  KeepsKey(k)'
  <1>1. ASSUME NEW u \in Users,
               \/ \E kind \in {"compute", "init"}, j \in Rows : Call(u, kind, j)
               \/ Check(u) \/ FlushOneFails(u)
        PROVE  KeepsKey(k)'
    <2>1. UNCHANGED <<table, cached, update>> /\ \A t \in Users : pc'[t] = "callback" =>
             pc[t] = "callback" /\ key'[t] = key[t] /\ seen'[t] = seen[t]
      BY <1>1, ReturnTypes DEF Call, Check, AfterCheck, FlushOneFails, TypeOK
    <2>. QED
      BY <2>1 DEF KeepsKey
  <1>2. ASSUME NEW u \in Users, FlushOne(u)
        PROVE  KeepsKey(k)'
    <2>1. /\ \A t \in Users : pc'[t] = "callback" => pc[t] = "callback"
          /\ UNCHANGED <<cached, key, seen>>
          /\ {key[u]} \in SUBSET Rows /\ WriteBack({key[u]})
      BY <1>2 DEF FlushOne, TypeOK
    <2>. QED
      BY <2>1, WriteBackHasKey DEF KeepsKey
  <1>3. ASSUME NEW u \in Users, Load(u)
        PROVE  KeepsKey(k)'
    <2>1. /\ UNCHANGED <<table, cached, update, key>>
          /\ \A t \in Users \ {u} : pc'[t] = pc[t] /\ seen'[t] = seen[t]
          /\ seen'[u] \in {cached[key[u]], table[key[u]]}
      BY <1>3 DEF Load, TypeOK
    <2>. QED
      BY <2>1 DEF KeepsKey
  <1>4. ASSUME NEW u \in Users, pc[u] = "callback", Return(u), table' = table,
               k # key[u] => update'[k] = update[k] /\ cached'[k] = cached[k],
               k = key[u] =>
                 /\ cached'[k] \in {cached[k], seen[u], latest'[k], Absent}
                 /\ update'[k].kind \in {"insert", "update"} => update'[k].am[Email].val = SecondaryOf[k]
        PROVE  KeepsKey(k)'
    <2>1. /\ key' = key
          /\ \A t \in Users : pc'[t] = "callback" => pc[t] = "callback" /\ seen'[t] = seen[t]
      BY <1>4, ReturnTypes
    <2>. QED
      BY <1>4, <2>1 DEF KeepsKey, HasKey
  <1>5. ASSUME NEW u \in Users, Nop(u) \/ InitFound(u)
        PROVE  KeepsKey(k)'
    BY <1>4, <1>5 DEF Nop, InitFound, TypeOK, KeepsKey
  <1>6. ASSUME NEW u \in Users, Remove(u)
        PROVE  KeepsKey(k)'
    <2>1. OnDelete(update[key[u]]).kind \notin {"insert", "update"}
      BY DEF OnDelete, NoUpdate, Delete
    <2>. QED
      BY <1>4, <1>6, <2>1 DEF Remove, Accept, TypeOK
  <1>7. ASSUME NEW v \in Value
        PROVE  Insert(IntoActive(v)).am[Email].val = v[Email] /\ v # Absent
    BY SecondaryAssumption, RowsAssumption DEF Insert, IntoActive
  <1>8. ASSUME NEW u \in Users, NEW v \in Value, PutNew(u, v) \/ InitNew(u, v)
        PROVE  KeepsKey(k)'
    <2>1. /\ pc[u] = "callback" /\ Return(u) /\ table' = table
          /\ k # key[u] => update'[k] = update[k] /\ cached'[k] = cached[k]
          /\ k = key[u] => /\ latest'[k] = v /\ update'[k] = Insert(IntoActive(v))
                           /\ cached'[k] \in {cached[k], v}
      BY <1>8 DEF PutNew, InitNew, Accept, TypeOK
    <2>. QED
      BY <1>4, <1>7, <2>1 DEF HasKey
  <1>9. ASSUME NEW u \in Users, NEW v \in Value, PutChanged(u, v)
        PROVE  KeepsKey(k)'
    <2>. DEFINE n == OnChange(v, seen[u], update[k])
    <2>1. /\ pc[u] = "callback" /\ Return(u) /\ table' = table
          /\ seen[u] \in Value /\ update[k] \in Updates
          /\ k # key[u] => update'[k] = update[k] /\ cached'[k] = cached[k]
      BY <1>9 DEF PutChanged, Accept, TypeOK
    <2>2. CASE k = key[u] /\ update[k] = Delete
      <3>1. update'[k] = NoUpdate /\ cached'[k] = cached[k]
        BY <1>9, <2>2 DEF PutChanged, TypeOK
      <3>. QED
        BY <1>4, <2>1, <2>2, <3>1 DEF NoUpdate
    <2>3. CASE k = key[u] /\ update[k] # Delete
      <3>1. update'[k] = n /\ latest'[k] = v /\ cached'[k] \in {cached[k], v}
        BY <1>9, <2>3 DEF PutChanged, Accept, TypeOK
      <3>2. v[Email] = SecondaryOf[k]
        BY <1>7, <3>1 DEF HasKey
      <3>3. n.kind \in {"insert", "update"} => n.am[Email].val = SecondaryOf[k]
        BY <2>1, <2>3, <3>2, ChangeHasKey DEF KeepsKey
      <3>. QED
        BY <1>4, <2>1, <2>3, <3>1, <3>3
    <2>. QED
      BY <1>4, <2>1, <2>2, <2>3
  <1>10. ASSUME NEW u \in Users, NEW j \in Rows, NEW v \in Value, InsertRow(u, j, v)
         PROVE  KeepsKey(k)'
    <2>1. /\ UNCHANGED <<table, pc, key, seen>>
          /\ k # j => update'[k] = update[k] /\ cached'[k] = cached[k]
          /\ k = j => /\ latest'[k] = v /\ update'[k] = Insert(IntoActive(v))
                      /\ cached'[k] \in {cached[k], v}
      BY <1>10 DEF InsertRow, callVars, TypeOK
    <2>. QED
      BY <1>7, <2>1 DEF KeepsKey, HasKey
  <1>11. ASSUME NEW j \in Rows, Evict(j)
         PROVE  KeepsKey(k)'
    <2>1. UNCHANGED <<table, update, pc, key, seen>> /\ cached'[k] \in {cached[k], Absent}
      BY <1>11 DEF Evict, callVars, TypeOK
    <2>. QED
      BY <2>1 DEF KeepsKey, HasKey
  <1>12. ASSUME NEW ks \in SUBSET Rows, Flush(ks)
         PROVE  KeepsKey(k)'
    BY <1>12, WriteBackHasKey DEF Flush, callVars, KeepsKey
  <1>13. CASE UNCHANGED vars
    BY <1>13 DEF vars, callVars, KeepsKey
  <1>. QED
    BY <1>1, <1>2, <1>3, <1>5, <1>6, <1>8, <1>9, <1>10, <1>11, <1>12, <1>13 DEF Next, UserStep

-----------------------------------------------------------------------------
(* The secondary entries                                                   *)

\* Only a removal by a closure takes the last value of a row away.
LEMMA OnlyRemoved ==
  ASSUME TypeOK, [KeyedNext]_keyedVars, NEW k \in Rows, latest[k] # Absent, latest'[k] = Absent
  PROVE  \E u \in Users : KeyedRemove(u) /\ key[u] = k
  <1>1. \A v \in Value : v # Absent
    BY RowsAssumption
  <1>2. ASSUME NEW u \in Users, KeyedRemove(u)
        PROVE  key[u] = k
    BY <1>2 DEF KeyedRemove, Remove, Accept, TypeOK
  <1>3. ASSUME NEW u \in Users, NEW v \in Value,
               \/ KeyedPutNew(u, v) \/ KeyedPutChanged(u, v) \/ KeyedInitNew(u, v)
               \/ \E j \in Rows : UnknownInsert(u, j, v) \/ InsertByPrimary(u, j, v)
        PROVE  FALSE
    <2>1. latest'[k] \in {latest[k], v}
      BY <1>3 DEF KeyedPutNew, KeyedPutChanged, KeyedInitNew, PutNew, PutChanged, InitNew, Accept,
                  UnknownInsert, InsertByPrimary, InsertRow, TypeOK
    <2>. QED
      BY <1>1, <2>1
  <1>4. ASSUME NEW u \in Users,
               \/ KeyedFlushFails(u) \/ KeyedNop(u) \/ KeyedInitFound(u)
               \/ Proceed(u) \/ Link(u) \/ EnterUnknown(u)
        PROVE  latest' = latest
    BY <1>4 DEF KeyedFlushFails, FlushOneFails, KeyedNop, Nop, KeyedInitFound, InitFound,
                Proceed, Check, FlushOne, Load, Link, EnterUnknown, Enter, vars
  <1>5. ASSUME NEW u \in Users,
               \/ \E j \in Rows : EnterKnown(u, j) \/ UnknownPut(u, j)
               \/ \E result \in {"nothing", "error"} : UnknownNop(u, result)
               \/ \E kind \in Forms, s \in Vals : CallBySecondary(u, kind, s)
               \/ \E kind \in {"compute", "init"}, j \in Rows : CallByPrimary(u, kind, j)
        PROVE  latest' = latest
    BY <1>5 DEF EnterKnown, Enter, UnknownPut, Call, UnknownNop, CallBySecondary, CallByPrimary, vars
  <1>6. ASSUME \/ \E j \in Rows : Invalidate(j) \/ EvictPrimary(j)
               \/ \E s \in Vals : EvictSecondary(s)
               \/ \E ks \in SUBSET Rows : KeyedFlush(ks)
               \/ UNCHANGED keyedVars
        PROVE  latest' = latest
    BY <1>6 DEF Invalidate, EvictPrimary, EvictSecondary, Evict, KeyedFlush, Flush, keyedVars, vars
  <1>7. ASSUME NEW u \in Users, Starts(u)
        PROVE  FALSE
    BY <1>3, <1>5, <1>7 DEF Starts
  <1>8. ASSUME NEW u \in Users, InCall(u)
        PROVE  KeyedRemove(u)
    BY <1>3, <1>4, <1>5, <1>8 DEF InCall
  <1>. QED
    BY <1>2, <1>6, <1>7, <1>8 DEF KeyedNext

\* The call that removes a row that is not exposed was given its last value.
LEMMA RemoverKnows ==
  ASSUME RowsInv, NEW u \in Users, KeyedRemove(u), key[u] \notin exposed, latest[key[u]] # Absent
  PROVE  seen[u] # Absent
  BY DEF KeyedRemove, Remove, RowsInv, TypeOK, RowSound, ClosureKnows, Agrees

\* An entry that gets another value is dropped, or it is linked.
LEMMA EntryChanges ==
  ASSUME KeyedTypeOK, [KeyedNext]_keyedVars, NEW s \in Vals, alias'[s] \notin {alias[s], NoRow}
  PROVE  \E u \in Users : /\ Link(u) /\ s = skey[u] /\ alias'[s] = target[u]
                          /\ outcome[u] = "value" /\ target[u] # NoRow
  <1>1. ASSUME NEW v
        PROVE  Dropped(v)[s] \in {alias[s], NoRow}
    BY DEF Dropped, KeyedTypeOK
  <1>2. ASSUME NEW u \in Users, Starts(u)
        PROVE  alias' = alias
    BY <1>2 DEF Starts, CallBySecondary, CallByPrimary, InsertByPrimary
  <1>3. ASSUME NEW u \in Users, KeyedRemove(u)
        PROVE  FALSE
    BY <1>1, <1>3 DEF KeyedRemove
  <1>4. ASSUME NEW u \in Users, Link(u)
        PROVE  s = skey[u] /\ alias'[s] = target[u] /\ outcome[u] = "value" /\ target[u] # NoRow
    BY <1>4 DEF Link, Linked, KeyedTypeOK
  <1>5. ASSUME NEW u \in Users,
               \/ KeyedFlushFails(u) \/ KeyedNop(u) \/ KeyedInitFound(u)
               \/ Proceed(u) \/ EnterUnknown(u)
               \/ \E v \in Value : KeyedPutNew(u, v) \/ KeyedPutChanged(u, v) \/ KeyedInitNew(u, v)
               \/ \E j \in Rows : EnterKnown(u, j) \/ UnknownPut(u, j)
               \/ \E result \in {"nothing", "error"} : UnknownNop(u, result)
               \/ \E j \in Rows, v \in Value : UnknownInsert(u, j, v)
        PROVE  alias' = alias
    BY <1>5 DEF KeyedFlushFails, KeyedNop, KeyedInitFound, Proceed, EnterUnknown, Enter,
                KeyedPutNew, KeyedPutChanged, KeyedInitNew, EnterKnown, UnknownPut, UnknownNop,
                UnknownInsert
  <1>6. ASSUME NEW u \in Users, InCall(u)
        PROVE  Link(u)
    BY <1>3, <1>5, <1>6 DEF InCall
  <1>7. ASSUME \/ \E j \in Rows : Invalidate(j) \/ EvictPrimary(j)
               \/ \E r \in Vals : EvictSecondary(r)
               \/ \E ks \in SUBSET Rows : KeyedFlush(ks)
               \/ UNCHANGED keyedVars
        PROVE  FALSE
    BY <1>1, <1>7 DEF Invalidate, EvictPrimary, EvictSecondary, KeyedFlush, keyedVars, KeyedTypeOK
  <1>. QED
    BY <1>2, <1>4, <1>6, <1>7 DEF KeyedNext

\* A call's row has the key that the call was made by.
LEMMA TargetStays ==
  ASSUME KeyedInv, [KeyedNext]_keyedVars, \A k \in Rows \ strayed' : k \notin strayed /\ HasKey(k, latest'[k])
  PROVE  TargetHasKey'
  <1>. USE DEF KeyedInv
  <1>0. /\ TypeOK /\ TargetHasKey
        /\ \A t \in Users : /\ key[t] \in Rows /\ skey[t] \in Vals
                            /\ stage[t] = "primary" => pc[t] # "idle"
                            /\ target[t] \in Rows \cup {NoRow}
    BY DEF RowsInv, TypeOK, KeyedTypeOK
  <1>1. ASSUME UNCHANGED <<stage, skey, target>>,
               \A t \in Users : stage[t] = "primary" => key'[t] = key[t]
        PROVE  TargetHasKey'
    BY <1>0, <1>1 DEF TargetHasKey
  <1>2. ASSUME NEW u \in Users,
               \/ KeyedFlushFails(u) \/ KeyedNop(u) \/ KeyedRemove(u) \/ KeyedInitFound(u)
               \/ \E v \in Value : KeyedPutNew(u, v) \/ KeyedPutChanged(u, v) \/ KeyedInitNew(u, v)
        PROVE  TargetHasKey'
    <2>1. \E result : Ends(u, result)
      BY <1>2 DEF KeyedFlushFails, KeyedNop, KeyedRemove, KeyedInitFound, KeyedPutNew, KeyedPutChanged,
                  KeyedInitNew
    <2>2. /\ UNCHANGED <<skey, target>>
          /\ \A t \in Users : stage'[t] = stage[t] \/ (stage[t] = "primary" /\ stage'[t] = "link")
      BY <2>1 DEF Ends, KeyedTypeOK
    <2>3. Return(u)
      BY <1>2 DEF KeyedFlushFails, KeyedNop, KeyedRemove, KeyedInitFound, KeyedPutNew, KeyedPutChanged,
                  KeyedInitNew, FlushOneFails, Nop, Remove, InitFound, PutNew, PutChanged, InitNew
    <2>4. key' = key
      BY <2>3 DEF Return
    <2>. QED
      BY <1>0, <2>2, <2>4 DEF TargetHasKey
  <1>3. ASSUME NEW u \in Users, Proceed(u)
        PROVE  TargetHasKey'
    BY <1>1, <1>3 DEF Proceed, Check, FlushOne, Load, linkVars
  <1>4. ASSUME NEW u \in Users, Link(u)
        PROVE  TargetHasKey'
    <2>1. /\ stage'[u] = "none" /\ target'[u] = NoRow /\ UNCHANGED <<skey, key>>
          /\ \A t \in Users \ {u} : stage'[t] = stage[t] /\ target'[t] = target[t]
      BY <1>4 DEF Link, KeyedTypeOK, vars, callVars
    <2>. QED
      BY <1>0, <2>1 DEF TargetHasKey
  <1>5. ASSUME NEW u \in Users, NEW k \in Rows, EnterKnown(u, k)
        PROVE  TargetHasKey'
    <2>1. /\ stage'[u] = "primary" /\ target'[u] = k /\ key'[u] = k /\ skey' = skey
          /\ \A t \in Users \ {u} : stage'[t] = stage[t] /\ target'[t] = target[t] /\ key'[t] = key[t]
          /\ k \in LeadsTo(skey[u])
      BY <1>0, <1>5 DEF EnterKnown, Enter, Call, KeyedTypeOK, TypeOK
    <2>2. k \notin strayed => SecondaryOf[k] = skey[u]
      BY <1>0, <2>1 DEF LeadsTo, Stored, AliasHasKey, RowsKeepKeys, KeepsKey, HasKey
    <2>. QED
      BY <1>0, <2>1, <2>2 DEF TargetHasKey
  <1>6. ASSUME NEW u \in Users, NEW k \in Rows, UnknownPut(u, k)
        PROVE  TargetHasKey'
    <2>1. /\ stage[u] = "unknown" /\ stage'[u] = "primary" /\ UNCHANGED <<skey, target>>
          /\ \A t \in Users \ {u} : stage'[t] = stage[t] /\ key'[t] = key[t]
      BY <1>0, <1>6 DEF UnknownPut, Call, KeyedTypeOK, TypeOK
    <2>. QED
      BY <1>0, <2>1 DEF TargetHasKey
  <1>7. ASSUME NEW u \in Users, NEW kind \in {"compute", "init"}, NEW s \in Vals, CallBySecondary(u, kind, s)
        PROVE  TargetHasKey'
    <2>1. /\ stage[u] = "none" /\ stage'[u] = "waiting" /\ UNCHANGED <<target, key>>
          /\ \A t \in Users \ {u} : stage'[t] = stage[t] /\ skey'[t] = skey[t]
      BY <1>7 DEF CallBySecondary, vars, callVars, KeyedTypeOK
    <2>. QED
      BY <1>0, <2>1 DEF TargetHasKey
  <1>8. ASSUME NEW u \in Users, EnterUnknown(u) \/ \E result \in {"nothing", "error"} : UnknownNop(u, result)
        PROVE  TargetHasKey'
    <2>1. /\ UNCHANGED <<skey, key>> /\ target'[u] = NoRow /\ stage'[u] # "primary"
          /\ \A t \in Users \ {u} : stage'[t] = stage[t] /\ target'[t] = target[t]
      <3>1. CASE EnterUnknown(u)
        BY <3>1 DEF EnterUnknown, Enter, vars, callVars, KeyedTypeOK
      <3>2. CASE \E result \in {"nothing", "error"} : UnknownNop(u, result)
        BY <1>0, <3>2 DEF UnknownNop, vars, callVars, KeyedTypeOK, TargetHasKey
      <3>. QED
        BY <1>8, <3>1, <3>2
    <2>. QED
      BY <1>0, <2>1 DEF TargetHasKey
  <1>9. ASSUME NEW u \in Users, NEW k \in Rows, NEW v \in Value, UnknownInsert(u, k, v)
        PROVE  TargetHasKey'
    <2>1. /\ stage'[u] = "link" /\ target'[u] = k /\ UNCHANGED <<skey, key>>
          /\ \A t \in Users \ {u} : stage'[t] = stage[t] /\ target'[t] = target[t]
          /\ v[Email] = skey[u] /\ latest'[k] = v /\ v # Absent
      BY <1>0, <1>9, RowsAssumption DEF UnknownInsert, InsertRow, callVars, Fitting, KeyedTypeOK, TypeOK
    <2>2. k \notin strayed' => SecondaryOf[k] = skey[u]
      BY <2>1 DEF HasKey
    <2>3. k \in Rows /\ k # NoRow
      BY SecondaryAssumption
    <2>. QED
      BY <1>0, <2>1, <2>2, <2>3 DEF TargetHasKey
  <1>10. ASSUME NEW u \in Users, NEW kind \in {"compute", "init"}, NEW k \in Rows, CallByPrimary(u, kind, k)
         PROVE  TargetHasKey'
    <2>1. /\ stage[u] = "none" /\ \A t \in Users \ {u} : key'[t] = key[t]
          /\ UNCHANGED <<stage, skey, target>>
      BY <1>0, <1>10 DEF CallByPrimary, Call, linkVars, TypeOK
    <2>. QED
      BY <1>1, <2>1
  <1>11. ASSUME NEW u \in Users, NEW k \in Rows, NEW v \in Value, InsertByPrimary(u, k, v)
         PROVE  TargetHasKey'
    BY <1>1, <1>11 DEF InsertByPrimary, InsertRow, callVars, linkVars
  <1>12. ASSUME \/ \E k \in Rows : Invalidate(k) \/ EvictPrimary(k)
                \/ \E s \in Vals : EvictSecondary(s)
                \/ \E ks \in SUBSET Rows : KeyedFlush(ks)
                \/ UNCHANGED keyedVars
         PROVE  TargetHasKey'
    <2>1. UNCHANGED <<stage, skey, target, key>>
      BY <1>12 DEF Invalidate, EvictPrimary, EvictSecondary, Evict, KeyedFlush, Flush, keyedVars, vars,
                   callVars, linkVars
    <2>. QED
      BY <1>1, <2>1
  <1>13. ASSUME NEW u \in Users, Starts(u)
         PROVE  TargetHasKey'
    <2>1. \A kind \in Forms : kind \in {"compute", "init"}
      BY SecondaryAssumption
    <2>. QED
      BY <1>7, <1>10, <1>11, <1>13, <2>1 DEF Starts
  <1>14. ASSUME NEW u \in Users, InCall(u)
         PROVE  TargetHasKey'
    BY <1>2, <1>3, <1>4, <1>5, <1>6, <1>8, <1>9, <1>14 DEF InCall
  <1>. QED
    BY <1>12, <1>13, <1>14 DEF KeyedNext

\* What a call is about to link is there when its call on the row ends.
LEMMA EndsWithRow ==
  ASSUME KeyedInv, NEW u \in Users, NEW k \in Rows, k \notin exposed, k = key[u],
         \/ KeyedNop(u) \/ KeyedInitFound(u)
         \/ \E v \in Value : KeyedPutNew(u, v) \/ KeyedPutChanged(u, v) \/ KeyedInitNew(u, v),
         stage[u] = "primary", outcome'[u] = "value"
  PROVE  latest'[k] # Absent
  <1>. USE DEF KeyedInv
  <1>0. TypeOK /\ outcome \in [Users -> Outcomes] /\ \A v \in Value : v # Absent
    BY RowsAssumption DEF RowsInv, KeyedTypeOK
  <1>1. CASE KeyedNop(u) \/ KeyedInitFound(u)
    <2>1. pc[u] = "callback" /\ seen[u] # Absent /\ latest' = latest
      <3>1. CASE KeyedNop(u)
        <4>1. outcome'[u] = IF seen[u] = Absent THEN "nothing" ELSE "value"
          BY <1>0, <3>1 DEF KeyedNop, Ends
        <4>. QED
          BY <3>1, <4>1 DEF KeyedNop, Nop
      <3>2. CASE KeyedInitFound(u)
        BY <3>2 DEF KeyedInitFound, InitFound
      <3>. QED
        BY <1>1, <3>1, <3>2
    <2>2. RowSound(k)
      BY DEF RowsInv
    <2>. QED
      BY <2>1, <2>2 DEF RowSound, ClosureKnows, Agrees
  <1>2. ASSUME NEW v \in Value, KeyedPutNew(u, v) \/ KeyedInitNew(u, v)
        PROVE  latest'[k] # Absent
    BY <1>0, <1>2 DEF KeyedPutNew, KeyedInitNew, PutNew, InitNew, Accept, TypeOK
  <1>3. ASSUME NEW v \in Value, KeyedPutChanged(u, v)
        PROVE  latest'[k] # Absent
    <2>1. outcome'[u] = ChangeResult(u, v)
      BY <1>0, <1>3 DEF KeyedPutChanged, Ends
    <2>2. update[k] # Delete
      BY <2>1 DEF ChangeResult
    <2>. QED
      BY <1>0, <1>3, <2>2 DEF KeyedPutChanged, PutChanged, Accept, TypeOK
  <1>. QED
    BY <1>1, <1>2, <1>3

\* A call that will link a row has been about to, or it comes from the row.
LEMMA LinkBegins ==
  ASSUME KeyedInv, [KeyedNext]_keyedVars, NEW t \in Users, stage'[t] = "link", outcome'[t] = "value",
         target'[t] \notin {NoRow} \cup exposed
  PROVE  \/ stage[t] = "link" /\ outcome[t] = "value" /\ target'[t] = target[t]
         \/ latest'[target'[t]] # Absent
  <1>. USE DEF KeyedInv
  <1>0. TypeOK /\ KeyedTypeOK
    BY DEF RowsInv
  <1>1. CASE UNCHANGED <<stage, outcome, target>>
    BY <1>1
  <1>2. ASSUME NEW u \in Users,
               \/ KeyedFlushFails(u) \/ KeyedNop(u) \/ KeyedRemove(u) \/ KeyedInitFound(u)
               \/ \E v \in Value : KeyedPutNew(u, v) \/ KeyedPutChanged(u, v) \/ KeyedInitNew(u, v)
        PROVE  \/ stage[t] = "link" /\ outcome[t] = "value" /\ target'[t] = target[t]
               \/ latest'[target'[t]] # Absent
    <2>1. PICK result : Ends(u, result)
      BY <1>2 DEF KeyedFlushFails, KeyedNop, KeyedRemove, KeyedInitFound, KeyedPutNew, KeyedPutChanged,
                  KeyedInitNew
    <2>2. target' = target
      BY <2>1 DEF Ends
    <2>3. CASE stage[t] = "link"
      <3>1. outcome'[t] = outcome[t]
        BY <1>0, <2>1, <2>3 DEF Ends, KeyedTypeOK
      <3>. QED
        BY <2>2, <2>3, <3>1
    <2>4. CASE stage[t] # "link"
      <3>1. t = u /\ stage[u] = "primary"
        BY <1>0, <2>1, <2>4 DEF Ends, KeyedTypeOK
      <3>2. target[u] \in Rows /\ key[u] = target[u]
        BY <1>0, <2>2, <3>1 DEF TargetHasKey, KeyedTypeOK
      <3>3. ~KeyedFlushFails(u) /\ ~KeyedRemove(u)
        <4>1. ASSUME NEW r, Ends(u, r)
              PROVE  r = "value"
          BY <1>0, <3>1, <4>1 DEF Ends, KeyedTypeOK
        <4>2. CASE KeyedFlushFails(u)
          <5>1. Ends(u, "error")
            BY <4>2 DEF KeyedFlushFails
          <5>. QED
            BY <4>1, <5>1
        <4>3. CASE KeyedRemove(u)
          <5>1. Ends(u, "removed") \/ Ends(u, "nothing")
            BY <4>3 DEF KeyedRemove
          <5>. QED
            BY <4>1, <5>1
        <4>. QED
          BY <4>2, <4>3
      <3>. QED
        BY <1>2, <2>2, <3>1, <3>2, <3>3, EndsWithRow
    <2>. QED
      BY <2>3, <2>4
  <1>3. ASSUME NEW u \in Users, NEW k \in Rows, NEW v \in Value, UnknownInsert(u, k, v)
        PROVE  \/ stage[t] = "link" /\ outcome[t] = "value" /\ target'[t] = target[t]
               \/ latest'[target'[t]] # Absent
    <2>1. /\ target'[u] = k /\ latest'[k] = v /\ v # Absent
          /\ \A q \in Users \ {u} :
                stage'[q] = stage[q] /\ target'[q] = target[q] /\ outcome'[q] = outcome[q]
      BY <1>0, <1>3, RowsAssumption DEF UnknownInsert, InsertRow, KeyedTypeOK, TypeOK
    <2>. QED
      BY <2>1
  <1>4. ASSUME NEW u \in Users, \E result \in {"nothing", "error"} : UnknownNop(u, result)
        PROVE  stage[t] = "link" /\ outcome[t] = "value" /\ target'[t] = target[t]
    BY <1>0, <1>4 DEF UnknownNop, KeyedTypeOK
  <1>5. ASSUME NEW u \in Users,
               \/ Link(u) \/ EnterUnknown(u)
               \/ \E k \in Rows : EnterKnown(u, k) \/ UnknownPut(u, k)
               \/ \E kind \in Forms, s \in Vals : CallBySecondary(u, kind, s)
        PROVE  stage[t] = "link" /\ outcome[t] = "value" /\ target'[t] = target[t]
    BY <1>0, <1>5 DEF Link, EnterUnknown, EnterKnown, Enter, UnknownPut, CallBySecondary, KeyedTypeOK
  <1>6. ASSUME NEW u \in Users,
               \/ Proceed(u)
               \/ \E kind \in {"compute", "init"}, k \in Rows : CallByPrimary(u, kind, k)
               \/ \E k \in Rows, v \in Value : InsertByPrimary(u, k, v)
        PROVE  UNCHANGED <<stage, outcome, target>>
    BY <1>6 DEF Proceed, CallByPrimary, InsertByPrimary, linkVars
  <1>7. ASSUME \/ \E k \in Rows : Invalidate(k) \/ EvictPrimary(k)
               \/ \E s \in Vals : EvictSecondary(s)
               \/ \E ks \in SUBSET Rows : KeyedFlush(ks)
               \/ UNCHANGED keyedVars
        PROVE  UNCHANGED <<stage, outcome, target>>
    BY <1>7 DEF Invalidate, EvictPrimary, EvictSecondary, KeyedFlush, keyedVars, linkVars
  <1>8. ASSUME NEW u \in Users, Starts(u)
        PROVE  \/ stage[t] = "link" /\ outcome[t] = "value" /\ target'[t] = target[t]
               \/ latest'[target'[t]] # Absent
    BY <1>1, <1>5, <1>6, <1>8 DEF Starts
  <1>9. ASSUME NEW u \in Users, InCall(u)
        PROVE  \/ stage[t] = "link" /\ outcome[t] = "value" /\ target'[t] = target[t]
               \/ latest'[target'[t]] # Absent
    BY <1>1, <1>2, <1>3, <1>4, <1>5, <1>6, <1>9 DEF InCall
  <1>. QED
    BY <1>1, <1>7, <1>8, <1>9 DEF KeyedNext

-----------------------------------------------------------------------------
(* The invariant                                                           *)

LEMMA KeyedInitHolds == KeyedInit => KeyedInv
  <1>. SUFFICES ASSUME KeyedInit PROVE KeyedInv
    OBVIOUS
  <1>1. RowsInv /\ Init
    BY InitRowsInv DEF KeyedInit
  <1>2. KeyedTypeOK
    BY <1>1 DEF KeyedInit, KeyedTypeOK, Stages, Outcomes, Init
  <1>3. RowsKeepKeys
    BY <1>1 DEF KeyedInit, RowsKeepKeys, KeepsKey, HasKey, Init, NoUpdate
  <1>4. AliasHasKey /\ TargetHasKey /\ LinkIsLive /\ AliasIsLive
    BY DEF KeyedInit, AliasHasKey, TargetHasKey, LinkIsLive, AliasIsLive
  <1>. QED
    BY <1>1, <1>2, <1>3, <1>4 DEF KeyedInv

\* Every step keeps the invariant.
LEMMA KeyedInvStep ==
  ASSUME KeyedInv, [KeyedNext]_keyedVars
  PROVE  KeyedInv'
  <1>. USE DEF KeyedInv
  <1>1. /\ TypeOK /\ RowsInv' /\ KeyedTypeOK' /\ [Next]_vars
        /\ \A k \in Rows : k \in exposed => k \in exposed'
    <2>1. TypeOK /\ [Next]_vars
      BY RowsUnderKeys DEF RowsInv
    <2>2. RowsInv' /\ KeyedTypeOK'
      BY <2>1, RowsInvStep, KeyedTypeStep
    <2>3. Recorded \/ UNCHANGED vars
      BY <2>1 DEF Next, UserStep, Call, Check, FlushOne, FlushOneFails, Load, Nop, PutNew, PutChanged,
                  Remove, InitNew, InitFound, InsertRow, Evict, Flush
    <2>4. \A k \in Rows : k \in exposed => k \in exposed'
      BY <2>3 DEF Recorded, vars
    <2>. QED
      BY <2>1, <2>2, <2>4
  <1>2. \A k \in Rows \ strayed' : k \notin strayed /\ ~LinkCut(k) /\ HasKey(k, latest'[k])
    BY HasNotStrayed
  <1>3. RowsKeepKeys'
    BY <1>1, <1>2, KeyStays DEF RowsKeepKeys
  <1>4. TargetHasKey'
    BY <1>2, TargetStays
  <1>5. AliasHasKey'
    <2>. SUFFICES ASSUME NEW s \in Vals, alias'[s] \notin {NoRow} \cup strayed'
                  PROVE  SecondaryOf[alias'[s]] = s
      BY DEF AliasHasKey
    <2>1. alias'[s] \in Rows /\ alias'[s] \notin strayed
      BY <1>1, <1>2 DEF KeyedTypeOK
    <2>2. CASE alias'[s] = alias[s]
      BY <2>1, <2>2 DEF AliasHasKey
    <2>3. CASE alias'[s] # alias[s]
      BY <2>1, <2>3, EntryChanges DEF TargetHasKey
    <2>. QED
      BY <2>2, <2>3
  <1>6. LinkIsLive'
    <2>. SUFFICES ASSUME NEW t \in Users, stage'[t] = "link", outcome'[t] = "value",
                         target'[t] \notin {NoRow} \cup exposed' \cup strayed',
                         latest'[target'[t]] = Absent
                  PROVE  FALSE
      BY DEF LinkIsLive
    <2>. DEFINE k == target'[t]
    <2>1. k \in Rows /\ k \notin exposed /\ k \notin strayed
      BY <1>1, <1>2 DEF KeyedTypeOK
    <2>2. stage[t] = "link" /\ outcome[t] = "value" /\ target[t] = k
      BY <2>1, LinkBegins
    <2>3. latest[k] # Absent
      BY <2>1, <2>2 DEF LinkIsLive
    <2>4. LinkCut(k)
      BY <2>2, <2>3 DEF LinkCut
    <2>. QED
      BY <1>2, <2>1, <2>4
  <1>7. AliasIsLive'
    <2>. SUFFICES ASSUME NEW s \in Vals, alias'[s] \notin {NoRow} \cup exposed' \cup strayed'
                  PROVE  latest'[alias'[s]] # Absent /\ latest'[alias'[s]][Email] = s
      BY DEF AliasIsLive
    <2>. DEFINE k == alias'[s]
    <2>1. k \in Rows /\ k \notin exposed /\ k \notin strayed /\ HasKey(k, latest'[k])
      BY <1>1, <1>2 DEF KeyedTypeOK
    <2>2. SecondaryOf[k] = s
      BY <1>5 DEF AliasHasKey
    <2>3. latest[k] # Absent
      <3>1. CASE alias[s] = k
        BY <2>1, <3>1 DEF AliasIsLive
      <3>2. CASE alias[s] # k
        BY <2>1, <3>2, EntryChanges DEF LinkIsLive, Link
      <3>. QED
        BY <3>1, <3>2
    <2>4. latest'[k] # Absent
      <3>. SUFFICES ASSUME latest'[k] = Absent PROVE FALSE
        OBVIOUS
      <3>1. PICK u \in Users : KeyedRemove(u) /\ key[u] = k
        BY <1>1, <2>1, <2>3, OnlyRemoved
      <3>2. seen[u] # Absent /\ pc[u] = "callback"
        BY <2>1, <2>3, <3>1, RemoverKnows DEF KeyedRemove, Remove
      <3>3. seen[u][Email] = s
        BY <2>1, <2>2, <3>1, <3>2 DEF RowsKeepKeys, KeepsKey, HasKey
      <3>4. alias'[s] = NoRow
        BY <3>1, <3>2, <3>3 DEF KeyedRemove, Dropped, KeyedTypeOK
      <3>. QED
        BY <3>4
    <2>. QED
      BY <2>1, <2>2, <2>4 DEF HasKey
  <1>. QED
    BY <1>1, <1>3, <1>4, <1>5, <1>6, <1>7

\* The inductive invariant of the calls by secondary keys.
THEOREM KeyedInvariant == KeyedSpec => []KeyedInv
  <1>1. KeyedInit => KeyedInv
    BY KeyedInitHolds
  <1>2. KeyedInv /\ [KeyedNext]_keyedVars => KeyedInv'
    BY KeyedInvStep
  <1>. QED
    BY <1>1, <1>2, PTL DEF KeyedSpec

\* A secondary entry refers to a row that is there and has this key: the removal of a row,
\* and the invalidation of its primary key, leave none behind, unless the row is exposed, has
\* been renamed, or has been removed while another call was about to link it.
THEOREM AliasesAreLive == KeyedSpec => []AliasIsLive
  <1>1. KeyedInv => AliasIsLive
    BY DEF KeyedInv
  <1>. QED
    BY KeyedInvariant, <1>1, PTL

=============================================================================
