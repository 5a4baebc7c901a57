--------------------------- MODULE WriteBack_proofs ---------------------------
(***************************************************************************)
(* wbdc_write_back is atomic, leaves no item behind, and is refused only   *)
(* when a unique value goes from one row to another: for any rows, values, *)
(* size of a batch and order of the items.                                 *)
(***************************************************************************)
EXTENDS WriteBack, FiniteSetTheorems, TLAPS

LEMMA WrittenRow ==
  ASSUME NEW upd \in Updates, NEW row \in Row
  PROVE  /\ Written[upd][row] \in Row
         /\ Written[NoUpdate][row] = row
         /\ upd.kind \in {"insert", "update"} => Written[upd][row] = upd.val /\ upd.val \in Vals
         /\ upd = Delete => Written[upd][row] = Absent
  BY DEF Written, Updates, Row, NoUpdate, Delete

LEMMA LatestRow ==
  ASSUME TypeOK, NEW k \in Rows
  PROVE  Latest(k) \in Row
  BY WrittenRow DEF TypeOK, Latest

\* A batch of one more item, and an empty one.
LEMMA OneMore ==
  ASSUME NEW S, NEW x, IsFiniteSet(S), Cardinality(S) < Limit
  PROVE  IsFiniteSet(S \cup {x}) /\ Cardinality(S \cup {x}) <= Limit
  <1>1. Cardinality(S) \in Nat
    BY FS_CardinalityType
  <1>2. /\ IsFiniteSet(S \cup {x})
        /\ Cardinality(S \cup {x}) = Cardinality(S) \/ Cardinality(S \cup {x}) = Cardinality(S) + 1
    BY FS_AddElement
  <1>. QED
    BY <1>1, <1>2, WriteBackAssumption

LEMMA EmptyBatch == IsFiniteSet({}) /\ Cardinality({}) < Limit /\ Cardinality({}) <= Limit
  BY FS_EmptySet, WriteBackAssumption

\* A batch that need not be sent is not full, and empty in the last round.
LEMMA NotDue ==
  ASSUME NEW batch, IsFiniteSet(batch), ~Due(batch)
  PROVE  Cardinality(batch) < Limit /\ (LastLoop => batch = {})
  BY FS_CardinalityType, WriteBackAssumption DEF Due

\* What is sent for a batch of items that were not sent before.
LEMMA SentRows ==
  ASSUME WriteBackInv, pc # "idle", NEW batch \in SUBSET Rows, batch \cap worked = {}
  PROVE  /\ Sent(batch) \in [Rows -> Row]
         /\ \A k \in Rows :
              Sent(batch)[k] = IF k \in worked \cup batch THEN Latest(k) ELSE table[k]
  <1>1. \A k \in Rows : Sent(batch)[k] = IF k \in worked \cup batch THEN Latest(k) ELSE table[k]
    BY DEF Sent, WriteBackInv, TxIsWorked, Latest
  <1>2. \A k \in Rows : Latest(k) \in Row /\ table[k] \in Row
    BY LatestRow DEF WriteBackInv, TypeOK
  <1>. QED
    BY <1>1, <1>2 DEF Sent

-----------------------------------------------------------------------------
(* The others                                                              *)

\* What the users make pending is an update of the row and says the row's new value.
LEMMA Modifications ==
  ASSUME TypeOK, UpdatesFit, NEW k \in Rows, Modify(k)
  PROVE  \E upd \in Updates :
           /\ update' = [update EXCEPT ![k] = upd]
           /\ Acceptable(upd, table[k])
           /\ \/ Written[upd][table[k]] = Absent
              \/ \A j \in Rows \ {k} : Latest(j) # Written[upd][table[k]]
  <1>1. update[k] \in Updates /\ table[k] \in Row /\ Acceptable(update[k], table[k])
    BY DEF TypeOK, UpdatesFit
  <1>2. CASE Latest(k) # Absent /\ update' = [update EXCEPT ![k] = Deleted(@)]
    <2>. DEFINE upd == Deleted(update[k])
    <2>1. upd \in Updates /\ Acceptable(upd, table[k]) /\ Written[upd][table[k]] = Absent
      BY <1>1, WrittenRow DEF Deleted, Updates, Acceptable, NoUpdate, Delete
    <2>. QED
      BY <1>2, <2>1
  <1>3. ASSUME NEW v \in Vals, \A j \in Rows \ {k} : Latest(j) # v,
               table[k] = Absent, update' = [update EXCEPT ![k] = Insert(v)]
        PROVE  \E upd \in Updates :
                 /\ update' = [update EXCEPT ![k] = upd]
                 /\ Acceptable(upd, table[k])
                 /\ \A j \in Rows \ {k} : Latest(j) # Written[upd][table[k]]
    <2>1. Insert(v) \in Updates /\ Acceptable(Insert(v), table[k]) /\ Written[Insert(v)][table[k]] = v
      BY <1>1, <1>3, WrittenRow DEF Insert, Updates, Acceptable
    <2>. QED
      BY <1>3, <2>1
  <1>4. ASSUME NEW v \in Vals, \A j \in Rows \ {k} : Latest(j) # v,
               Latest(k) # Absent, update' = [update EXCEPT ![k] = Changed(@, v)]
        PROVE  \E upd \in Updates :
                 /\ update' = [update EXCEPT ![k] = upd]
                 /\ Acceptable(upd, table[k])
                 /\ \A j \in Rows \ {k} : Latest(j) # Written[upd][table[k]]
    <2>. DEFINE upd == Changed(update[k], v)
    <2>1. update[k].kind = "insert" \/ table[k] # Absent
      BY <1>1, <1>4 DEF Latest, Written, Updates, NoUpdate, Delete, Acceptable
    <2>2. upd \in Updates /\ Acceptable(upd, table[k])
      BY <1>1, <2>1 DEF Changed, Insert, Update, Updates, Acceptable
    <2>3. upd.kind \in {"insert", "update"} /\ upd.val = v
      BY DEF Changed, Insert, Update
    <2>4. Written[upd][table[k]] = v
      BY <1>1, <2>2, <2>3, WrittenRow
    <2>. QED
      BY <1>4, <2>2, <2>4
  <1>. QED
    BY <1>2, <1>3, <1>4 DEF Modify

LEMMA ModifyKeeps ==
  ASSUME WriteBackInv, UpdatesFit, NEW k \in Rows, Modify(k)
  PROVE  WriteBackInv' /\ UpdatesFit'
  <1>. USE DEF WriteBackInv
  <1>1. PICK upd \in Updates :
          /\ update' = [update EXCEPT ![k] = upd]
          /\ Acceptable(upd, table[k])
          /\ \/ Written[upd][table[k]] = Absent
             \/ \A j \in Rows \ {k} : Latest(j) # Written[upd][table[k]]
    BY Modifications
  <1>2. ~Locked(k) /\ UNCHANGED <<table, flushVars>>
    BY DEF Modify
  <1>3. /\ update'[k] = upd /\ \A j \in Rows \ {k} : update'[j] = update[j]
        /\ Latest(k)' = Written[upd][table[k]] /\ \A j \in Rows \ {k} : Latest(j)' = Latest(j)
    BY <1>1, <1>2 DEF TypeOK, Latest
  <1>4. TypeOK'
    BY <1>1, <1>2 DEF TypeOK, flushVars
  <1>5. ItemsAreInOrder'
    BY <1>2, <1>3 DEF ItemsAreInOrder, flushVars, Locked, TypeOK, LastLoop
  <1>6. BatchesFit'
    BY <1>2 DEF BatchesFit, flushVars, LastLoop
  <1>7. TxIsWorked'
    BY <1>2, <1>3 DEF TxIsWorked, flushVars, Locked
  <1>8. Distinct(table)' /\ Distinct(tx)'
    BY <1>2 DEF Distinct, flushVars
  <1>9. \A i, j \in Rows : i # j /\ Latest(i)' = Latest(j)' => Latest(i)' = Absent
    BY <1>1, <1>3 DEF UpdatesFit, Distinct
  <1>10. UpdatesFit'
    BY <1>1, <1>2, <1>3, <1>9 DEF UpdatesFit, Distinct, Acceptable
  <1>. QED
    BY <1>4, <1>5, <1>6, <1>7, <1>8, <1>10

LEMMA WrittenElsewhereKeeps ==
  ASSUME WriteBackInv, UpdatesFit, NEW k \in Rows, WrittenElsewhere(k)
  PROVE  WriteBackInv' /\ UpdatesFit'
  <1>. USE DEF WriteBackInv
  <1>1. /\ ~Locked(k)
        /\ table' = [table EXCEPT ![k] = Latest(k)]
        /\ tx' = [tx EXCEPT ![k] = Latest(k)]
        /\ update' = [update EXCEPT ![k] = NoUpdate]
        /\ UNCHANGED <<pc, todo, item, inserts, deletes, worked>>
        /\ Distinct(table)' /\ Distinct(tx)'
    BY DEF WrittenElsewhere, Distinct
  <1>2. Latest(k) \in Row /\ NoUpdate \in Updates /\ NoUpdate.kind = "none"
    BY LatestRow DEF Updates, NoUpdate
  <1>3. /\ update'[k] = NoUpdate /\ table'[k] = Latest(k) /\ tx'[k] = Latest(k)
        /\ \A j \in Rows \ {k} : update'[j] = update[j] /\ table'[j] = table[j] /\ tx'[j] = tx[j]
    BY <1>1 DEF TypeOK
  <1>4. \A j \in Rows : Latest(j)' = Latest(j)
    BY <1>2, <1>3, WrittenRow DEF Latest
  <1>5. TypeOK'
    BY <1>1, <1>2 DEF TypeOK
  <1>6. ItemsAreInOrder'
    BY <1>1, <1>3 DEF ItemsAreInOrder, Locked, TypeOK
  <1>7. BatchesFit'
    BY <1>1 DEF BatchesFit, LastLoop
  <1>8. TxIsWorked'
    BY <1>1, <1>3, <1>4 DEF TxIsWorked, Locked
  <1>9. UpdatesFit'
    BY <1>2, <1>3, <1>4 DEF UpdatesFit, Distinct, Acceptable
  <1>. QED
    BY <1>1, <1>5, <1>6, <1>7, <1>8, <1>9

-----------------------------------------------------------------------------
(* write_back                                                              *)

LEMMA IteratingKeeps ==
  ASSUME WriteBackInv,
         (\E ks \in SUBSET Rows : Begin(ks)) \/ (\E k \in Rows : Skip(k)) \/ NextItem
  PROVE  WriteBackInv'
  <1>. USE DEF WriteBackInv
  <1>1. CASE \E ks \in SUBSET Rows : Begin(ks)
    <2>1. TypeOK' /\ ItemsAreInOrder'
      BY <1>1, WriteBackAssumption DEF Begin, TypeOK, ItemsAreInOrder
    <2>2. BatchesFit'
      BY <1>1 DEF Begin, BatchesFit
    <2>3. TxIsWorked'
      BY <1>1 DEF Begin, TxIsWorked, ItemsAreInOrder
    <2>4. Distinct(table)' /\ Distinct(tx)'
      BY <1>1 DEF Begin, Distinct
    <2>. QED
      BY <2>1, <2>2, <2>3, <2>4
  <1>2. CASE (\E k \in Rows : Skip(k)) \/ NextItem
    <2>1. TypeOK'
      BY <1>2 DEF Skip, NextItem, TypeOK
    <2>2. ItemsAreInOrder'
      BY <1>2, WriteBackAssumption DEF Skip, NextItem, TypeOK, ItemsAreInOrder
    <2>3. BatchesFit'
      BY <1>2 DEF Skip, NextItem, BatchesFit
    <2>4. TxIsWorked'
      BY <1>2 DEF Skip, NextItem, TxIsWorked, Latest
    <2>5. Distinct(table)' /\ Distinct(tx)'
      BY <1>2 DEF Skip, NextItem, Distinct
    <2>. QED
      BY <2>1, <2>2, <2>3, <2>4, <2>5
  <1>. QED
    BY <1>1, <1>2

\* A batch is sent whole, or nothing of it when it is refused.
LEMMA SendKeepsTx ==
  ASSUME WriteBackInv, pc # "idle", pc' # "idle", NEW batch \in SUBSET Rows, batch \cap worked = {},
         NEW then, then # "refused", Send(batch, then), UNCHANGED <<table, update>>
  PROVE  /\ tx' \in [Rows -> Row] /\ Distinct(tx)' /\ Distinct(table)' /\ TxIsWorked'
         /\ IF Refused(batch) THEN pc' = "refused" /\ worked' = worked
                              ELSE pc' = then /\ worked' = worked \cup batch
  <1>. USE DEF WriteBackInv
  <1>1. CASE Refused(batch)
    BY <1>1 DEF Send, TypeOK, Distinct, TxIsWorked, Latest
  <1>2. CASE ~Refused(batch)
    <2>1. tx' = Sent(batch) /\ worked' = worked \cup batch /\ pc' = then
      BY <1>2 DEF Send
    <2>2. Distinct(tx)' /\ Distinct(table)'
      BY <1>2, <2>1 DEF Refused, Distinct
    <2>3. tx' \in [Rows -> Row] /\ TxIsWorked'
      BY <2>1, SentRows DEF TxIsWorked, Latest
    <2>. QED
      BY <1>2, <2>1, <2>2, <2>3
  <1>. QED
    BY <1>1, <1>2

LEMMA SendInsertsKeeps ==
  ASSUME WriteBackInv, SendInserts
  PROVE  WriteBackInv'
  <1>. USE DEF WriteBackInv
  <1>1. pc = "inserts" /\ UNCHANGED <<table, update, todo, item, deletes>>
    BY DEF SendInserts
  <1>2. CASE ~Due(inserts)
    <2>1. pc' = "deletes" /\ UNCHANGED <<inserts, worked, tx>>
      BY <1>2 DEF SendInserts
    <2>2. Cardinality(inserts) < Limit /\ (LastLoop => inserts = {})
      BY <1>2, NotDue DEF BatchesFit
    <2>3. TypeOK' /\ ItemsAreInOrder'
      BY <1>1, <2>1 DEF TypeOK, ItemsAreInOrder
    <2>4. BatchesFit'
      BY <1>1, <2>1, <2>2 DEF BatchesFit, LastLoop
    <2>5. TxIsWorked' /\ Distinct(table)' /\ Distinct(tx)'
      BY <1>1, <2>1 DEF TxIsWorked, Distinct, Latest
    <2>. QED
      BY <2>3, <2>4, <2>5
  <1>3. CASE Due(inserts)
    <2>1. Send(inserts, "deletes") /\ inserts' = IF Refused(inserts) THEN inserts ELSE {}
      BY <1>3 DEF SendInserts
    <2>2. inserts \in SUBSET Rows /\ inserts \cap worked = {}
      BY DEF TypeOK, ItemsAreInOrder
    <2>3. pc' # "idle"
      BY <2>1 DEF Send
    <2>4. /\ tx' \in [Rows -> Row] /\ Distinct(tx)' /\ Distinct(table)' /\ TxIsWorked'
          /\ IF Refused(inserts) THEN pc' = "refused" /\ worked' = worked
                                 ELSE pc' = "deletes" /\ worked' = worked \cup inserts
      BY <1>1, <2>1, <2>2, <2>3, SendKeepsTx
    <2>5. TypeOK'
      BY <1>1, <2>1, <2>4 DEF TypeOK
    <2>6. ItemsAreInOrder'
      BY <1>1, <2>1, <2>4 DEF ItemsAreInOrder
    <2>7. BatchesFit'
      BY <1>1, <2>1, <2>4, EmptyBatch DEF BatchesFit
    <2>. QED
      BY <2>4, <2>5, <2>6, <2>7
  <1>. QED
    BY <1>2, <1>3

LEMMA SendDeletesKeeps ==
  ASSUME WriteBackInv, SendDeletes
  PROVE  WriteBackInv'
  <1>. USE DEF WriteBackInv
  <1>1. pc = "deletes" /\ UNCHANGED <<table, update, todo, item, inserts>>
    BY DEF SendDeletes
  <1>2. AfterBatches \in {"commit", "item"} /\ (AfterBatches = "commit" <=> LastLoop)
    BY DEF AfterBatches
  <1>3. CASE ~Due(deletes)
    <2>1. pc' = AfterBatches /\ UNCHANGED <<deletes, worked, tx>>
      BY <1>3 DEF SendDeletes
    <2>2. Cardinality(deletes) < Limit /\ (LastLoop => deletes = {})
      BY <1>3, NotDue DEF BatchesFit
    <2>3. TypeOK' /\ ItemsAreInOrder'
      BY <1>1, <1>2, <2>1 DEF TypeOK, ItemsAreInOrder, LastLoop
    <2>4. BatchesFit'
      BY <1>1, <1>2, <2>1, <2>2 DEF BatchesFit
    <2>5. TxIsWorked' /\ Distinct(table)' /\ Distinct(tx)'
      BY <1>1, <2>1 DEF TxIsWorked, Distinct, Latest
    <2>. QED
      BY <2>3, <2>4, <2>5
  <1>4. CASE Due(deletes)
    <2>1. Send(deletes, AfterBatches) /\ deletes' = IF Refused(deletes) THEN deletes ELSE {}
      BY <1>4 DEF SendDeletes
    <2>2. deletes \in SUBSET Rows /\ deletes \cap worked = {}
      BY DEF TypeOK, ItemsAreInOrder
    <2>3. pc' # "idle"
      BY <1>2, <2>1 DEF Send
    <2>4. /\ tx' \in [Rows -> Row] /\ Distinct(tx)' /\ Distinct(table)' /\ TxIsWorked'
          /\ IF Refused(deletes) THEN pc' = "refused" /\ worked' = worked
                                 ELSE pc' = AfterBatches /\ worked' = worked \cup deletes
      BY <1>1, <1>2, <2>1, <2>2, <2>3, SendKeepsTx
    <2>5. TypeOK'
      BY <1>1, <1>2, <2>1, <2>4 DEF TypeOK
    <2>6. ItemsAreInOrder'
      BY <1>1, <1>2, <2>1, <2>4 DEF ItemsAreInOrder, LastLoop
    <2>7. BatchesFit'
      BY <1>1, <1>2, <2>1, <2>4, EmptyBatch DEF BatchesFit
    <2>. QED
      BY <2>4, <2>5, <2>6, <2>7
  <1>. QED
    BY <1>3, <1>4

LEMMA KeepItemKeeps ==
  ASSUME WriteBackInv, KeepItem
  PROVE  WriteBackInv'
  <1>. USE DEF WriteBackInv
  <1>1. /\ pc = "item" /\ pc' = "next" /\ item' = NoItem
        /\ UNCHANGED <<table, update, todo, worked, tx>>
        /\ \/ update[item].kind = "insert" /\ inserts' = inserts \cup {item} /\ deletes' = deletes
           \/ update[item] = Delete /\ deletes' = deletes \cup {item} /\ inserts' = inserts
    BY DEF KeepItem
  <1>2. item \in Rows
    BY <1>1 DEF TypeOK, ItemsAreInOrder
  <1>3. TypeOK'
    BY <1>1, <1>2 DEF TypeOK
  <1>4. ItemsAreInOrder'
    BY <1>1, <1>2, <1>3, WriteBackAssumption DEF ItemsAreInOrder, TypeOK
  <1>5. BatchesFit'
    BY <1>1, OneMore DEF BatchesFit
  <1>6. TxIsWorked' /\ Distinct(table)' /\ Distinct(tx)'
    BY <1>1 DEF TxIsWorked, Distinct, Latest
  <1>. QED
    BY <1>3, <1>4, <1>5, <1>6

LEMMA SendUpdateKeeps ==
  ASSUME WriteBackInv, SendUpdate
  PROVE  WriteBackInv'
  <1>. USE DEF WriteBackInv
  <1>1. /\ pc = "item" /\ Send({item}, "next")
        /\ item' = IF Refused({item}) THEN item ELSE NoItem
        /\ UNCHANGED <<table, update, todo, inserts, deletes>>
    BY DEF SendUpdate
  <1>2. item \in Rows /\ {item} \in SUBSET Rows /\ {item} \cap worked = {}
    BY <1>1 DEF TypeOK, ItemsAreInOrder
  <1>3. pc' # "idle"
    BY <1>1 DEF Send
  <1>4. /\ tx' \in [Rows -> Row] /\ Distinct(tx)' /\ Distinct(table)' /\ TxIsWorked'
        /\ IF Refused({item}) THEN pc' = "refused" /\ worked' = worked
                              ELSE pc' = "next" /\ worked' = worked \cup {item}
    BY <1>1, <1>2, <1>3, SendKeepsTx
  <1>5. TypeOK'
    BY <1>1, <1>2, <1>4 DEF TypeOK
  <1>6. ItemsAreInOrder'
    BY <1>1, <1>2, <1>4, WriteBackAssumption DEF ItemsAreInOrder, TypeOK
  <1>7. BatchesFit'
    BY <1>1, <1>4 DEF BatchesFit
  <1>. QED
    BY <1>4, <1>5, <1>6, <1>7

LEMMA EndKeeps ==
  ASSUME WriteBackInv, Commit \/ Fail
  PROVE  WriteBackInv'
  <1>. USE DEF WriteBackInv
  <1>1. EndFlush /\ tx' = tx
    BY DEF Commit, Fail
  <1>2. table' \in {table, tx} /\ update' \in [Rows -> Updates]
    BY DEF Commit, Fail, RollsBack, TypeOK, Updates
  <1>3. TypeOK' /\ ItemsAreInOrder'
    BY <1>1, <1>2, WriteBackAssumption DEF TypeOK, ItemsAreInOrder, EndFlush
  <1>4. BatchesFit'
    BY <1>1, EmptyBatch DEF BatchesFit, EndFlush
  <1>5. TxIsWorked'
    BY <1>1 DEF TxIsWorked, EndFlush
  <1>6. Distinct(table)' /\ Distinct(tx)'
    BY <1>1, <1>2 DEF Distinct
  <1>. QED
    BY <1>3, <1>4, <1>5, <1>6

-----------------------------------------------------------------------------
\* What the items of the transaction become when it commits.
LEMMA CommittedRows ==
  ASSUME WriteBackInv, Commit
  PROVE  /\ table' = [k \in Rows |-> IF k \in worked THEN Latest(k) ELSE table[k]]
         /\ update' = [k \in Rows |-> IF k \in worked THEN NoUpdate ELSE update[k]]
         /\ worked \in SUBSET Rows
  BY DEF WriteBackInv, TypeOK, TxIsWorked, Commit

LEMMA FlushKeepsUpdatesFit ==
  ASSUME WriteBackInv, UpdatesFit, (\E ks \in SUBSET Rows : Begin(ks)) \/ WriteBackStep
  PROVE  UpdatesFit'
  <1>1. CASE Commit
    <2>1. \A k \in Rows : /\ table'[k] = IF k \in worked THEN Latest(k) ELSE table[k]
                          /\ update'[k] = IF k \in worked THEN NoUpdate ELSE update[k]
      BY <1>1, CommittedRows
    <2>2. \A k \in Rows : Latest(k) \in Row
      BY LatestRow DEF WriteBackInv
    <2>3. NoUpdate \in Updates /\ NoUpdate.kind = "none"
      BY DEF Updates, NoUpdate
    <2>4. \A k \in Rows : Latest(k)' = Latest(k)
      BY <2>1, <2>2, <2>3, WrittenRow DEF Latest
    <2>. QED
      BY <2>1, <2>3, <2>4 DEF UpdatesFit, Distinct, Acceptable
  <1>2. CASE UNCHANGED <<table, update>>
    BY <1>2 DEF UpdatesFit, Distinct, Acceptable, Latest
  <1>. QED
    BY <1>1, <1>2 DEF WriteBackStep, Begin, Skip, NextItem, SendInserts, SendDeletes, KeepItem,
                      SendUpdate, Fail, RollsBack

LEMMA WriteBackInvariants == Spec => [](WriteBackInv /\ UpdatesFit)
  <1>1. Init => WriteBackInv /\ UpdatesFit
    <2>. SUFFICES ASSUME Init
                  PROVE  WriteBackInv /\ UpdatesFit
      OBVIOUS
    <2>1. NoUpdate \in Updates /\ NoUpdate.kind = "none"
      BY DEF Updates, NoUpdate
    <2>2. TypeOK
      BY <2>1 DEF Init, TypeOK
    <2>3. \A k \in Rows : Latest(k) = table[k]
      BY <2>1, <2>2, WrittenRow DEF Init, Latest, TypeOK
    <2>4. ItemsAreInOrder /\ TxIsWorked
      BY WriteBackAssumption DEF Init, ItemsAreInOrder, TxIsWorked
    <2>5. BatchesFit
      BY EmptyBatch DEF Init, BatchesFit
    <2>6. UpdatesFit
      BY <2>1, <2>3 DEF Init, UpdatesFit, Distinct, Acceptable
    <2>. QED
      BY <2>2, <2>4, <2>5, <2>6 DEF WriteBackInv, Init
  <1>2. WriteBackInv /\ UpdatesFit /\ [Next]_vars => WriteBackInv' /\ UpdatesFit'
    <2>. SUFFICES ASSUME WriteBackInv, UpdatesFit, [Next]_vars
                  PROVE  WriteBackInv' /\ UpdatesFit'
      OBVIOUS
    <2>1. CASE UNCHANGED vars
      BY <2>1 DEF vars, flushVars, WriteBackInv, TypeOK, ItemsAreInOrder, BatchesFit, TxIsWorked,
                  Distinct, UpdatesFit, Acceptable, Latest, LastLoop
    <2>2. CASE WriteBackStep
      <3>1. WriteBackInv'
        BY <2>2, IteratingKeeps, SendInsertsKeeps, SendDeletesKeeps, KeepItemKeeps, SendUpdateKeeps,
           EndKeeps DEF WriteBackStep
      <3>. QED
        BY <2>2, <3>1, FlushKeepsUpdatesFit
    <2>3. CASE \E ks \in SUBSET Rows : Begin(ks)
      BY <2>3, IteratingKeeps, FlushKeepsUpdatesFit
    <2>. QED
      BY <2>1, <2>2, <2>3, ModifyKeeps, WrittenElsewhereKeeps DEF Next
  <1>. QED
    BY <1>1, <1>2, PTL DEF Spec

\* The items, the batches and the rows the transaction sees are in order in every state.
THEOREM WriteBackInvariant == Spec => []WriteBackInv
  BY WriteBackInvariants, PTL

\* The updates keep fitting the table while the users modify their rows during a flush.
THEOREM UpdatesKeepFitting == Spec => []UpdatesFit
  BY WriteBackInvariants, PTL

\* The last round sends what is left of both batches, and no batch exceeds its limit.
THEOREM ItemsAreSent == Spec => []AllItemsAreSent
  <1>1. WriteBackInv => AllItemsAreSent
    BY DEF WriteBackInv, BatchesFit, AllItemsAreSent
  <1>. QED
    BY <1>1, WriteBackInvariant, PTL

\* Whatever the items, their order and the errors, write_back changes the table at once, by
\* the updates of some rows, and those are the updates it confirms.
THEOREM WriteBackIsAtomic == Spec => WrittenAtOnce
  <1>1. WriteBackInv /\ UpdatesFit /\ [Next]_vars => [Atomic!Next]_Atomic!vars
    <2>. SUFFICES ASSUME WriteBackInv, UpdatesFit, [Next]_vars
                  PROVE  [Atomic!Next]_Atomic!vars
      OBVIOUS
    <2>1. ASSUME NEW k \in Rows, Modify(k)
          PROVE  Atomic!Modify(k)
      <3>1. \E upd \in Updates : update' = [update EXCEPT ![k] = upd]
        BY <2>1, Modifications DEF WriteBackInv
      <3>. QED
        BY <2>1, <3>1 DEF Atomic!Modify, Modify
    <2>2. ASSUME NEW k \in Rows, WrittenElsewhere(k)
          PROVE  Atomic!WriteOut({k})
      BY <2>2 DEF WrittenElsewhere, Atomic!WriteOut, WriteBackInv, TypeOK, Latest
    <2>3. CASE Commit
      <3>1. Atomic!WriteOut(worked) /\ worked \in SUBSET Rows
        BY <2>3, CommittedRows DEF Atomic!WriteOut, Latest
      <3>. QED
        BY <3>1 DEF Atomic!Next
    <2>4. CASE UNCHANGED <<table, update>>
      BY <2>4 DEF Atomic!vars
    <2>5. ASSUME NEW k \in Rows, WrittenElsewhere(k)
          PROVE  Atomic!Next
      BY <2>2, <2>5 DEF Atomic!Next
    <2>. QED
      BY <2>1, <2>3, <2>4, <2>5
      DEF Next, WriteBackStep, Begin, Skip, NextItem, SendInserts, SendDeletes, KeepItem,
          SendUpdate, Fail, RollsBack, vars, Atomic!Next
  <1>. QED
    BY <1>1, WriteBackInvariants, PTL DEF Spec, WrittenAtOnce, Atomic!Spec

\* A batch is refused only where a value goes from one row to another.
LEMMA RefusedBatch ==
  ASSUME WriteBackInv, UpdatesFit, pc # "idle", NEW batch \in SUBSET Rows, batch \cap worked = {},
         Refused(batch)
  PROVE  Traded
  <1>. USE DEF WriteBackInv
  <1>1. \A k \in Rows :
          Sent(batch)[k] = IF k \in worked \cup batch THEN Latest(k) ELSE table[k]
    BY SentRows
  <1>2. \A k \in batch : Acceptable(update[k], tx[k])
    BY DEF TxIsWorked, UpdatesFit
  <1>3. PICK j, k \in Rows : j # k /\ Sent(batch)[j] = Sent(batch)[k] /\ Sent(batch)[j] # Absent
    BY <1>2 DEF Refused, Distinct
  <1>4. CASE j \in worked \cup batch /\ k \in worked \cup batch
    BY <1>1, <1>3, <1>4 DEF UpdatesFit, Distinct
  <1>5. CASE j \notin worked \cup batch /\ k \notin worked \cup batch
    BY <1>1, <1>3, <1>5 DEF Distinct
  <1>6. CASE j \in worked \cup batch /\ k \notin worked \cup batch
    BY <1>1, <1>3, <1>6 DEF Traded
  <1>7. CASE j \notin worked \cup batch /\ k \in worked \cup batch
    BY <1>1, <1>3, <1>7 DEF Traded
  <1>. QED
    BY <1>4, <1>5, <1>6, <1>7

\* The order in which updates are met and batches are sent matters to the backend only when
\* a flush has a row give up a unique value that another one takes.
THEOREM RefusalsAreTrades == Spec => RefusedOnlyWhenTraded
  <1>1. WriteBackInv /\ UpdatesFit /\ [Next]_vars => [pc # "refused" /\ pc' = "refused" => Traded]_vars
    <2>. SUFFICES ASSUME WriteBackInv, UpdatesFit, Next, pc # "refused", pc' = "refused"
                  PROVE  Traded
      OBVIOUS
    <2>. USE DEF WriteBackInv
    <2>1. CASE SendInserts
      BY <2>1, RefusedBatch DEF SendInserts, Send, TypeOK, ItemsAreInOrder
    <2>2. CASE SendDeletes
      BY <2>2, RefusedBatch DEF SendDeletes, Send, AfterBatches, TypeOK, ItemsAreInOrder
    <2>3. CASE SendUpdate
      <3>1. item \in Rows /\ {item} \cap worked = {}
        BY <2>3 DEF SendUpdate, TypeOK, ItemsAreInOrder
      <3>. QED
        BY <2>3, <3>1, RefusedBatch DEF SendUpdate, Send
    <2>4. CASE \E k \in Rows : Modify(k) \/ WrittenElsewhere(k) \/ Skip(k)
      BY <2>4 DEF Modify, WrittenElsewhere, Skip, flushVars
    <2>. QED
      BY <2>1, <2>2, <2>3, <2>4
      DEF Next, WriteBackStep, Begin, NextItem, KeepItem, Commit, Fail, EndFlush
  <1>. QED
    BY <1>1, WriteBackInvariants, PTL DEF Spec, RefusedOnlyWhenTraded

=============================================================================
