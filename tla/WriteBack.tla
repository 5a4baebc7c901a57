----------------------------- MODULE WriteBack ------------------------------
(***************************************************************************)
(* wbdc_write_back of DCCommon, statement by statement: one transaction    *)
(* that takes the items of an update iterator in any order, sends updates  *)
(* when it meets them, inserts and deletes in batches, and confirms what   *)
(* it has written when the transaction has committed.                      *)
(*                                                                         *)
(* A row is its value in a unique column of the table, as the email of a   *)
(* customer is. Users go on modifying the rows whose record the iterator   *)
(* has not locked, and other flushes write such rows.                      *)
(***************************************************************************)
EXTENDS FiniteSets, Naturals

CONSTANTS
  Rows,    \* primary keys
  Vals,    \* values of the unique column
  Limit,   \* the size of a batch, 1000 in the code
  Absent,  \* no row
  NoItem   \* the iterator is exhausted

ASSUME WriteBackAssumption ==
  /\ Limit \in Nat \ {0}
  /\ Absent \notin Vals
  /\ NoItem \notin Rows

VARIABLES
  table,    \* the rows of the backend, as other connections see them
  update,   \* the pending update of each row
  pc,       \* where write_back is
  todo,     \* the keys the iterator has not visited
  item,     \* the item of this round
  inserts, deletes,  \* the items of the next batches
  worked,   \* the items that were dropped: their guards are back in the iterator
  tx        \* the rows as the transaction sees them

flushVars == <<pc, todo, item, inserts, deletes, worked, tx>>
vars == <<table, update, flushVars>>

Row == Vals \cup {Absent}

NoUpdate == [kind |-> "none"]
Delete == [kind |-> "delete"]
Insert(v) == [kind |-> "insert", val |-> v]
Update(v) == [kind |-> "update", val |-> v]
Updates == {NoUpdate, Delete} \cup [kind : {"insert", "update"}, val : Vals]

TypeOK ==
  /\ table \in [Rows -> Row]
  /\ update \in [Rows -> Updates]
  /\ pc \in {"idle", "next", "inserts", "deletes", "item", "commit", "refused"}
  /\ todo \in SUBSET Rows
  /\ item \in Rows \cup {NoItem}
  /\ inserts \in SUBSET Rows
  /\ deletes \in SUBSET Rows
  /\ worked \in SUBSET Rows
  /\ tx \in [Rows -> Row]

\* What an update makes of the row it is applied to.
Written == [upd \in Updates |-> [row \in Row |->
  IF upd = NoUpdate THEN row ELSE IF upd = Delete THEN Absent ELSE upd.val]]

\* The value a user sees in the cache: the last one that was accepted.
Latest(k) == Written[update[k]][table[k]]

\* The constraints of the table.
Distinct(rows) ==
  \A j, k \in Rows : j # k /\ rows[j] = rows[k] => rows[j] = Absent

\* A row is inserted once, and updated only when it is there.
Acceptable(upd, row) ==
  /\ upd.kind = "insert" => row = Absent
  /\ upd.kind = "update" => row # Absent

Init ==
  /\ table \in [Rows -> Row]
  /\ Distinct(table)
  /\ update = [k \in Rows |-> NoUpdate]
  /\ pc = "idle"
  /\ todo = {}
  /\ item = NoItem
  /\ inserts = {}
  /\ deletes = {}
  /\ worked = {}
  /\ tx = table

-----------------------------------------------------------------------------
(* The others                                                              *)

\* The iterator has the guard of the row's record.
Locked(k) == k \in inserts \cup deletes \cup worked \cup {item}

\* wbdc_on_new, wbdc_on_change and wbdc_on_delete as the updates they leave. A slip: the
\* kind of the pending update is not kept.
ChangedAs(upd, v) == Update(v)
Changed(upd, v) == IF upd.kind = "insert" THEN Insert(v) ELSE Update(v)
Deleted(upd) == IF upd.kind = "insert" THEN NoUpdate ELSE Delete

\* The users see to it that the values they give to their rows are unique.
Modify(k) ==
  /\ ~Locked(k)
  /\ \/ /\ Latest(k) # Absent
        /\ update' = [update EXCEPT ![k] = Deleted(@)]
     \/ \E v \in Vals :
          /\ \A j \in Rows \ {k} : Latest(j) # v
          /\ \/ /\ table[k] = Absent /\ Latest(k) = Absent
                /\ update' = [update EXCEPT ![k] = Insert(v)]
             \/ /\ Latest(k) # Absent
                /\ update' = [update EXCEPT ![k] = Changed(@, v)]
  /\ UNCHANGED <<table, flushVars>>

\* Another flush writes the row.
WrittenElsewhere(k) ==
  /\ ~Locked(k)
  /\ table' = [table EXCEPT ![k] = Latest(k)]
  /\ tx' = [tx EXCEPT ![k] = Latest(k)]
  /\ Distinct(table') /\ Distinct(tx')
  /\ update' = [update EXCEPT ![k] = NoUpdate]
  /\ UNCHANGED <<pc, todo, item, inserts, deletes, worked>>

-----------------------------------------------------------------------------
(* write_back                                                              *)

Begin(ks) ==
  /\ pc = "idle"
  /\ pc' = "next"
  /\ todo' = ks
  /\ tx' = table
  /\ UNCHANGED <<table, update, item, inserts, deletes, worked>>

\* UpdateIterator::next passes over an empty record, and over one that is locked elsewhere.
Skip(k) ==
  /\ pc = "next"
  /\ k \in todo
  /\ todo' = todo \ {k}
  /\ UNCHANGED <<table, update, pc, item, inserts, deletes, worked, tx>>

NextItem ==
  /\ pc = "next"
  /\ \/ \E k \in todo :
          /\ update[k] # NoUpdate
          /\ item' = k
          /\ todo' = todo \ {k}
     \/ todo = {} /\ item' = NoItem /\ UNCHANGED todo
  /\ pc' = "inserts"
  /\ UNCHANGED <<table, update, inserts, deletes, worked, tx>>

LastLoop == item = NoItem

\* Slips: nothing is sent in the last round; a batch is sent one item late.
DueWhenFull(batch) == Cardinality(batch) >= Limit
DueLate(batch) == (LastLoop /\ batch # {}) \/ Cardinality(batch) > Limit

Due(batch) == (LastLoop /\ batch # {}) \/ Cardinality(batch) >= Limit

\* A slip: a batch is applied to the rows as they were before the transaction.
SentAlone(batch) == [k \in Rows |-> IF k \in batch THEN Written[update[k]][table[k]] ELSE table[k]]

\* The rows after the updates of a batch are sent.
Sent(batch) == [k \in Rows |-> IF k \in batch THEN Written[update[k]][tx[k]] ELSE tx[k]]

Refused(batch) ==
  \/ ~Distinct(Sent(batch))
  \/ \E k \in batch : ~Acceptable(update[k], tx[k])

\* Sending a batch, with what clearing it does; the error of the backend is the caller's.
Send(batch, then) ==
  IF Refused(batch)
    THEN pc' = "refused" /\ UNCHANGED <<worked, tx>>
    ELSE pc' = then /\ tx' = Sent(batch) /\ worked' = worked \cup batch

SendInserts ==
  /\ pc = "inserts"
  /\ IF Due(inserts)
       THEN Send(inserts, "deletes") /\ inserts' = IF Refused(inserts) THEN inserts ELSE {}
       ELSE pc' = "deletes" /\ UNCHANGED <<inserts, worked, tx>>
  /\ UNCHANGED <<table, update, todo, item, deletes>>

AfterBatches == IF LastLoop THEN "commit" ELSE "item"

SendDeletes ==
  /\ pc = "deletes"
  /\ IF Due(deletes)
       THEN Send(deletes, AfterBatches) /\ deletes' = IF Refused(deletes) THEN deletes ELSE {}
       ELSE pc' = AfterBatches /\ UNCHANGED <<deletes, worked, tx>>
  /\ UNCHANGED <<table, update, todo, item, inserts>>

\* The item is kept for a batch ...
KeepItem ==
  /\ pc = "item"
  /\ \/ /\ update[item].kind = "insert"
        /\ inserts' = inserts \cup {item}
        /\ UNCHANGED deletes
     \/ /\ update[item] = Delete
        /\ deletes' = deletes \cup {item}
        /\ UNCHANGED inserts
  /\ pc' = "next"
  /\ item' = NoItem
  /\ UNCHANGED <<table, update, todo, worked, tx>>

\* ... or sent by itself and dropped.
SendUpdate ==
  /\ pc = "item"
  /\ update[item].kind = "update"
  /\ Send({item}, "next")
  /\ item' = IF Refused({item}) THEN item ELSE NoItem
  /\ UNCHANGED <<table, update, todo, inserts, deletes>>

\* The iterator and the items are dropped, and every guard is released.
EndFlush ==
  /\ pc' = "idle"
  /\ todo' = {}
  /\ item' = NoItem
  /\ inserts' = {}
  /\ deletes' = {}
  /\ worked' = {}

\* transaction.commit and confirm_all, which empties the guards the iterator has.
Commit ==
  /\ pc = "commit"
  /\ table' = tx
  /\ update' = [k \in Rows |-> IF k \in worked THEN NoUpdate ELSE update[k]]
  /\ EndFlush
  /\ UNCHANGED tx

\* A slip: what was sent before the error stays in the table.
KeepsSent == table' = tx

RollsBack == UNCHANGED table

\* Any error, of the backend or of the connection to it: the transaction rolls back when it
\* is dropped, and nothing is confirmed.
Fail ==
  /\ pc # "idle"
  /\ RollsBack
  /\ EndFlush
  /\ UNCHANGED <<update, tx>>

WriteBackStep ==
  \/ \E k \in Rows : Skip(k)
  \/ NextItem
  \/ SendInserts \/ SendDeletes
  \/ KeepItem \/ SendUpdate
  \/ Commit
  \/ Fail

Next ==
  \/ \E k \in Rows : Modify(k) \/ WrittenElsewhere(k)
  \/ \E ks \in SUBSET Rows : Begin(ks)
  \/ WriteBackStep

Spec == Init /\ [][Next]_vars

-----------------------------------------------------------------------------
(* Safety                                                                  *)

\* The comment of write_back: the transaction rolls back as a whole, and an update is not
\* confirmed before it is committed. The updates of some rows reach the table at once.
Atomic == INSTANCE AtomicFlush

WrittenAtOnce == Atomic!Spec

\* What the iterator has handed out is written when write_back commits, the last batches
\* included, and no batch is larger than the backend takes.
AllItemsAreSent ==
  /\ pc = "commit" => inserts = {} /\ deletes = {}
  /\ Cardinality(inserts) <= Limit /\ Cardinality(deletes) <= Limit

\* A row that still has in the table a value that was meanwhile given to another row.
Traded ==
  \E j, k \in Rows : j # k /\ table[j] # Absent /\ Latest(k) = table[j]

\* The users' values are unique and their updates fit the table, and still a flush may be
\* refused, as updates are sent when they are met, and inserts before deletes; but only
\* when a value goes from one row to another.
RefusedOnlyWhenTraded == [][pc # "refused" /\ pc' = "refused" => Traded]_vars

-----------------------------------------------------------------------------
(* The inductive invariant                                                 *)

\* An item is in one place, and is what its place is for.
ItemsAreInOrder ==
  /\ inserts \cap (deletes \cup worked) = {}
  /\ deletes \cap worked = {}
  /\ (todo \cup {item}) \cap (inserts \cup deletes \cup worked) = {}
  /\ item \notin todo
  /\ \A k \in inserts : update[k].kind = "insert"
  /\ \A k \in deletes : update[k] = Delete
  /\ item # NoItem => pc \in {"inserts", "deletes", "item", "refused"} /\ update[item] # NoUpdate
  /\ pc = "item" => item # NoItem
  /\ pc = "idle" => todo \cup inserts \cup deletes \cup worked = {}

\* A batch is below its limit when an item is added to it.
BatchesFit ==
  /\ IsFiniteSet(inserts) /\ IsFiniteSet(deletes)
  /\ Cardinality(inserts) <= Limit /\ Cardinality(deletes) <= Limit
  /\ pc \in {"deletes", "item", "commit"} => Cardinality(inserts) < Limit
  /\ pc \in {"item", "commit"} => Cardinality(deletes) < Limit
  /\ pc = "commit" \/ (pc = "deletes" /\ LastLoop) => inserts = {}
  /\ pc = "commit" => deletes = {}

\* The transaction sees what was sent, and for the rest what the table has.
TxIsWorked ==
  pc # "idle" => \A k \in Rows : tx[k] = IF k \in worked THEN Latest(k) ELSE table[k]

WriteBackInv ==
  /\ TypeOK
  /\ ItemsAreInOrder
  /\ BatchesFit
  /\ TxIsWorked
  /\ Distinct(table) /\ Distinct(tx)

\* The values of the users are unique, so are the rows of the table, and an update fits
\* what the table has.
UpdatesFit ==
  /\ Distinct([k \in Rows |-> Latest(k)])
  /\ \A k \in Rows : Acceptable(update[k], table[k])

=============================================================================
