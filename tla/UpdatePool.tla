----------------------------- MODULE UpdatePool -----------------------------
(***************************************************************************)
(* The updates pool of the cache controller and the three protocols that   *)
(* run on it concurrently:                                                 *)
(*                                                                         *)
(*   compute    get_update_state_and_compute: find or create the record of *)
(*              a key, lock it, ask the data controller, put it back;      *)
(*   flush_many snapshot the keys, try-lock the records one by one, write  *)
(*              them back in one transaction, confirm, purify the pool;    *)
(*   flush_one  wait for the lock of one record, then as flush_many.       *)
(*                                                                         *)
(* A task is one thread of calls into the cache: a user of it, or the      *)
(* background monitor. A record (UpdateState) is an object with identity:  *)
(* the pool, the tasks and the flush iterators hold references to it, and  *)
(* the code compares reference counts. Its content (Option<CacheUpdate>)   *)
(* is the set of the user's writes it carries; {} is None.                 *)
(***************************************************************************)
EXTENDS FiniteSets

CONSTANTS
  Keys,          \* keys of the cache, primary and secondary
  PrimaryOf,     \* [Keys -> Keys]: the primary key of the record a key names
  States,        \* identities of UpdateState objects
  Writes,        \* identities of the user's modifications, each used once
  Users,         \* tasks that compute on keys
  Flushers,      \* tasks that flush the pool
  OpKinds,       \* the kinds of data controller calls made in this instance
  FlushKinds,    \* which flushes are made: flush_raw, flush_many_raw, flush_one
  DcMayFail,     \* the kinds of data controller calls that may return an error
  Immutable,     \* the data controller answers a delete of an unflushed insert with Drop
  WriteMayFail,  \* write_back and the observers may return an error
  Observed,      \* an observer walks the update iterator before it is written back
  ItemConfirm,   \* write_back may confirm the items one by one
  NoState, Nobody, NoJob

Tasks == Users \cup Flushers

Kinds == {"new", "init", "change", "delete", "access"}

PrimaryKeys == {k \in Keys : PrimaryOf[k] = k}

ASSUME KeysAssumption ==
  /\ PrimaryOf \in [Keys -> Keys]
  /\ \A k \in Keys : PrimaryOf[PrimaryOf[k]] = PrimaryOf[k]

ASSUME OptionsAssumption ==
  /\ OpKinds \subseteq Kinds
  /\ DcMayFail \subseteq Kinds
  /\ FlushKinds \subseteq {"raw", "many", "one"}
  /\ {Immutable, WriteMayFail, Observed, ItemConfirm} \subseteq BOOLEAN

Job == [kind : Kinds, key : Keys, writes : SUBSET Writes]

ASSUME NullsAssumption ==
  /\ NoState \notin States
  /\ Nobody \notin Tasks
  /\ NoJob \notin Job

VARIABLES
  pool,      \* the `updates` hash map
  data,      \* the Option<CacheUpdate> of a record
  holder,    \* the task that has a record's write lock
  pc,        \* where each task is
  job,       \* the data controller call a task is making
  ref,       \* the Arc<UpdateState> a task has cloned
  prev,      \* the update taken out of the guard while on_change/on_access runs
  listed,    \* the keys an update iterator was built with
  todo,      \* those it has not visited yet
  held,      \* the guards it owns: its item and its `worked` list
  origin,    \* the kind of call each write came from; "unused" before
  live,      \* per primary key, the accepted writes no later one supersedes
  durable,   \* the writes the backend has
  forsaken,  \* those that were in the hands of an on_change or on_access call that failed
  dropped,   \* the rows that were once deleted unwritten, with the answer Drop
  panicked   \* the keys a purification did not find in the pool

callVars == <<job, prev>>
iterVars == <<listed, todo, held>>
historyVars == <<origin, live, durable, forsaken, dropped, panicked>>
vars == <<pool, data, holder, pc, callVars, ref, iterVars, historyVars>>

Guard == Keys \X States

\* Where a call of get_update_state_and_compute can be, and where a flush can be.
Calling == {"locking", "dc", "reinsert", "reinsertdrop", "drop"}

PcValues == {"idle"} \cup Calling \cup {"flushlock", "observing", "writing", "purify"}

\* Every variable holds a value of its declared kind, and a task that works on a record
\* has one: `contains_key` and `updates.get(key)` were answered before.
TypeOK ==
  /\ pool \in [Keys -> States \cup {NoState}]
  /\ data \in [States -> SUBSET Writes]
  /\ holder \in [States -> Tasks \cup {Nobody}]
  /\ pc \in [Tasks -> PcValues]
  /\ job \in [Tasks -> Job \cup {NoJob}]
  /\ ref \in [Tasks -> States \cup {NoState}]
  /\ prev \in [Tasks -> SUBSET Writes]
  /\ listed \in [Tasks -> SUBSET Keys]
  /\ todo \in [Tasks -> SUBSET Keys]
  /\ held \in [Tasks -> SUBSET Guard]
  /\ origin \in [Writes -> Kinds \cup {"unused"}]
  /\ live \in [Keys -> SUBSET Writes]
  /\ durable \cup forsaken \subseteq Writes
  /\ dropped \cup panicked \subseteq Keys
  /\ \A t \in Tasks : pc[t] \in Calling => job[t] # NoJob /\ ref[t] # NoState
  /\ \A t \in Tasks : pc[t] = "flushlock" => ref[t] # NoState

Init ==
  /\ pool = [k \in Keys |-> NoState]
  /\ data = [s \in States |-> {}]
  /\ holder = [s \in States |-> Nobody]
  /\ pc = [t \in Tasks |-> "idle"]
  /\ job = [t \in Tasks |-> NoJob]
  /\ ref = [t \in Tasks |-> NoState]
  /\ prev = [t \in Tasks |-> {}]
  /\ listed = [t \in Tasks |-> {}]
  /\ todo = [t \in Tasks |-> {}]
  /\ held = [t \in Tasks |-> {}]
  /\ origin = [w \in Writes |-> "unused"]
  /\ live = [k \in Keys |-> {}]
  /\ durable = {} /\ forsaken = {}
  /\ dropped = {} /\ panicked = {}

-----------------------------------------------------------------------------
(* Helpers                                                                 *)

Unused == {w \in Writes : origin[w] = "unused"}

Pooled == {k \in Keys : pool[k] # NoState}

\* The CacheUpdates discriminant of a record: it stays Insert while changes merge into it.
IsInsert(ws) == \E w \in ws : origin[w] \in {"new", "init"}

\* Calls made inside moka's and_try_compute_with on one key run one at a time, and so do
\* calls made inside or_try_insert_with, beside the others; on_access runs inside neither.
SameLane(kd1, kd2) ==
  /\ "access" \notin {kd1, kd2}
  /\ kd1 = "init" <=> kd2 = "init"

LaneFree(kd, k) ==
  \A t \in Tasks : job[t] # NoJob /\ job[t].key = k => ~SameLane(kd, job[t].kind)

\* A record nobody has a reference to: the identity of a newly built one.
Fresh(s) ==
  /\ \A k \in Keys : pool[k] # s
  /\ \A t \in Tasks : ref[t] # s
  /\ holder[s] = Nobody

\* A slip: other keys of the pool are counted, the tasks' references are not.
SharedInPool(k) == \E k2 \in Keys \ {k} : pool[k2] = pool[k]

\* Arc::strong_count of the pool's record of k is more than 1.
Shared(k) ==
  \/ \E k2 \in Keys \ {k} : pool[k2] = pool[k]
  \/ \E t \in Tasks : ref[t] = pool[k]

Keyed(gs) == {g[1] : g \in gs}

Guarded(gs) == {g[2] : g \in gs}

\* Contents of the records of a set of guards.
Contents(gs) == UNION {data[s] : s \in Guarded(gs)}

\* A slip: write_back never confirms.
EmptiedNone(gs) == data

Emptied(gs) == [s \in States |-> IF s \in Guarded(gs) THEN {} ELSE data[s]]

\* Dropping the guards of gs releases the locks they stand for.
Released(gs) == [s \in States |-> IF s \in Guarded(gs) THEN Nobody ELSE holder[s]]

-----------------------------------------------------------------------------
(* compute: get_update_state_and_compute and UpdateState::on_*             *)

\* What the caches's operations may ask: only on_access is made on a secondary key.
Request(t, kd, k, ws) ==
  /\ pc[t] = "idle"
  /\ LaneFree(kd, k)
  /\ IF kd = "access"
       THEN ws = {}
       ELSE k \in PrimaryKeys /\ \E w \in Unused : ws = {w}
  /\ job' = [job EXCEPT ![t] = [kind |-> kd, key |-> k, writes |-> ws]]
  /\ origin' = [w \in Writes |-> IF w \in ws THEN kd ELSE origin[w]]
  /\ pc' = [pc EXCEPT ![t] = "locking"]

\* The record is looked up under the primary key of the value ...
FetchUpdateState(t, kd, k, ws) ==
  /\ Request(t, kd, k, ws)
  /\ pool[PrimaryOf[k]] # NoState
  /\ ref' = [ref EXCEPT ![t] = pool[PrimaryOf[k]]]
  /\ UNCHANGED <<pool, data, holder, prev, iterVars, live, durable, forsaken, dropped, panicked>>

\* ... but a missing one is created under the key of the call.
CreateUpdateState(t, kd, k, ws, s) ==
  /\ Request(t, kd, k, ws)
  /\ pool[PrimaryOf[k]] = NoState
  /\ Fresh(s)
  /\ pool' = [pool EXCEPT ![k] = s]
  /\ data' = [data EXCEPT ![s] = {}]
  /\ ref' = [ref EXCEPT ![t] = s]
  /\ UNCHANGED <<holder, prev, iterVars, live, durable, forsaken, dropped, panicked>>

\* on_change and on_access move the update out of the record before they await.
Takes(kd) == kd \in {"change", "access"}

LockUpdate(t) ==
  /\ pc[t] = "locking"
  /\ holder[ref[t]] = Nobody
  /\ holder' = [holder EXCEPT ![ref[t]] = t]
  /\ IF Takes(job[t].kind)
       THEN /\ prev' = [prev EXCEPT ![t] = data[ref[t]]]
            /\ data' = [data EXCEPT ![ref[t]] = {}]
       ELSE UNCHANGED <<prev, data>>
  /\ pc' = [pc EXCEPT ![t] = "dc"]
  /\ UNCHANGED <<pool, job, ref, iterVars, historyVars>>

\* A slip: the pending update is not merged.
ResponseForgets(t) == job[t].writes

\* The data controller's contract: a change merges with the pending update, access
\* returns it, a new value and a deletion replace it.
Response(t) == IF Takes(job[t].kind) THEN prev[t] \cup job[t].writes ELSE job[t].writes

\* Deleting a record whose insertion was not flushed: the response is Drop.
Collapses(t) == Immutable /\ job[t].kind = "delete" /\ IsInsert(data[ref[t]])

Accepted(t) ==
  CASE job[t].kind = "access" -> live[job[t].key]
    [] job[t].kind = "change" -> live[job[t].key] \cup job[t].writes
    [] OTHER -> IF Collapses(t) THEN {} ELSE job[t].writes

DcRespond(t) ==
  /\ pc[t] = "dc"
  /\ data' = [data EXCEPT ![ref[t]] = Response(t)]
  /\ prev' = [prev EXCEPT ![t] = {}]
  /\ holder' = [holder EXCEPT ![ref[t]] = Nobody]
  /\ live' = [live EXCEPT ![job[t].key] = Accepted(t)]
  /\ pc' = [pc EXCEPT ![t] = IF Collapses(t) THEN "reinsertdrop" ELSE "reinsert"]
  /\ dropped' = IF Collapses(t) THEN dropped \cup {job[t].key} ELSE dropped
  /\ UNCHANGED <<pool, job, ref, iterVars, origin, durable, forsaken, panicked>>

\* The error returns at once: neither the reinsertion nor _on_dc_op takes place, and
\* what on_change or on_access had taken out of the record is gone.
DcFail(t) ==
  /\ pc[t] = "dc"
  /\ job[t].kind \in DcMayFail
  /\ prev' = [prev EXCEPT ![t] = {}]
  /\ forsaken' = forsaken \cup prev[t]
  /\ holder' = [holder EXCEPT ![ref[t]] = Nobody]
  /\ pc' = [pc EXCEPT ![t] = "idle"]
  /\ job' = [job EXCEPT ![t] = NoJob]
  /\ ref' = [ref EXCEPT ![t] = NoState]
  /\ UNCHANGED <<pool, data, iterVars, origin, live, durable, dropped, panicked>>

\* The record is put back into the pool unconditionally, under the key of the call.
Reinsert(t) ==
  /\ pc[t] = "reinsert"
  /\ pool' = [pool EXCEPT ![job[t].key] = ref[t]]
  /\ pc' = [pc EXCEPT ![t] = "idle"]
  /\ job' = [job EXCEPT ![t] = NoJob]
  /\ ref' = [ref EXCEPT ![t] = NoState]
  /\ UNCHANGED <<data, holder, prev, iterVars, historyVars>>

ReinsertToDrop(t) ==
  /\ pc[t] = "reinsertdrop"
  /\ pool' = [pool EXCEPT ![job[t].key] = ref[t]]
  /\ pc' = [pc EXCEPT ![t] = "drop"]
  /\ UNCHANGED <<data, holder, callVars, ref, iterVars, historyVars>>

\* _on_dc_op of a Drop response removes whatever record the pool has for the key now.
DropUpdate(t) ==
  /\ pc[t] = "drop"
  /\ pool' = [pool EXCEPT ![job[t].key] = NoState]
  /\ pc' = [pc EXCEPT ![t] = "idle"]
  /\ job' = [job EXCEPT ![t] = NoJob]
  /\ ref' = [ref EXCEPT ![t] = NoState]
  /\ UNCHANGED <<data, holder, prev, iterVars, historyVars>>

-----------------------------------------------------------------------------
(* flush_raw, flush_many_raw, flush_one, _purify_updates and UpdateIterator *)

\* Every key the pool has for flush_raw, any list of keys for flush_many_raw.
BeginFlush(t, ks) ==
  /\ pc[t] = "idle"
  /\ \/ "raw" \in FlushKinds /\ ks = Pooled
     \/ "many" \in FlushKinds
  /\ pc' = [pc EXCEPT ![t] = IF Observed THEN "observing" ELSE "writing"]
  /\ listed' = [listed EXCEPT ![t] = ks]
  /\ todo' = [todo EXCEPT ![t] = ks]
  /\ UNCHANGED <<pool, data, holder, callVars, ref, held, historyVars>>

\* A slip: the lock is taken for granted.
CanTakeLocked(k) == pool[k] # NoState /\ data[pool[k]] # {}

\* UpdateIterator::next tries the lock of the record the pool has now; an absent, a
\* locked or an empty record is skipped. The item's guard goes to `worked` later.
CanTake(k) == pool[k] # NoState /\ holder[pool[k]] = Nobody /\ data[pool[k]] # {}

NextKey(t, k) ==
  /\ pc[t] \in {"observing", "writing"}
  /\ k \in todo[t]
  /\ todo' = [todo EXCEPT ![t] = @ \ {k}]
  /\ IF CanTake(k)
       THEN /\ held' = [held EXCEPT ![t] = @ \cup {<<k, pool[k]>>}]
            /\ holder' = [holder EXCEPT ![pool[k]] = t]
       ELSE UNCHANGED <<held, holder>>
  /\ UNCHANGED <<pool, data, pc, callVars, ref, listed, historyVars>>

\* The observers are done: UpdateIterator::reset, and write_back starts over.
ResetIterator(t) ==
  /\ pc[t] = "observing"
  /\ pc' = [pc EXCEPT ![t] = "writing"]
  /\ todo' = [todo EXCEPT ![t] = listed[t]]
  /\ held' = [held EXCEPT ![t] = {}]
  /\ holder' = Released(held[t])
  /\ UNCHANGED <<pool, data, callVars, ref, listed, historyVars>>

\* A slip: the record is not known to be there.
BeginFlushOneBlind(t, k) ==
  /\ "one" \in FlushKinds
  /\ pc[t] = "idle"
  /\ pc' = [pc EXCEPT ![t] = "flushlock"]
  /\ ref' = [ref EXCEPT ![t] = pool[k]]
  /\ listed' = [listed EXCEPT ![t] = {k}]
  /\ UNCHANGED <<pool, data, holder, callVars, todo, held, historyVars>>

BeginFlushOne(t, k) ==
  /\ "one" \in FlushKinds
  /\ pc[t] = "idle"
  /\ pool[k] # NoState
  /\ pc' = [pc EXCEPT ![t] = "flushlock"]
  /\ ref' = [ref EXCEPT ![t] = pool[k]]
  /\ listed' = [listed EXCEPT ![t] = {k}]
  /\ UNCHANGED <<pool, data, holder, callVars, todo, held, historyVars>>

\* flush_one waits for the lock, and keeps its own reference to the record to the end.
FlushOneLock(t) ==
  /\ pc[t] = "flushlock"
  /\ holder[ref[t]] = Nobody
  /\ IF data[ref[t]] = {}
       THEN /\ pc' = [pc EXCEPT ![t] = "idle"]
            /\ ref' = [ref EXCEPT ![t] = NoState]
            /\ listed' = [listed EXCEPT ![t] = {}]
            /\ UNCHANGED <<holder, held>>
       ELSE /\ pc' = [pc EXCEPT ![t] = "writing"]
            /\ holder' = [holder EXCEPT ![ref[t]] = t]
            /\ held' = [held EXCEPT ![t] = listed[t] \X {ref[t]}]
            /\ UNCHANGED <<ref, listed>>
  /\ UNCHANGED <<pool, data, callVars, todo, historyVars>>

\* An item written on its own: its guard is emptied and not returned to the iterator.
ConfirmItem(t, g) ==
  /\ ItemConfirm
  /\ pc[t] = "writing"
  /\ g \in held[t]
  /\ durable' = durable \cup data[g[2]]
  /\ data' = Emptied({g})
  /\ holder' = Released({g})
  /\ held' = [held EXCEPT ![t] = @ \ {g}]
  /\ UNCHANGED <<pool, pc, callVars, ref, listed, todo, origin, live, forsaken, dropped, panicked>>

\* The transaction of all the items commits and confirm_all empties their guards.
Commit(t) ==
  /\ pc[t] = "writing"
  /\ todo[t] = {}
  /\ durable' = durable \cup Contents(held[t])
  /\ data' = Emptied(held[t])
  /\ pc' = [pc EXCEPT ![t] = "purify"]
  /\ UNCHANGED <<pool, holder, callVars, ref, iterVars, origin, live, forsaken, dropped, panicked>>

\* write_back returns without confirm_all: what it did not confirm stays in the records.
LeaveUnconfirmed(t) ==
  /\ ItemConfirm
  /\ pc[t] = "writing"
  /\ todo[t] = {}
  /\ pc' = [pc EXCEPT ![t] = "purify"]
  /\ UNCHANGED <<pool, data, holder, callVars, ref, iterVars, historyVars>>

\* A slip: the locks outlive the iterator.
EndFlushLocked(t) ==
  /\ pc' = [pc EXCEPT ![t] = "idle"]
  /\ ref' = [ref EXCEPT ![t] = NoState]
  /\ listed' = [listed EXCEPT ![t] = {}]
  /\ todo' = [todo EXCEPT ![t] = {}]
  /\ held' = [held EXCEPT ![t] = {}]
  /\ UNCHANGED holder

\* The flush ends: the iterator is dropped, and flush_one's reference with it.
EndFlush(t) ==
  /\ pc' = [pc EXCEPT ![t] = "idle"]
  /\ ref' = [ref EXCEPT ![t] = NoState]
  /\ listed' = [listed EXCEPT ![t] = {}]
  /\ todo' = [todo EXCEPT ![t] = {}]
  /\ held' = [held EXCEPT ![t] = {}]
  /\ holder' = Released(held[t])

\* write_back or an observer fails; the transaction rolls back, the records keep their data.
FlushFails(t) ==
  /\ WriteMayFail
  /\ pc[t] \in {"observing", "writing"}
  /\ EndFlush(t)
  /\ UNCHANGED <<pool, data, callVars, historyVars>>

\* Slips: one of the two tests of _purify_updates is missing.
RemovableInUse(g) == data[g[2]] = {}
RemovableUnwritten(g) == ~Shared(g[1])

\* _purify_updates looks the keys of its guards up in the pool it finds: a record that is
\* in use somewhere else stays, and so does one whose guard is not empty.
Removable(g) == ~Shared(g[1]) /\ data[g[2]] = {}

Purify(t) ==
  /\ pc[t] = "purify"
  /\ Keyed(held[t]) \subseteq Pooled
  /\ pool' = [k \in Keys |-> IF \E g \in held[t] : g[1] = k /\ Removable(g) THEN NoState ELSE pool[k]]
  /\ EndFlush(t)
  /\ UNCHANGED <<data, callVars, historyVars>>

\* updates.get_mut(key).unwrap() of an absent key, with any of the others already removed.
PurifyPanics(t) ==
  /\ pc[t] = "purify"
  /\ \E k \in Keyed(held[t]) \ Pooled : panicked' = panicked \cup {k}
  /\ \E gs \in SUBSET {g \in held[t] : Removable(g)} :
       pool' = [k \in Keys |-> IF k \in Keyed(gs) THEN NoState ELSE pool[k]]
  /\ EndFlush(t)
  /\ UNCHANGED <<data, callVars, origin, live, durable, forsaken, dropped>>

-----------------------------------------------------------------------------
Compute(t) ==
  \/ \E kd \in OpKinds, k \in Keys, ws \in SUBSET Writes :
       \/ FetchUpdateState(t, kd, k, ws)
       \/ \E s \in States : CreateUpdateState(t, kd, k, ws, s)
  \/ LockUpdate(t)
  \/ DcRespond(t)
  \/ DcFail(t)
  \/ Reinsert(t)
  \/ ReinsertToDrop(t)
  \/ DropUpdate(t)

FlushStep(t) ==
  \/ \E k \in Keys : NextKey(t, k)
  \/ ResetIterator(t)
  \/ FlushOneLock(t)
  \/ \E g \in Guard : ConfirmItem(t, g)
  \/ Commit(t)
  \/ LeaveUnconfirmed(t)
  \/ FlushFails(t)
  \/ Purify(t)
  \/ PurifyPanics(t)

Flush(t) ==
  \/ \E ks \in SUBSET Keys : BeginFlush(t, ks)
  \/ \E k \in Keys : BeginFlushOne(t, k)
  \/ FlushStep(t)

Next ==
  \/ \E t \in Users : Compute(t)
  \/ \E t \in Flushers : Flush(t)

Spec == Init /\ [][Next]_vars

-----------------------------------------------------------------------------
(* Safety                                                                  *)

\* The updates of k that are on their way to the backend: in the pool's record, or in the
\* hands of the on_change or on_access call that has taken them out of it.
Pending(k) ==
  IF pool[k] = NoState
    THEN {}
    ELSE data[pool[k]] \cup UNION {prev[t] : t \in {u \in Users : ref[u] = pool[k]}}

\* An accepted write is in the backend or still on its way to it: no interleaving of
\* get_update_state_and_compute, the iterators and _purify_updates forgets one. There are two
\* ways to lose it, and no third: the row was once deleted with the answer Drop, or on_change
\* or on_access failed with the write in its hands.
NoLostUpdate ==
  \A k \in PrimaryKeys \ dropped : live[k] \subseteq durable \cup Pending(k) \cup forsaken

\* A confirmed update is gone from the pool, so no later flush submits it again
\* (UpdateIterator::confirm_all, UpdateIteratorItem::confirm).
WrittenOnce == \A k \in PrimaryKeys : Pending(k) \cap durable = {}

\* What an update iterator has locked is the record the pool has for that row: another
\* flush, a purification or a compute cannot have replaced it (UpdateIterator::next), unless
\* the row was dropped.
GuardsMatchPool ==
  \A t \in Flushers : \A g \in held[t] :
    /\ holder[g[2]] = t
    /\ PrimaryOf[g[1]] \notin dropped => pool[PrimaryOf[g[1]]] = g[2]

\* Two calls on one primary key work on one record, the one the pool has, whatever is
\* flushed meanwhile: the reference get_update_state_and_compute takes protects it. A row
\* that is not in use any more (Drop) is none of their concern.
WritersShareRecord ==
  \A t \in Users :
    job[t] # NoJob /\ job[t].key \in PrimaryKeys \ dropped => ref[t] = pool[job[t].key]

\* Why no calls wait for each other for ever: a task that has the lock of a record is at a
\* step that asks for no other (the iterators only try), and one that is done, whatever has
\* failed, has given it back (UpdateIteratorItem, UpdateIterator and the guards are dropped).
HoldersDoNotWait ==
  \A s \in States : holder[s] # Nobody => pc[holder[s]] \in {"dc", "observing", "writing", "purify"}

\* The unwrap of _purify_updates fails for no guard that was taken under a primary key,
\* whatever the other flushes and the calls do meanwhile, unless the row was once deleted with
\* the answer Drop: two purifications never remove the same record. (Under a secondary key it
\* may fail: the pool can have that key on an older record, or on none.)
NoPanic == panicked \cap (PrimaryKeys \ dropped) = {}

\* The pool lets go of the record of a row only when nothing is left in it to be written
\* and no call is about to put something there (_purify_updates, the unconditional insert),
\* or the row was deleted before it was ever written.
ReleasedWhenWritten ==
  [][\A k \in PrimaryKeys \ dropped :
       pool[k] # NoState /\ pool'[k] # pool[k] =>
         data[pool[k]] = {} /\ \A t \in Users : ref[t] # pool[k]]_vars

\* The pool, its records and its iterators implement the write-behind contract.
WB == INSTANCE WriteBehind WITH Rows <- PrimaryKeys, pending <- [k \in PrimaryKeys |-> Pending(k)]

Implements == WB!Spec

-----------------------------------------------------------------------------
(* Liveness                                                                *)

\* A call in progress is a future the runtime keeps polling; tokio's RwLock serves its
\* waiters in order; the background task begins a flush again and again.
Fairness ==
  /\ \A t \in Users :
       /\ SF_vars(LockUpdate(t))
       /\ WF_vars(DcRespond(t) \/ DcFail(t) \/ Reinsert(t) \/ ReinsertToDrop(t) \/ DropUpdate(t))
  /\ \A t \in Flushers :
       /\ SF_vars(FlushOneLock(t))
       /\ SF_vars(BeginFlush(t, Pooled))
       /\ WF_vars(FlushStep(t))

\* An outage of the backend ends.
Recovery == <>[][\A t \in Flushers : ~FlushFails(t)]_vars

LiveSpec == Spec /\ Fairness /\ Recovery

\* No call waits for ever: the record locks held across the awaits of write_back and of
\* the data controller are always given back, on the error paths too.
CallsReturn == \A t \in Tasks : pc[t] # "idle" ~> pc[t] = "idle"

\* An accepted write reaches the backend unless a later one supersedes it, or an on_change or
\* on_access call fails with it in its hands.
WritesReachBackend ==
  \A k \in PrimaryKeys, w \in Writes : w \in live[k] ~> w \in durable \cup forsaken \/ w \notin live[k]

=============================================================================
