# wb-cache in TLA+

A verification project for `wb-cache`, a write-behind cache controller in Rust:
specifications translated from the source under `src/`, TLC configurations that
check them on small instances, and TLAPS proofs for every value of the constants.

`wb-cache` wraps the *inner cache* (moka). A call of a user reads or modifies a
record by key. A modification is not written: the *data controller* turns it into an
*update record*, which waits in the *updates pool* until a flush hands the pool to
the data controller's `write_back`. The crate is generic over the data controller; its own
one is the e-commerce simulation in `src/src/test/simulation`.

## Inventory

| component | code | state | operations | modelled in |
| --- | --- | --- | --- | --- |
| updates pool | `cache.rs`, `update_state.rs` | `updates`: key -> `Arc<UpdateState>`, an `RwLock<Option<update>>` each | `get_update_state_and_compute`, `on_new/change/delete/access`, `_on_dc_op`, `flush_raw`, `flush_many_raw`, `flush_one`, `_purify_updates` | `UpdatePool` |
| update iterator | `update_iterator.rs` | keys, the next index, `worked` guards | `next`, `reset`, `confirm`, `confirm_all`, drops | `UpdatePool` |
| monitor | `cache.rs` 770-1000 | `shutdown`, `closed`, `error`, `monitor_task`, `last_flush` | `check_task`, `monitor_updates`, `soft_flush`, `flush`, `close`, `check_error` | `Monitor` |
| cache calls | `cache.rs`, `entry.rs`, `entry_selector.rs` | moka's entries (`Primary(value)`, `Secondary(key)`) | `get`, `insert`, `delete`, `invalidate`, `entry(..)` with `and_try_compute_with` / `or_try_insert_with`, `maybe_flush_one` | `CachedRows` |
| secondary keys | `cache.rs` 195-470, 900-960 | the `Secondary(key)` entries | `get_primary_key_from`, `get_and_try_compute_with_secondary`, `get_or_try_insert_with_secondary`, what deletes and `invalidate` do to the entries | `SecondaryKeys` |
| data controller | `traits.rs`, `types.rs` | none | `get_for_key`, `on_*`, `write_back`, the responses and their operations | `UpdatePool`, `CachedRows`, `SecondaryKeys` |
| `DCCommon` | `test/simulation/db/cache.rs` | update records `CacheUpdates` over sea_orm's `ActiveModel` | `wbdbc_on_new`, `wbdc_on_change`, `wbdc_on_delete` | `CachedRows` |
| | | a transaction, two batches | `wbdc_write_back` | `WriteBack` |
| cached company | `test/simulation/company_cached.rs` | five caches, observers between them | one handler per step of the script, `on_flush`, `on_flush_one` | `Company` (customers, orders, sessions) |
| script writer, actors | `test/simulation/scriptwriter*`, `actor.rs` | orders, stocks, sessions | script steps | no: sequential, see below |
| plain company, drivers, migrations, CLI, progress, reports, random models | the rest of `test/simulation` | | | no: no protocol of their own |

How they interact. Users' tasks, the monitor's task and explicit flushes run concurrently
(tokio tasks) on one pool. moka serialises the closures of one key in `and_try_compute_with`,
and those in `or_try_insert_with`; a record has its own `RwLock`; the hash map of the pool has
one more, held for single look-ups. The record lock is held *across* the awaits of the data
controller and of `write_back`, the map's lock is not: between two awaits the pool may change
under the feet of every task. The monitor and the users share flags, a `Notify` and an
error slot. A call by a secondary key makes a call by the primary one from within moka's lane
of the secondary key. The company gives each cache its own pool and monitor; an observer
of one cache flushes another one in the middle of a flush, under the record locks of the first.

What is hard:

- interleavings of calls, overlapping flushes and purifications at the await points; the pool
  decides what to forget by reference counts and by the content of a guard;
- a row that is known to the pool under several keys;
- partial failures: a data controller call, an observer or a transaction fails with locks held
  and with an update moved out of its record;
- cache, pending update and table are three places that each know a part of a row;
- start, notification, shutdown and respawn of the monitor, and its error reaching a user;
- entries by a secondary key, which have to follow what happens to the row;
- one transaction of many updates, sent in an order that is not the users', in batches;
- caches that refer to each other's rows and are flushed by tasks of their own.

What makes the components correct:

- pool: an accepted write is kept until it is durable or superseded, is written once, and every
  call ends;
- iterator: what it has locked is what the pool has; a failed write-back changes nothing;
- monitor: pending writes are flushed, failures reach a user, `close` flushes and returns;
- calls and data controller: a user sees the last accepted value, whether it was cached,
  pending or written; what is written is what was accepted, and the backend can take it;
- secondary keys: an entry leads to a row that is there and has that key;
- `write_back`: all of its items or none are written and confirmed, whatever the batches;
- company: a row is refused for the row it refers to only after a race, and is written
  later; the flushes of the caches do not wait for each other in a circle.

`PROJECT.json` lists the hazards at their lines, with the properties that guard each.

## Modules

| module | what it is |
| --- | --- |
| `WriteBehind` | abstract: what the pool promises, to the users and to the monitor, per row a set of pending writes, and the durable ones |
| `UpdatePool` | the pool, its records as objects with identity, its iterators and the protocols on them |
| `UpdatePoolInv` | the inductive invariant of `UpdatePool` |
| `UpdatePool_proofs`, `UpdatePool_safety`, `UpdatePool_refinement` | its types, its safety, and that it implements `WriteBehind` |
| `Monitor`, `Monitor_proofs` | the background task, `close`, the error slot |
| `RowStore` | abstract: what users see of the rows, a store without a cache |
| `CachedRows` | moka's entries, pending updates and table under `DCCommon` |
| `CachedRowsInv`, `CachedRows_proofs` | its inductive invariant, and the proofs |
| `SecondaryKeys` | composes `CachedRows` with the secondary entries and the calls that use them |
| `SecondaryKeysInv`, `SecondaryKeys_proofs` | its inductive invariant, and the proofs |
| `AtomicFlush` | abstract: what `write_back` promises of a set of updates |
| `WriteBack`, `WriteBack_proofs` | `wbdc_write_back`, statement by statement |
| `Company`, `Company_proofs` | the caches of the company, their monitors, observers and the script |
| `MCUpdatePool`, `MCMonitor`, `MCCachedRows`, `MCSecondaryKeys` | symmetry and key maps for TLC |

Definitions named *slip* in a comment are plausible mistakes in the code (a missing test, a
lost reset). No specification uses them: they stand next to the definition they would
replace, and each property is violated by the slip that aims at it.

### UpdatePool

One step of the model is the code between two await points or lock operations that another
task can observe. A call of `get_update_state_and_compute` is: find or create the record
(`FetchUpdateState`, `CreateUpdateState`), lock it and take the update out
(`LockUpdate`), the answer of the data controller (`DcRespond`, `DcFail`), the
reinsertion (`Reinsert`), and for the answer Drop the removal (`ReinsertToDrop`,
`DropUpdate`). `ref[t]` is the `Arc` a task has cloned; `Shared` is `Arc::strong_count > 1`. A
flush is: list the keys (`BeginFlush`), visit them (`NextKey`), restart for write_back when an
observer has consumed the iterator (`ResetIterator`), confirm (`ConfirmItem`, `Commit`), purify
(`Purify`, or `PurifyPanics` when the `unwrap` of an absent key fails). `flush_one` waits for a
lock instead (`BeginFlushOne`, `FlushOneLock`). `held[t]` is what an iterator has locked, in the item it
has handed out or in its `worked` list: the code tells them apart only by who drops them.

The content of a record is the set of user's writes it carries, so that "lost" and "written
twice" can be told; the data controller is its contract (a change merges, a new value
or a deletion replaces, an access changes nothing, each may fail); `DcMayFail` and `Immutable` (Drop is answered to the
deletion of an unwritten insertion, as `DCCommon` does) say what it may do. Calls inside `and_try_compute_with` of
one key exclude each other, and so do those inside `or_try_insert_with`, but not one the other (`SameLane`), as in moka.
Keys are primary or secondary; `PrimaryOf` is `primary_key_of`.

`live`, `origin`, `durable`, `forsaken`, `dropped` and `panicked` are history: what was accepted, from which kind of
call, what the backend has, what was in the hands of an `on_change` or `on_access` that failed, which rows were deleted
before they were written, with the answer Drop, and for which keys a purification has panicked. But for `origin`, which tells
insertions from changes, they restrain no step. The properties use three of them to name what the code does lose:

- `forsaken`: `on_change` and `on_access` take the pending update out of the record before they await, and an error loses
  it. `NoLostUpdate` and `Implements` say that nothing else is lost, and that a failing `on_new` or `on_delete` loses nothing;
- `dropped`: Drop removes whatever record the pool has. When a flush holds the first record of a row, an insertion, a
  deletion and another insertion leave the purification with the second record to remove, unwritten; or it finds none, and
  panics. `NoLostUpdate`, `WritersShareRecord`, `GuardsMatchPool` and `NoPanic` promise nothing of a row once it was
  dropped, and everything of the rows beside it. `CallsReturn` and `WrittenOnce` exempt nothing;
- `NoPanic` speaks of primary keys. A `get` by a secondary key may pool a record under that key; one flush holds it, the
  key gets another record, and a purification unwraps a key that the other one has removed.

### Monitor

The pool is a set of writes, because `UpdatePool` has shown how it keeps them. The states of
`monitor` follow `monitor_updates`: `top` of the loop, in its `select`, flushing, and raising an error.
`closed` has a lock that the task holds from its first step to its end, which is what
`close` waits for. A notification counts only if the task is in its select
(`Notify::notify_waiters`). Time is a choice: at each wake-up the flush is or is not due.

`asked` is history, as `owed` is: what had been accepted before a user called `close`, and what the pool had when
the task saw the shutdown. Records that a call has locked in the last flush leave both: the iterator passes over
them, and the task does not come back. The flush
of a user writes all that is pending, or any part of it when the monitor or another user may hold records (`OthersLock`).

The pool of this module has to keep the contract that `UpdatePool` implements: `Implements` is `WriteBehind` again, with
each write as a row of its own.

### CachedRows

The update of a row is handled in one step, since `UpdatePool` shows that record locks make it so; a
flush is one transaction. A call is: `maybe_flush_one`'s look at the cache (`Check`), the
flush (`FlushOne`, `FlushOneFails`), moka's lane of the key and the load (`Load`), and
the closure's answer (`Nop`, `PutNew`, `PutChanged`, `Remove`; `InitNew`, `InitFound` for
`or_try_insert_with`). Evictions, invalidations and flushes come at any time. An `ActiveModel` says of each
column whether it is set, so merging a change into a pending update is modelled column by
column, as `wbdc_on_change` does it.

`RowStore` is what users are promised: a table, the last value of each row, and to whom it is given, in which of moka's two
lanes. Entries, pending updates, the look at the cache and the loads are not in it. `Give` tells a user the last value;
`Answer` is his answer, based on a value that is still the last, and if it modifies the row nobody else has it;
`Insert` makes a new row unseen; `Store` lets the table take over the last values of some rows, and nothing else.
`Lose` gives up a row for good. `CachedRows` implements it with a user in his closure as the one who is given the
row (`Given`).

Three races are open in the code, and the module takes every one of their steps. A history, `exposed`, says which
rows they have hit; it restrains nothing, and the properties speak of the other rows:

- `Undercut`: between `maybe_flush_one` (905-914) and moka's lane (243) the entry is evicted, or another call
  deletes the row or leaves an update and no entry. The call then loads the table's value though an update is pending;
- `Crossed`: a call modifies the row in one of moka's lanes while a closure runs for it in the other
  (`or_try_insert_with` beside `and_try_compute_with` or `insert`), which has been told a value that is now outdated;
- `Unseen`: `insert` (575-600) is called for a row that the backend has. `on_new` does not look: the insertion is
  refused at every flush, or a deletion drops it that should have reached the table.

`aged` is the history of data controllers that are not IMMUTABLE (the simulation's for customers): a change is answered with
Nop, and the entry from before stays in the cache (`Outlived`). Of an aged row the properties say whether it is there, not
its value (`Agrees`). What each event would break if its rows were not exempted (found by TLC, with the event taken out
of the history):

| event | properties that fail |
| --- | --- |
| `Undercut` | `Faithful`, `Flushable`, `ReadsLatest`, `CacheIsLatest`, `ImplementsStore`: after an eviction a closure reads the old value, bases its change on it and caches it; after a deletion a change of the loaded row takes the pending deletion out of the record, is refused, and the row survives |
| `Crossed` | the same five |
| `Unseen` | the same five with an IMMUTABLE controller, else `Flushable` and `ImplementsStore` |
| `Outlived` | `Faithful`, `ReadsLatest`, `CacheIsLatest`, `ImplementsStore` |

So the properties hold for as long as a row has met none of these; an eviction at any other time, any refused
transaction, overlaps of calls that do not modify, an insertion over one that is not stored yet, and all that
the rows beside it go through do them no harm.

### SecondaryKeys

Every action that touches a row is an action of `CachedRows` with a conjunct for the secondary
entries: `stage[u]` is where a call by a secondary key is, `pc[u]` where the call on the row is that
it makes. A call is: wait for moka's lane of the key (`CallBySecondary`); enter it and ask the entry, or else
the table, for the primary key (`EnterKnown`, `EnterUnknown`); the call on the row in the
lane of the primary key (the `Keyed...` actions, and `Ends`, which keeps what it has come to); the operation
on the entry of the secondary key (`Link`). An unknown key has three outcomes: nothing, an
error, or a value, which is put by a call on its primary key (`UnknownPut`) or inserted
(`UnknownInsert`). `Dropped` is the invalidation of the entries of a removed value;
`EvictPrimary` and `EvictSecondary` are moka's. Not modelled: errors of `get_primary_key_for` and
`get_for_key`, which end a call before it has changed anything.

A history, `strayed`, names the rows whose secondary entries the code does not look after; it restrains no step:

- `Renamed`: the column of the secondary key is changed, so that the row has another key than its own (`SecondaryOf`). The
  data controller is asked for the secondary keys of a value only when it is removed, and the entry of the
  old key goes on leading to the row;
- `LinkCut`: a removal by the primary key comes between the end of another call on the row and its `Link`, which are
  not in one lane (354, 373). The entry is put for a row that is gone.

`AliasIsLive` speaks of the rows that have not strayed and are not exposed; removals, changes and evictions at all
other times are covered. `EvictsAlone` says that moka evicts a row and keeps its entry, as it does in every run: `AliasIsLive`
survives it, but a removal by the secondary key finds nothing to remove in moka and reports `None` for a row it has
deleted, and when the secondary entry was cached `Link` unwraps a `None` (`UnwrapsNoValue`).

`LinkPanics` names three unwraps that legal calls reach; `or_try_insert_with` by a secondary key always ends
in the last (`WantsValue`: `into_value` of a `Secondary` entry).

### WriteBack

A row is its value in a unique column. The steps are the statements of the loop: an item is taken
(`NextItem`, `Skip`), full batches are sent before the item is looked at (`SendInserts`, `SendDeletes`), an
insert or a delete is kept for a batch (`KeepItem`), an update is sent (`SendUpdate`); the round
without an item sends what is left, and `Commit` commits and confirms. `tx` is the table as
the transaction sees it. `inserts`, `deletes` and `item` hold their guards; `worked` is what
has been dropped, the guards `confirm_all` will empty. Users modify the rows that are not locked and
other flushes write them (`Modify`, `WrittenElsewhere`) at every step. The backend refuses a duplicate
value, the insert of a row it has and the update of one it has not; any other error is `Fail`.

`WrittenAtOnce` says that this implements `AtomicFlush`: the updates of a set of rows reach the
table at once and stop being pending, or nothing happens. This is the step `Flush` of `CachedRows`.

`RefusedOnlyWhenTraded` is the best that can be said of refusals: an update is sent when it is met and
the inserts before the deletes, so a unique value that goes from one row to another (a customer
is deleted and another one registers with the same email) may arrive before it is given up. The
refusal takes the whole transaction along, and every flush that has both rows meets it again if they
come in the same order.

### Company

Orders and sessions refer to customers. `UpdatePool` and `Monitor` show what one flush does; here a
record is its customer and whether it is pending, and what counts is the locks. A flush of the
orders first flushes the customers (`OrderObserver::on_flush`), one of the sessions first
walks its own iterator and flushes the customers it has seen (`SessionObserver::on_flush`: `LookAt`,
`FlushCustomersSeen`, `ResetIterator`). The nested flush passes over a customer that another flush has
locked (`missed`), and then the order or session is refused (`Refused`). `flush_one`
of a session waits for its customer under the session's lock (`LockOne`, `LockCustomer`); that of an order uses
`flush()` and can miss a customer as the monitors do. `Fail` is an error of the
backend; an error of the nested flush ends the outer one.

Left out: products and inventory records, which are written at the end of the script's first
day, before any order (`set_current_day`), and wait for no other cache; the deletion of old sessions
(`collect_sessions`); a monitor's error that a later call returns (`Monitor` has it).

## Runs

| run | instance | what it shows |
| --- | --- | --- |
| `pool_aliases` | one row with a primary and a secondary key, 3 records, 2 writes, 2 users, 1 flusher; every kind of call and flush, failing `on_change`, `on_delete`, observers and write-backs | `NoLostUpdate`, `WritersShareRecord`, `ReleasedWhenWritten`, `HoldersDoNotWait`; the inductive invariant `IInv`; `Implements`: the pool refines `WriteBehind` |
| `pool_flushers` | two rows, 1 user, 2 flushers, the data controller answers Drop, items confirmed one by one | overlapping flushes write nothing twice (`WrittenOnce`); but for dropped rows they lock what the pool has (`GuardsMatchPool`) and never meet an absent key (`NoPanic`) |
| `pool_drop` | one row, 2 users that insert and delete it, 3 writes, raw flushes and `flush_one`, failing deletions and write-backs, the data controller answers Drop | `IInv` while rows are dropped and made again; every call returns, a panic in a purification included |
| `pool_live` | one row, 2 users, raw flushes and `flush_one`, failing calls, an outage | `WritesReachBackend` |
| `monitor` | 2 users, 1 write, outage, close | `FailureIsReported`, `LastFlush`, `CloseWaits`, `PendingIsFlushed`, `CloseReturns`; `Implements`: the monitor keeps `WriteBehind`; the inductive invariant `MonitorInv` |
| `rows` | 3 users, 1 row of 2 columns and 3 values, both lanes, refused transactions, evictions and insertions at any time, an IMMUTABLE controller | `Faithful`, `Flushable`, `ReadsLatest`, `CacheIsLatest`; the inductive invariant `RowsInv`; `ImplementsStore`: the cache refines `RowStore` |
| `secondary` | 2 users, 1 row with a secondary key and another column, calls by either key and in either lane, evictions of either entry, removals and changes of the key at any time, a controller that is not IMMUTABLE | `AliasIsLive`; the inductive invariant `KeyedInv`, which contains `RowsInv` |
| `secondary_live` | 2 users, 1 row and its secondary key, either form of call, removals at any time | `KeyedCallsReturn`: no two calls wait for each other's lanes |
| `write_back` | 3 rows, 3 unique values, batches of 2, any table to begin with | `WrittenAtOnce` (refines `AtomicFlush`), `AllItemsAreSent`, `UpdatesFit`, `RefusedOnlyWhenTraded`; the inductive invariant `WriteBackInv` |
| `company` | a customer, an order, a session; three monitors and the script; an outage | `SessionOfCallIsWritable`, `RefusalsAreRaces`, `FlushesReturn`, `DependentsAreWritten`; the inductive invariant `CompanyInv` |

Why the bounds are enough. Rows do not interact in the pool but through an iterator that
lists several of them, for which two rows suffice; a row needs a record in the pool, an
outdated one held by a flush or a call, and a new one: three records. Two users meet each
other and the flusher at every await. Three values and two columns let a change differ from both the
table's value and the pending one in one column and agree in the other; three users are
one in its closure, one that waits for the lane and one that checks the cache. The monitor works
alike on one write and on many: the second would only be flushed with the first or skipped on its own,
which the choice in `FlushSucceeds` and `Skip` already gives for one. A secondary entry relates one key to
one row: two keys let it lead to a row that has the other one, and two users are the call that is about to link and
the one that removes. An entry that leads to a wrong row would need a second row with the same key, which the backend
refuses, or a step that mixes up two rows; the theorems are for any number. `secondary` stops (`SomeRowIsSound`) when its
row is exposed or has strayed, since nothing is claimed from then on. In `secondary_live` two users meet in
the lane of the secondary key and in both lanes of the primary one. Three rows in batches of two send a full batch, a last batch of one and an update between them; the
refusal of a traded value needs two rows and the third is the one whose updates go down with it. In `company`
the tasks race for one customer; more of them give the same races several times, and the invariants,
not the liveness, were also checked with two customers.

Every write, once used, is used up (`Writes` bounds the calls); record identities are reused when nobody
refers to them. In `company` each record is added once, and then goes on being
updated. These, and the constraint of `secondary`, are the only bounds. No run disables the deadlock check: the calls that need no write
go on for ever.

### Fairness

- `UpdatePool!Fairness`: a call in progress is a future that its runtime polls (WF). tokio's `RwLock` is
  fair to its waiters, so a lock that is free again and again is given to a waiter (SF of `LockUpdate`,
  `FlushOneLock`). The monitor flushes again and again (SF of `BeginFlush`). A user need not call.
- `Monitor!MonitorFairness`: the task is polled and its ticker does not stop (WF of `Background`); the
  flush interval elapses again and again (SF of a wake-up that flushes). The strong fairness of a flush that
  writes `w` says that no record is locked at *every* pass of the iterator: `next` skips locked
  records, and nothing in the code excludes a record that is always locked at that moment. This is an
  assumption on the load.
- `Recovery`: an outage of the backend ends. Without it nothing reaches the backend.
- `UsersCall`: an error in the slot is met by some user's call. It is needed: `flush()` begins with
  `check_error`, so the monitor takes its own error for the result of the next flush and, if
  no user calls, sets it again for ever and never flushes.

- `SecondaryKeys!KeyedFairness`: a call in progress is polled, and moka gives a lane that is free again and again to
  those who wait for it (SF of `InCall`).
- `Company!Fairness`: the monitors begin a flush again and again while something is pending (WF of
  `BeginFlush`), a flush goes on (WF of `FlushStep`), the locks are fair to their waiters (SF of `LockStep`).
  `Recovery` excludes failures of the backend for ever, not refusals by the tables (a step that is `Refused` as well as
  `Fail` is allowed), so that `DependentsAreWritten` has to find a flush that is not refused.

Runs that check liveness use no symmetry.

### Disagreements with the repository's own words

Each of two runs checks one property and TLC finds it violated; `findings` in `PROJECT.json`
quotes the line.

| run | property | what happens |
| --- | --- | --- |
| `monitor_closes` | `CloseDrains` | a user's write is accepted and the task is spawned; before it has run the user calls `close`, which sets the flag, gets the lock of `closed` ahead of the task and returns with the write pending |
| `secondary_panics` | `NoCallPanics` | a value put through a secondary key that nobody knows yet is accepted, and the call unwraps the primary key it did not find |

Two more, without a run of their own:

- `lib.rs` 81-82 says that the pool is always indexed by the primary key of the record, and `cache.rs` 502 puts a new
  record under the key of the call. A `get` by a secondary key of a row that has no record yet makes one under the secondary
  key (`CreateUpdateState`), so one row can have several keys in the pool, and the pool more keys than rows. `pool_aliases`
  is about what follows from it;
- `close` (920) is to be called "to ensure that no data is lost": what is modified after a shutdown stays in the pool
  (`Monitor`, no property promises otherwise).

What else the code loses or breaks has no words of the repository against it. It is named by the histories `forsaken`,
`dropped`, `exposed`, `aged` and `strayed`, described with their modules above.

## Proofs

Eight modules hold theorems. An inductive invariant is proved action by action, one lemma for each, and
the temporal theorems follow by PTL.

`UpdatePool_proofs` has `TypeCorrect == Spec => []TypeOK`, for all sets of keys, records, writes and
tasks and every data controller, and

- `LocksAreGivenBack == Spec => []HoldersDoNotWait`: whoever has the lock of a record is at a step that waits for no
  other lock, and has given it back when he is done, whatever fails or panics. This is the safety half of
  `CallsReturn`. `HolderInv` is the
  strengthening: a lock is held for a data controller call on that record or by a guard (`HolderHasUse`), and a guard
  lives as long as its flush (`GuardsAreInFlushes`).

`UpdatePool_safety` has, for every data controller, whatever it answers, whichever of its calls, observers and
transactions fail, and however calls and flushes overlap:

- `WritesAreKept == Spec => []NoLostUpdate`
- `WritersShare`: `[]WritersShareRecord`; `GuardsMatch`: `[]GuardsMatchPool`
- `PurifyNeverPanics`: `[]NoPanic`, with secondary keys and dropped rows beside the keys it speaks of: by
  `GuardsArePooled` the pool has the record of such a guard under its key.

`NoLostUpdate` is not inductive: to know that a reinsertion or a purification does not throw an
update away, one has to know who else refers to a record. `IInv` in `UpdatePoolInv` says that:

- `Shape`, `JobShape`: what a task has at each of its steps, and what it may do with a secondary key;
- `DropsAreAnswers`: only a data controller that answers Drop drops rows;
- `Locks`: who holds a lock, and that a record a call is changing looks empty to nobody else;
- `RecordsServeOneRow`: all names of a record, in the pool and in the hands of tasks, are keys of one
  row, although records travel between keys by reinsertion;
- `LoadedIsPooled`: a record with an update, in it or taken out of it, is the one the pool has under
  the row's primary key;
- `CallsArePooled`, `GuardsArePooled`: so is the record of a call on a primary key, whose reference keeps
  it from being purified, and the record of a guard, which is not empty until it is confirmed.

The last three exempt the dropped rows (`Kept`), whose records a call, a flush and the pool may disagree about: with
Drop the pool forgets a record that others still hold. The others do not suffer from it because a record never changes
its row (`RecordsServeOneRow`).

The key step is `Purify`: a record is removed if its guard is empty and the count is 1; by `CallsArePooled`
no call on the row can be about to load it, so nothing live is in it. The second is `Reinsert`: by
`CallsArePooled` and `LoadedIsPooled` the pool has that record already, or the call is an access
by a secondary key whose record carries nothing that is not pooled under the primary one. There is one lemma per
action; `IInvStep` puts them together and the theorems follow by PTL. TLC checks `IInv` in
`pool_aliases` and, with Drop, in `pool_drop`. An `on_change` that fails (`FailForsakes`) leaves an empty record
behind, and what it had taken is `forsaken`.

`UpdatePool_refinement` has

- `WritesAreWrittenOnce == Spec => []WrittenOnce`, with no assumption at all. Its invariant `PlacesInv` says where a
  write is: in one record, in the hands of one call, or in the durable writes, and never in two of these;
- `RecordsAreReleasedWhenWritten`: `ReleasedWhenWritten`, and `PoolImplementsWriteBehind`: `Implements`. The second is for
  data controllers that do not answer Drop: a row that is dropped has nothing pending any more and nothing durable, which
  the contract does not know. It is the only theorem about the pool with a condition. What is pending for each row (`Pending`) and
  `durable` are the abstract variables; each action is shown to accept a write, to write back, or to leave both
  alone. What makes `Commit` a write-back is `LoadedIsPooled` and `GuardsArePooled` of `IInv`: what is in a guard is
  what is pending for the row.

`CachedRows_proofs` has, for every data controller, any number of users, rows, columns and values, and with every race
of the code in the steps, `CallsAreTyped == Spec => []TypeOK`, `RowsInvariant` and

- `RowsImplementStore`: `ImplementsStore`, the refinement of `RowStore`. A call gives its answer on the last value of its row
  (`ReadsLatest`); who modifies the row is alone with it in his lane (`OnePerLane`) and, unless he exposes it, in
  both; a write-back leaves the last values in the table (`Faithful`); a step that exposes or ages rows is `Lose`, and every
  other step is invisible;
- `UpdatesAreFaithful`: `[]Faithful`; `UpdatesAreFlushable`: `[]Flushable`
- `ReadsAreLatest`: `[]ReadsLatest`; `EntriesAreLatest`: `[]CacheIsLatest`

They need each other, and more (`RowSound` in `CachedRowsInv`, for each row that is not exposed). `UpdateTells`: update and table
tell the last value, the table can take the update, and a column which an update of a stored row leaves alone is
as the table has it (`Known`), which makes it right to merge changes and to write only the set columns. `EntryTells`
says so of the entry. `LaneIsReady` carries the answer of `maybe_flush_one` to the load in moka's lane: each step
keeps it or undercuts the row. `ClosureKnows` says that a closure was told the last value, and may insert the row if it was told none, so
that a new row is still new when `on_new` is called: each step keeps it or crosses the row. `ChangeSays`, `NewSays` and `DeleteSays` are the facts
about `DCCommon`'s three handlers. One lemma per action shows that the rows
which it does not expose stay sound. TLC checks `RowsInv` in `rows`, and with a controller that is not
IMMUTABLE in `secondary`.

`SecondaryKeys_proofs` has, for every data controller and every choice of the constants:

- `KeyedCallsAreTyped == KeyedSpec => [](TypeOK /\ KeyedTypeOK)`: a call by a secondary key has at each step what it
  needs there;
- `KeyedRowsAreRows == KeyedSpec => Spec`: calls by secondary keys do to the rows nothing but what calls by primary
  keys do, so the theorems of `CachedRows` hold with them. `KeyedRowsImplementStore` says so of `RowStore`;
- `AliasesAreLive`: `[]AliasIsLive`, from `KeyedInvariant`. An entry stays good because every row that has not strayed keeps its
  key wherever a value of it is kept (`RowsKeepKeys`), so has the row an entry refers to (`AliasHasKey`), a call runs on the row it has found (`TargetHasKey`), and what is about to be linked
  is there (`LinkIsLive`); the rest is the invariant of the rows below, which says that a removal
  has seen the value whose entries it drops.

`Monitor_proofs` has, for any users and writes, `MonitorInvariant` and

- `FailuresAreReported`: `[]FailureIsReported`;
- `LastFlushIsMade`: `[]LastFlush`. It needs `OwedIsKnown`: what the monitor owes since it saw the shutdown is pending or
  durable, is on the list the last flush began with, and the monitor does not wait any more;
- `CloseWaitsForTask`: `[]CloseWaits`. A finished task has seen the flag of a close, and what that close asked for was
  owed, or durable already, when the flag was seen (`AskedIsOwed`);
- `MonitorImplementsWriteBehind == Spec => Implements`: the pool as the monitor sees it keeps the contract that
  `UpdatePool_refinement` proves of the pool. What a call is about to write is nowhere else (`InputsAreUnused`), and a flush
  takes out of the pool just what it writes.

`WriteBack_proofs` has, for any rows, values and size of a batch:

- `ItemsAreSent`: `[]AllItemsAreSent`. The invariant `BatchesFit` says at which statements a batch is below the limit; in
  the last round that is, at the commit, that it is empty;
- `WriteBackIsAtomic == Spec => WrittenAtOnce`. `TxIsWorked` says that the transaction sees exactly what the
  dropped items make of the table, though users and other flushes change rows beside it; `ItemsAreInOrder` that an
  item is in one place, so that `confirm_all` empties what was sent and no more;
- `UpdatesKeepFitting`: `[]UpdatesFit`; `RefusalsAreTrades == Spec => RefusedOnlyWhenTraded`, from both.

`Company_proofs` has, for any customers, orders and sessions:

- `CallsFindTheCustomer`: `[]SessionOfCallIsWritable`; `OnlyRacesAreRefused`: `[]RefusalsAreRaces`, from
  `CompanyInvariant`. `CustomerIsHandled` follows the customer of an order or session through the flush that has
  seen it: written, or on the list of the nested flush, or locked by it, or found locked; `LocksMatch`
  says that what a flush has locked stays pending until that flush writes it, whoever else runs.

Assumptions on constants: `KeysAssumption` (the primary key of a primary key is itself),
`OptionsAssumption` (ranges), `NullsAssumption` (the null values are none of the
others), `RowsAssumption` (flags are Booleans, `Absent` is not a value), `MonitorAssumption`,
`SecondaryAssumption` (the key column is a column, each row has a value of it),
`WriteBackAssumption` (a batch has room for an item), `CompanyAssumption` (customers, orders and sessions are
different records). TLC evaluates them in the runs of their modules.

Only model-checked: liveness (`CallsReturn`, `WritesReachBackend`, `PendingIsFlushed`, `CloseReturns`,
`KeyedCallsReturn`, `DependentsAreWritten`, `FlushesReturn`), which is out of the prover's reach. Every invariant
and action property of the passing runs is a theorem; besides the named assumptions on constants only
`PoolImplementsWriteBehind` has a condition.

## Not modelled

- The plain company, the command line, progress bars and reports, drivers and migrations, random models:
  see the inventory. moka, tokio and sea_orm are environment, modelled by what the code relies on.
- The script writer and the actors: one task draws random numbers, keeps the books of orders, stocks and sessions and
  emits a list of steps; another one plays it. Nothing there is concurrent or recovers from a failure. `Company` has
  the steps that reach the caches.
- Of the company: products, inventory records, `collect_sessions` and the checks of the script, as said above.
- `max_updates` as a number: the pool over its limit is one of the reasons a flush may be due. A record that was only
  read is never purified (`_purify_updates` looks at `worked` only); that costs memory and flushes of nothing, and no
  property speaks of it.
- A caller that drops the future of a call half way: it has the effects of `DcFail` at the await.
- Errors of `get_primary_key_for` and `get_for_key`, and the events of `Observer` that only report.

## How the project grew

1. `UpdatePool`, `CachedRows`, `Monitor`, with the proofs of the pool's and the rows' safety.
2. The refinement of `WriteBehind` and `WrittenOnce`; the proofs of `Monitor`.
3. `WriteBack` with `AtomicFlush`, `SecondaryKeys` on top of `CachedRows`, and `Company`, with their proofs.
4. `RowStore` and its refinement by `CachedRows` and `SecondaryKeys`; the monitor's refinement of `WriteBehind`, `CloseWaits`
   and `HoldersDoNotWait` with their proofs; types without assumptions; the pool's invariant for the answer Drop.
5. Options that switched off the races of the code (evictions before the lane, two lanes, insertions over stored rows,
   renamed secondary keys, removals beside a link, dropped rows, failing changes) were replaced by histories: the races are steps of every
   run, the properties name the rows they have hit, and the theorems are proved without assumptions on the environment.

What would come next: the observers of products and inventory in `Company`, and a `Screenplay` module for the
bookkeeping of the script.
