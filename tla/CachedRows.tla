----------------------------- MODULE CachedRows -----------------------------
(***************************************************************************)
(* The values a user sees through the cache: the entries of the inner      *)
(* moka cache, the pending update of every row, and the table in the       *)
(* backend, under the data controller of the simulation (DCCommon).        *)
(*                                                                         *)
(* A call of a user checks the cache for its key, flushes the key if it is *)
(* not there (maybe_flush_one), enters the key's lane in moka, loads the   *)
(* cached or stored value, and lets the user's closure decide. UpdatePool  *)
(* shows that the update of a row is handled under a lock and is not lost; *)
(* here its handling is a step, and what it says is what matters.          *)
(***************************************************************************)
CONSTANTS
  Users,           \* the tasks that call the cache
  Rows,            \* primary keys
  Columns,         \* the columns of the table, its primary key aside
  Vals,            \* what a column may hold
  Immutable,       \* DCCommon's parameter: the backend stores values as they are
  WriteMayFail,    \* the backend may refuse a transaction
  Absent           \* no row, no entry of the cache

Value == [Columns -> Vals]

ASSUME RowsAssumption ==
  /\ {Immutable, WriteMayFail} \subseteq BOOLEAN
  /\ Absent \notin Value

VARIABLES
  table,    \* the rows of the backend
  cached,   \* the entries of the inner cache
  update,   \* the pending update of each row
  latest,   \* the value of the last modification that was accepted
  pc, op, key,   \* where each user's call is, of which kind it is, and its key
  seen,     \* the value its closure is given
  fetched,  \* this value came from the backend
  exposed,  \* history: the rows that something has come between, see Recorded
  aged      \* history: the rows whose entry has outlived a change, see Recorded

callVars == <<pc, op, key, seen, fetched>>
vars == <<table, cached, update, latest, callVars, exposed, aged>>

\* The columns of an ActiveModel: to be written, or known to be as they are.
ActiveValue == [state : {"set", "unchanged"}, val : Vals]
ActiveModel == [Columns -> ActiveValue]

\* CacheUpdates.
NoUpdate == [kind |-> "none"]
Delete == [kind |-> "delete"]
Insert(am) == [kind |-> "insert", am |-> am]
Update(am) == [kind |-> "update", am |-> am]

Updates == {NoUpdate, Delete} \cup [kind : {"insert", "update"}, am : ActiveModel]

\* Every variable holds a value of its declared kind, and a value that was fetched is there
\* (the unwrap of the closure's answer Nop relies on that).
TypeOK ==
  /\ {table, cached, latest} \subseteq [Rows -> Value \cup {Absent}]
  /\ update \in [Rows -> Updates]
  /\ pc \in [Users -> {"idle", "check", "flush", "lane", "callback"}]
  /\ op \in [Users -> {"compute", "init"}]
  /\ key \in [Users -> Rows]
  /\ seen \in [Users -> Value \cup {Absent}]
  /\ fetched \in [Users -> BOOLEAN]
  /\ exposed \subseteq Rows /\ aged \subseteq Rows
  /\ \A u \in Users : fetched[u] => seen[u] # Absent

\* Any table may be there when the cache is built.
Init ==
  /\ table \in [Rows -> Value \cup {Absent}]
  /\ latest = table
  /\ cached = [k \in Rows |-> Absent]
  /\ update = [k \in Rows |-> NoUpdate]
  /\ pc = [u \in Users |-> "idle"]
  /\ op = [u \in Users |-> "compute"]
  /\ key \in [Users -> Rows]
  /\ seen = [u \in Users |-> Absent]
  /\ fetched = [u \in Users |-> FALSE]
  /\ exposed = {} /\ aged = {}

-----------------------------------------------------------------------------
(* DCCommon: the updates and what they do to the table                     *)

\* From<Model>: every column is known, none is to be written.
IntoActive(v) == [c \in Columns |-> [state |-> "unchanged", val |-> v[c]]]

Model(am) == [c \in Columns |-> am[c].val]

\* What the table has for the row once the update is written.
Written(upd, row) ==
  CASE upd.kind = "none" -> row
    [] upd.kind = "delete" -> Absent
    [] upd.kind = "insert" -> Model(upd.am)
    [] upd.kind = "update" ->
         IF row = Absent THEN Absent
         ELSE [c \in Columns |-> IF upd.am[c].state = "set" THEN upd.am[c].val ELSE row[c]]

\* The backend refuses to insert a row that is there and to update one that is not.
Acceptable(upd, row) ==
  /\ upd.kind = "insert" => row = Absent
  /\ upd.kind = "update" => row # Absent

\* Slips: the cached value is the base though an update is pending; the kind of the
\* pending update is not kept.
BaseFromOld(old, prev) == IntoActive(old)
UpdatedAs(prev, am) == Update(am)

\* The pending update is what a change is compared with, or else the value it replaces.
Base(old, prev) == IF prev = NoUpdate THEN IntoActive(old) ELSE prev.am

\* Columns in which the new value differs from the base, or which were set before, are set.
Diff(base, v) ==
  [c \in Columns |->
     IF base[c] = IntoActive(v)[c] THEN base[c] ELSE [state |-> "set", val |-> v[c]]]

\* CacheUpdates::replace keeps the discriminant.
Replaced(prev, am) == IF prev = NoUpdate THEN Update(am) ELSE [prev EXCEPT !.am = am]

\* A column that is already set counts as changed.
Changed(v, old, prev) == Base(old, prev) # IntoActive(v)

OnChange(v, old, prev) ==
  IF Changed(v, old, prev) THEN Replaced(prev, Diff(Base(old, prev), v)) ELSE prev

\* A slip: only the first change of a row is put into the cache.
RecachedOnce(v, old, prev) == Immutable /\ prev = NoUpdate /\ Changed(v, old, prev)

\* The response of on_change is Insert: the cache gets the new value.
Recached(v, old, prev) == Immutable /\ Changed(v, old, prev)

\* A new row that has not been written can be dropped as if it had never been.
Drops(prev) == Immutable /\ prev.kind = "insert"

\* A slip: the pending insertion outlives the row.
OnDeleteKeeps(prev) == IF Drops(prev) THEN prev ELSE Delete

OnDelete(prev) == IF Drops(prev) THEN NoUpdate ELSE Delete

-----------------------------------------------------------------------------
(* What no lane protects a row from                                        *)

\* A call that enters its lane now will find the entry, or a table that is up to date.
Ready(k) == cached[k] # Absent \/ update[k] = NoUpdate

\* Nothing keeps a row ready between maybe_flush_one and the lane: moka evicts the entry, or
\* the call of another user leaves an update behind and no entry.
Undercut(k) ==
  /\ \E u \in Users : key[u] = k /\ pc[u] = "lane" /\ pc'[u] = "lane"
  /\ Ready(k) /\ ~Ready(k)'

\* A call has modified the row.
Modified(k) == latest'[k] # latest[k] \/ update'[k] \notin {update[k], NoUpdate}

\* The calls whose closures run for the row, by the lanes they are in.
Lanes(k) == {op[t] : t \in {u \in Users : pc[u] = "callback" /\ key[u] = k}}

\* or_try_insert_with modifies the row beside and_try_compute_with or insert, or they beside it.
Crossed(k) ==
  /\ Modified(k)
  /\ "init" \in Lanes(k)
  /\ "compute" \in Lanes(k) \/ UNCHANGED callVars

\* insert has been called for a row that the backend has.
Unseen(k) == Modified(k) /\ table[k] # Absent /\ UNCHANGED callVars

\* A change that the data controller keeps out of the cache leaves the entry there is.
Outlived(k) == ~Immutable /\ Modified(k) /\ cached[k] # Absent /\ cached'[k] # Absent

\* The history says for which rows this has happened. It restrains no step.
Recorded ==
  /\ exposed' = exposed \cup {k \in Rows : Undercut(k) \/ Crossed(k) \/ Unseen(k)}
  /\ aged' = aged \cup {k \in Rows : Outlived(k)}

-----------------------------------------------------------------------------
(* Calls of the users                                                      *)

\* One and_try_compute_with runs per key, and one or_try_insert_with; the two may overlap.
Occupies(t, kind, k) == pc[t] = "callback" /\ op[t] = kind /\ key[t] = k

\* A slip: the calls for a key are not kept apart.
LaneFreeAlways(kind, k) == TRUE

LaneFree(kind, k) == \A t \in Users : ~Occupies(t, kind, k)

Return(u) ==
  /\ pc' = [pc EXCEPT ![u] = "idle"]
  /\ seen' = [seen EXCEPT ![u] = Absent]
  /\ fetched' = [fetched EXCEPT ![u] = FALSE]
  /\ op' = [op EXCEPT ![u] = "compute"]
  /\ UNCHANGED key

\* and_try_compute_with ("compute": get, delete and modifications) or or_try_insert_with.
Call(u, kind, k) ==
  /\ pc[u] = "idle"
  /\ pc' = [pc EXCEPT ![u] = "check"]
  /\ op' = [op EXCEPT ![u] = kind]
  /\ key' = [key EXCEPT ![u] = k]
  /\ UNCHANGED <<table, cached, update, latest, seen, fetched>>
  /\ Recorded

\* A slip: no flush of an entry that is pending and not cached.
AfterCheckNever(k) == "lane"

AfterCheck(k) == IF cached[k] # Absent THEN "lane" ELSE "flush"

\* maybe_flush_one.
Check(u) ==
  /\ pc[u] = "check"
  /\ pc' = [pc EXCEPT ![u] = AfterCheck(key[u])]
  /\ UNCHANGED <<table, cached, update, latest, op, key, seen, fetched>>
  /\ Recorded

WriteBack(ks) ==
  /\ \A k \in ks : Acceptable(update[k], table[k])
  /\ table' = [k \in Rows |-> IF k \in ks THEN Written(update[k], table[k]) ELSE table[k]]
  /\ update' = [k \in Rows |-> IF k \in ks THEN NoUpdate ELSE update[k]]

Refused(ks) == WriteMayFail \/ \E k \in ks : ~Acceptable(update[k], table[k])

FlushOne(u) ==
  /\ pc[u] = "flush"
  /\ WriteBack({key[u]})
  /\ pc' = [pc EXCEPT ![u] = "lane"]
  /\ UNCHANGED <<cached, latest, op, key, seen, fetched>>
  /\ Recorded

\* The error of flush_one is the error of the call.
FlushOneFails(u) ==
  /\ pc[u] = "flush"
  /\ update[key[u]] # NoUpdate
  /\ Refused({key[u]})
  /\ Return(u)
  /\ UNCHANGED <<table, cached, update, latest>>
  /\ Recorded

\* A slip: an absent row counts as fetched.
FetchesAlways(k) == TRUE

Fetches(k) == table[k] # Absent

\* In the lane: the cached value, or else what get_for_key returns.
Load(u) ==
  /\ pc[u] = "lane"
  /\ LaneFree(op[u], key[u])
  /\ IF cached[key[u]] # Absent
       THEN /\ seen' = [seen EXCEPT ![u] = cached[key[u]]]
            /\ fetched' = [fetched EXCEPT ![u] = FALSE]
       ELSE /\ seen' = [seen EXCEPT ![u] = table[key[u]]]
            /\ fetched' = [fetched EXCEPT ![u] = Fetches(key[u])]
  /\ pc' = [pc EXCEPT ![u] = "callback"]
  /\ UNCHANGED <<table, cached, update, latest, op, key>>
  /\ Recorded

Accept(u, upd, v) ==
  /\ update' = [update EXCEPT ![key[u]] = upd]
  /\ latest' = [latest EXCEPT ![key[u]] = v]

\* The closure answers Nop: a value that was fetched is cached.
Nop(u) ==
  /\ pc[u] = "callback" /\ op[u] = "compute"
  /\ cached' = IF fetched[u] THEN [cached EXCEPT ![key[u]] = seen[u]] ELSE cached
  /\ Return(u)
  /\ UNCHANGED <<table, update, latest>>
  /\ Recorded

\* The closure puts a value where there is none: on_new.
PutNew(u, v) ==
  /\ pc[u] = "callback" /\ op[u] = "compute"
  /\ seen[u] = Absent
  /\ Accept(u, Insert(IntoActive(v)), v)
  /\ cached' = IF Immutable THEN [cached EXCEPT ![key[u]] = v] ELSE cached
  /\ Return(u)
  /\ UNCHANGED table
  /\ Recorded

\* The closure replaces a value: on_change. A value that is not changed, or may be changed
\* by the backend, is not put into the cache. A deleted row is refused, and the deletion,
\* which was taken out of the record, is lost.
PutChanged(u, v) ==
  LET k == key[u]  prev == update[k]
  IN
  /\ pc[u] = "callback" /\ op[u] = "compute"
  /\ seen[u] # Absent
  /\ IF prev = Delete
       THEN update' = [update EXCEPT ![k] = NoUpdate] /\ UNCHANGED <<cached, latest>>
       ELSE /\ Accept(u, OnChange(v, seen[u], prev), v)
            /\ cached' = IF Recached(v, seen[u], prev) THEN [cached EXCEPT ![k] = v] ELSE cached
  /\ Return(u)
  /\ UNCHANGED table
  /\ Recorded

\* The closure removes the row: on_delete, and the entry is revoked or dropped.
Remove(u) ==
  /\ pc[u] = "callback" /\ op[u] = "compute"
  /\ Accept(u, OnDelete(update[key[u]]), Absent)
  /\ cached' = [cached EXCEPT ![key[u]] = Absent]
  /\ Return(u)
  /\ UNCHANGED table
  /\ Recorded

\* or_try_insert_with caches the value it makes, whatever on_new answers, unless it finds one.
InitNew(u, v) ==
  /\ pc[u] = "callback" /\ op[u] = "init"
  /\ seen[u] = Absent
  /\ Accept(u, Insert(IntoActive(v)), v)
  /\ cached' = [cached EXCEPT ![key[u]] = v]
  /\ Return(u)
  /\ UNCHANGED table
  /\ Recorded

InitFound(u) ==
  /\ pc[u] = "callback" /\ op[u] = "init"
  /\ seen[u] # Absent
  /\ cached' = IF fetched[u] THEN [cached EXCEPT ![key[u]] = seen[u]] ELSE cached
  /\ Return(u)
  /\ UNCHANGED <<table, update, latest>>
  /\ Recorded

\* insert: on_new in the lane of the key, with no flush and no look at what is there.
InsertRow(u, k, v) ==
  /\ pc[u] = "idle"
  /\ LaneFree("compute", k)
  /\ update' = [update EXCEPT ![k] = Insert(IntoActive(v))]
  /\ latest' = [latest EXCEPT ![k] = v]
  /\ cached' = IF Immutable THEN [cached EXCEPT ![k] = v] ELSE cached
  /\ UNCHANGED <<table, callVars>>
  /\ Recorded

\* invalidate, in the lane of the key, and evictions by moka at any time.
Evict(k) ==
  /\ cached' = [cached EXCEPT ![k] = Absent]
  /\ UNCHANGED <<table, update, latest, callVars>>
  /\ Recorded

-----------------------------------------------------------------------------
\* A flush of some rows is one transaction.
Flush(ks) ==
  /\ WriteBack(ks)
  /\ UNCHANGED <<cached, latest, callVars>>
  /\ Recorded

UserStep(u) ==
  \/ \E kind \in {"compute", "init"}, k \in Rows : Call(u, kind, k)
  \/ Check(u) \/ FlushOne(u) \/ FlushOneFails(u)
  \/ Load(u)
  \/ Nop(u) \/ Remove(u) \/ InitFound(u)
  \/ \E v \in Value : PutNew(u, v) \/ PutChanged(u, v) \/ InitNew(u, v)
  \/ \E k \in Rows, v \in Value : InsertRow(u, k, v)

Next ==
  \/ \E u \in Users : UserStep(u)
  \/ \E k \in Rows : Evict(k)
  \/ \E ks \in SUBSET Rows : Flush(ks)

Spec == Init /\ [][Next]_vars

-----------------------------------------------------------------------------
(* Safety                                                                  *)
(*                                                                         *)
(* What follows holds of the rows that are not exposed: a row that is may  *)
(* be read stale, and lose a modification. Of a row that has aged only     *)
(* its existence is known.                                                 *)

Agrees(k, v, w) == IF k \in aged THEN (v = Absent <=> w = Absent) ELSE v = w

\* The table and the pending update of a row together say what the user has last said of it,
\* however modifications were merged and whenever they were written (wbdc_on_change), unless
\* the row is exposed; of a row that has aged they say whether it is there.
Faithful == \A k \in Rows \ exposed : Agrees(k, Written(update[k], table[k]), latest[k])

\* No flush fails because of what the update of a row says, unless the row is exposed: it is
\* inserted once, and updated only when it is there (wbdc_write_back).
Flushable == \A k \in Rows \ exposed : Acceptable(update[k], table[k])

\* maybe_flush_one suffices: the value a closure is given is the one last accepted, unless the
\* row was undercut between it and the lane, was modified in both lanes at once, or inserted
\* over a stored row; or, when changes stay out of the cache, its entry has outlived one.
ReadsLatest ==
  \A u \in Users :
    pc[u] = "callback" /\ key[u] \notin exposed => Agrees(key[u], seen[u], latest[key[u]])

\* An entry of the cache is not older than the row, under the same conditions: the value that
\* a call fetches and caches in its lane was not replaced meanwhile.
CacheIsLatest ==
  \A k \in Rows \ exposed : cached[k] # Absent => Agrees(k, cached[k], latest[k])

\* The calls that are in their closures.
Given == {[user |-> u, lane |-> op[u], key |-> key[u], value |-> seen[u]] :
             u \in {t \in Users : pc[t] = "callback"}}

\* What is hidden from the store that is implemented.
Lost == exposed \cup aged

Kept(rows) == [k \in Rows |-> IF k \in Lost THEN Absent ELSE rows[k]]

Shown == {g \in Given : g.key \notin Lost}

\* The entries, the pending updates and the flushes of the rows that are neither exposed nor
\* aged are not to be seen: a closure works on the last value of its row, and no other closure
\* runs for it when it is modified (get_and_try_compute_with_primary).
RS == INSTANCE RowStore WITH table <- Kept(table), latest <- Kept(latest),
                             given <- Shown, lost <- Lost

ImplementsStore == RS!Spec

=============================================================================
