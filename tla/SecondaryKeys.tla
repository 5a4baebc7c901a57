---------------------------- MODULE SecondaryKeys ----------------------------
(***************************************************************************)
(* Calls by secondary keys, on top of CachedRows. A column of the table    *)
(* holds the row's secondary key. The inner cache may have an entry for    *)
(* it, which refers to the primary key. A call by a secondary key enters   *)
(* moka's lane of that key, finds out the primary key, and makes there, in *)
(* the lane of the primary key, the call on the row; then it links the     *)
(* secondary key to the primary one, and returns.                          *)
(*                                                                         *)
(* Every step on a row is a step of CachedRows: what is proved of the rows *)
(* holds of those that are reached by secondary keys.                      *)
(***************************************************************************)
EXTENDS CachedRows

CONSTANTS
  Email,       \* the column of the secondary key
  SecondaryOf, \* a secondary key for each row: see Renamed
  Forms,       \* the calls made by secondary keys: compute, init
  EvictsAlone, \* moka evicts the entry of a row and keeps those of its secondary keys
  NoRow

ASSUME SecondaryAssumption ==
  /\ Email \in Columns
  /\ SecondaryOf \in [Rows -> Vals]
  /\ Forms \subseteq {"compute", "init"}
  /\ EvictsAlone \in BOOLEAN
  /\ NoRow \notin Rows

VARIABLES
  alias,     \* the secondary entries of the inner cache
  stage,     \* where each user's call by a secondary key is
  form, skey, \* its kind and its key
  found,     \* its entry was cached when the lane was entered
  target,    \* the primary key it has found
  outcome,   \* what the call on the row has come to
  panicked,  \* some call has met an unwrap of None or an entry of the wrong kind
  strayed    \* history: the rows that have been renamed or cut from a link, see Estranged

linkVars == <<stage, form, skey, found, target, outcome>>
keyedVars == <<vars, alias, linkVars, panicked, strayed>>

Stages == {"none", "waiting", "unknown", "primary", "link"}

Outcomes == {"nothing", "value", "removed", "error"}

\* Every variable holds a value of its declared kind; a call that has to link has none running.
KeyedTypeOK ==
  /\ alias \in [Vals -> Rows \cup {NoRow}]
  /\ stage \in [Users -> Stages]
  /\ form \in [Users -> {"compute", "init"}]
  /\ skey \in [Users -> Vals]
  /\ found \in [Users -> BOOLEAN]
  /\ target \in [Users -> Rows \cup {NoRow}]
  /\ outcome \in [Users -> Outcomes]
  /\ panicked \in BOOLEAN
  /\ strayed \subseteq Rows
  /\ \A u \in Users : stage[u] \in {"waiting", "unknown", "link"} => pc[u] = "idle"
  /\ \A u \in Users : stage[u] = "primary" => pc[u] # "idle"

KeyedInit ==
  /\ Init
  /\ alias = [s \in Vals |-> NoRow]
  /\ stage = [u \in Users |-> "none"]
  /\ form = [u \in Users |-> "compute"]
  /\ skey \in [Users -> Vals]
  /\ found = [u \in Users |-> FALSE]
  /\ target = [u \in Users |-> NoRow]
  /\ outcome = [u \in Users |-> "nothing"]
  /\ panicked = FALSE
  /\ strayed = {k \in Rows : table[k] # Absent /\ table[k][Email] # SecondaryOf[k]}

-----------------------------------------------------------------------------
(* What no lane protects a secondary entry from                            *)

\* The row has another secondary key than the one it is known for: somebody has changed it,
\* and the data controller is not asked for the secondary entries of the value replaced.
Renamed(k) == latest'[k] # Absent /\ latest'[k][Email] # SecondaryOf[k]

\* A removal comes between the two steps of a call by a secondary key that end its call on
\* the row and link the row.
LinkCut(k) ==
  /\ latest[k] # Absent /\ latest'[k] = Absent
  /\ \E t \in Users :
       stage[t] = "link" /\ stage'[t] = "link" /\ outcome[t] = "value" /\ target[t] = k

\* The history says for which rows this has happened. It restrains no step.
Estranged == strayed' = strayed \cup {k \in Rows : Renamed(k) \/ LinkCut(k)}

-----------------------------------------------------------------------------
(* The lane of a secondary key                                             *)

InLane(t, s) == stage[t] \in {"unknown", "primary", "link"} /\ skey[t] = s

SecondaryLaneFree(s) == \A t \in Users : ~InLane(t, s)

\* get, delete, and entry with and_try_compute_with or or_try_insert_with.
CallBySecondary(u, kind, s) ==
  /\ stage[u] = "none" /\ pc[u] = "idle"
  /\ stage' = [stage EXCEPT ![u] = "waiting"]
  /\ form' = [form EXCEPT ![u] = kind]
  /\ skey' = [skey EXCEPT ![u] = s]
  /\ UNCHANGED <<vars, alias, found, target, outcome, panicked, strayed>>

Stored(s) == {k \in Rows : table[k] # Absent /\ table[k][Email] = s}

\* The rows that an entry, or else the backend (get_primary_key_for), names for the key.
LeadsTo(s) == IF alias[s] # NoRow THEN {alias[s]} ELSE Stored(s)

Enter(u, state, k) ==
  /\ stage[u] = "waiting"
  /\ SecondaryLaneFree(skey[u])
  /\ stage' = [stage EXCEPT ![u] = state]
  /\ found' = [found EXCEPT ![u] = alias[skey[u]] # NoRow]
  /\ target' = [target EXCEPT ![u] = k]
  /\ UNCHANGED <<alias, form, skey, outcome, panicked, strayed>>

EnterKnown(u, k) ==
  /\ k \in LeadsTo(skey[u])
  /\ Enter(u, "primary", k)
  /\ Call(u, form[u], k)

\* An update that has not been flushed is not found: its row is unknown by this key.
EnterUnknown(u) ==
  /\ LeadsTo(skey[u]) = {}
  /\ Enter(u, "unknown", NoRow)
  /\ UNCHANGED vars

\* The closure is given nothing and wants nothing; or it fails, or the initialisation does.
UnknownNop(u, result) ==
  /\ stage[u] = "unknown"
  /\ result = "error" \/ form[u] = "compute"
  /\ stage' = [stage EXCEPT ![u] = "link"]
  /\ outcome' = [outcome EXCEPT ![u] = result]
  /\ UNCHANGED <<vars, alias, form, skey, found, target, panicked, strayed>>

\* It puts a value: a compute on the value's primary key, whose closure puts this value.
UnknownPut(u, k) ==
  /\ stage[u] = "unknown" /\ form[u] = "compute"
  /\ stage' = [stage EXCEPT ![u] = "primary"]
  /\ Call(u, "compute", k)
  /\ UNCHANGED <<alias, form, skey, found, target, outcome, panicked, strayed>>

\* What a user may put: a call by a secondary key puts values that have this key. Whether two
\* rows have the same one is for the backend to say.
Fitting(u, v) == stage[u] # "none" => v[Email] = skey[u]

\* or_try_insert_with of an unknown key: insert, in the lane of the value's primary key.
UnknownInsert(u, k, v) ==
  /\ stage[u] = "unknown" /\ form[u] = "init"
  /\ Fitting(u, v)
  /\ InsertRow(u, k, v)
  /\ stage' = [stage EXCEPT ![u] = "link"]
  /\ target' = [target EXCEPT ![u] = k]
  /\ outcome' = [outcome EXCEPT ![u] = "value"]
  /\ UNCHANGED <<alias, form, skey, found, panicked>>
  /\ Estranged

-----------------------------------------------------------------------------
(* The call on the row                                                     *)

\* The call on the row ends: a call by a secondary key goes on with what it has come to.
Ends(u, result) ==
  /\ IF stage[u] = "primary"
       THEN /\ stage' = [stage EXCEPT ![u] = "link"]
            /\ outcome' = [outcome EXCEPT ![u] = result]
       ELSE UNCHANGED <<stage, outcome>>
  /\ UNCHANGED <<form, skey, found, target, panicked>>
  /\ Estranged

\* The closure is the user's, unless it is the one that puts a value for an unknown key.
Asks(u) == stage[u] = "primary" => target[u] # NoRow

KeyedFlushFails(u) == FlushOneFails(u) /\ Ends(u, "error") /\ UNCHANGED alias

KeyedNop(u) ==
  /\ Asks(u)
  /\ Nop(u)
  /\ Ends(u, IF seen[u] = Absent THEN "nothing" ELSE "value")
  /\ UNCHANGED alias

\* What the data controller does not put into the cache leaves moka's entry as it was.
KeyedPutNew(u, v) ==
  /\ Fitting(u, v)
  /\ PutNew(u, v)
  /\ Ends(u, IF Immutable THEN "value" ELSE "nothing")
  /\ UNCHANGED alias

\* The change is refused, or there is an entry to speak of.
ChangeResult(u, v) ==
  IF update[key[u]] = Delete THEN "error"
  ELSE IF Recached(v, seen[u], update[key[u]]) \/ ~fetched[u] THEN "value"
  ELSE "nothing"

KeyedPutChanged(u, v) ==
  /\ Fitting(u, v)
  /\ PutChanged(u, v)
  /\ Ends(u, ChangeResult(u, v))
  /\ UNCHANGED alias

\* A slip: the secondary entries outlive the row.
DroppedNone(v) == alias

\* The secondary entries of a value are dropped with it.
Dropped(v) == IF v = Absent THEN alias ELSE [alias EXCEPT ![v[Email]] = NoRow]

\* A removal of a row that is not cached (moka has nothing to remove) tells of none.
KeyedRemove(u) ==
  /\ Asks(u)
  /\ Remove(u)
  /\ alias' = Dropped(seen[u])
  /\ Ends(u, IF cached[key[u]] # Absent THEN "removed" ELSE "nothing")

KeyedInitNew(u, v) ==
  /\ Fitting(u, v)
  /\ InitNew(u, v)
  /\ Ends(u, "value")
  /\ UNCHANGED alias

KeyedInitFound(u) == InitFound(u) /\ Ends(u, "value") /\ UNCHANGED alias

-----------------------------------------------------------------------------
(* The end of a call by a secondary key                                    *)

\* Op::Put(Secondary(primary_key.unwrap())).
UnwrapsNoKey(u) == outcome[u] = "value" /\ target[u] = NoRow

\* moka tells that the entry is unchanged, and there is no primary_value.
UnwrapsNoValue(u) == outcome[u] = "nothing" /\ found[u]

\* get_or_try_insert_with_secondary takes the value of an entry that has none.
WantsValue(u) == outcome[u] = "value" /\ form[u] = "init"

LinkPanics(u) == UnwrapsNoKey(u) \/ UnwrapsNoValue(u) \/ WantsValue(u)

\* The entry is put for a value, removed with a row, and else left as it is.
Linked(u) ==
  IF outcome[u] = "value" /\ target[u] # NoRow THEN [alias EXCEPT ![skey[u]] = target[u]]
  ELSE IF outcome[u] = "removed" THEN [alias EXCEPT ![skey[u]] = NoRow]
  ELSE alias

Link(u) ==
  /\ stage[u] = "link"
  /\ alias' = Linked(u)
  /\ panicked' = (panicked \/ LinkPanics(u))
  /\ stage' = [stage EXCEPT ![u] = "none"]
  /\ found' = [found EXCEPT ![u] = FALSE]
  /\ target' = [target EXCEPT ![u] = NoRow]
  /\ outcome' = [outcome EXCEPT ![u] = "nothing"]
  /\ form' = [form EXCEPT ![u] = "compute"]
  /\ UNCHANGED <<vars, skey, strayed>>

-----------------------------------------------------------------------------
(* Calls by primary keys, and what happens to the entries by themselves    *)

CallByPrimary(u, kind, k) ==
  /\ stage[u] = "none"
  /\ Call(u, kind, k)
  /\ UNCHANGED <<alias, linkVars, panicked, strayed>>

InsertByPrimary(u, k, v) ==
  /\ stage[u] = "none"
  /\ Fitting(u, v)
  /\ InsertRow(u, k, v)
  /\ UNCHANGED <<alias, linkVars, panicked>>
  /\ Estranged

\* A slip: a call on a row asks for the lane of its secondary key once more.
ProceedReentering(u) ==
  /\ Check(u) \/ FlushOne(u) \/ Load(u)
  /\ stage[u] # "none" => SecondaryLaneFree(skey[u])
  /\ UNCHANGED <<alias, linkVars, panicked, strayed>>

\* maybe_flush_one, and the wait for the lane of the primary key.
Proceed(u) ==
  /\ Check(u) \/ FlushOne(u) \/ Load(u)
  /\ UNCHANGED <<alias, linkVars, panicked, strayed>>

\* invalidate of a primary key takes its secondary entries along, if it is cached.
Invalidate(k) ==
  /\ LaneFree("compute", k)
  /\ Evict(k)
  /\ alias' = Dropped(cached[k])
  /\ UNCHANGED <<linkVars, panicked, strayed>>

\* An eviction does not.
EvictPrimary(k) ==
  /\ EvictsAlone
  /\ Evict(k)
  /\ UNCHANGED <<alias, linkVars, panicked, strayed>>

\* invalidate of a secondary key, or an eviction.
EvictSecondary(s) ==
  /\ alias' = [alias EXCEPT ![s] = NoRow]
  /\ UNCHANGED <<vars, linkVars, panicked, strayed>>

KeyedFlush(ks) == Flush(ks) /\ UNCHANGED <<alias, linkVars, panicked, strayed>>

InCall(u) ==
  \/ Proceed(u) \/ KeyedFlushFails(u)
  \/ KeyedNop(u) \/ KeyedRemove(u) \/ KeyedInitFound(u)
  \/ \E v \in Value : KeyedPutNew(u, v) \/ KeyedPutChanged(u, v) \/ KeyedInitNew(u, v)
  \/ \E k \in Rows : EnterKnown(u, k) \/ UnknownPut(u, k)
  \/ EnterUnknown(u) \/ \E result \in {"nothing", "error"} : UnknownNop(u, result)
  \/ \E k \in Rows, v \in Value : UnknownInsert(u, k, v)
  \/ Link(u)

Starts(u) ==
  \/ \E kind \in Forms, s \in Vals : CallBySecondary(u, kind, s)
  \/ \E kind \in {"compute", "init"}, k \in Rows : CallByPrimary(u, kind, k)
  \/ \E k \in Rows, v \in Value : InsertByPrimary(u, k, v)

KeyedNext ==
  \/ \E u \in Users : Starts(u) \/ InCall(u)
  \/ \E k \in Rows : Invalidate(k) \/ EvictPrimary(k)
  \/ \E s \in Vals : EvictSecondary(s)
  \/ \E ks \in SUBSET Rows : KeyedFlush(ks)

KeyedSpec == KeyedInit /\ [][KeyedNext]_keyedVars

-----------------------------------------------------------------------------
(* Safety                                                                  *)

\* A secondary entry refers to a row that is there and has this secondary key, through
\* removals, insertions, changes, evictions and flushes (get_and_try_compute_with_primary,
\* invalidate), unless the row is exposed, has been renamed, or has been removed while another
\* call was about to link it.
AliasIsLive ==
  \A s \in Vals :
    alias[s] \notin {NoRow} \cup exposed \cup strayed =>
      latest[alias[s]] # Absent /\ latest[alias[s]][Email] = s

\* No call by a secondary key panics.
NoCallPanics == ~panicked

-----------------------------------------------------------------------------
(* Liveness                                                                *)

\* A call in progress is polled, and moka gives a lane that is free again and again to those
\* who wait for it.
KeyedFairness == \A u \in Users : SF_keyedVars(InCall(u))

KeyedLiveSpec == KeyedSpec /\ KeyedFairness

\* The lanes of a primary key are entered from those of secondary keys and never the other
\* way round: every call ends.
KeyedCallsReturn ==
  \A u \in Users :
    stage[u] # "none" \/ pc[u] # "idle" ~> stage[u] = "none" /\ pc[u] = "idle"

=============================================================================
