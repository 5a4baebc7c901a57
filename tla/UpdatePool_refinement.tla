------------------------ MODULE UpdatePool_refinement ------------------------
(***************************************************************************)
(* Nothing is written twice, the pool lets go of a record only when it is  *)
(* written, and the whole implements the contract of WriteBehind.          *)
(***************************************************************************)
EXTENDS UpdatePool_safety

-----------------------------------------------------------------------------
(* Every write is in one place                                             *)

\* The places stay sound when nothing changes hands.
LEMMA PlacesStay ==
  ASSUME PlacesInv,
         \A s \in States : data'[s] \in {data[s], {}},
         UNCHANGED <<durable, origin>>,
         \A t \in Tasks : Hand(t)' \in {Hand(t), {}},
         \A t \in Tasks : pc'[t] \in {"locking", "dc"} => pc[t] \in {"locking", "dc"} /\ job'[t] = job[t]
  PROVE  PlacesInv'
  <1>1. OnePlace'
    BY DEF PlacesInv, OnePlace
  <1>2. UnusedAreNowhere'
    BY DEF PlacesInv, UnusedAreNowhere, Unused
  <1>3. OneWriteEach'
    BY DEF PlacesInv, OneWriteEach
  <1>. QED
    BY <1>1, <1>2, <1>3 DEF PlacesInv

\* A call begins: its write has been nowhere.
LEMMA RequestPlaces ==
  ASSUME TypeOK, PlacesInv, NEW t \in Tasks,
         NEW kd \in OpKinds, NEW k \in Keys, NEW ws \in SUBSET Writes, Request(t, kd, k, ws),
         \A s \in States : data'[s] \in {data[s], {}},
         UNCHANGED <<prev, durable>>
  PROVE  PlacesInv'
  <1>1. /\ ws \subseteq Unused
        /\ IF kd = "access" THEN ws = {} ELSE \E w \in Writes : ws = {w}
        /\ \A w \in Writes : origin'[w] = IF w \in ws THEN kd ELSE origin[w]
        /\ kd # "unused"
    BY OptionsAssumption DEF Request, Unused, Kinds
  <1>2. /\ pc[t] = "idle" /\ pc'[t] = "locking" /\ \A u \in Tasks \ {t} : pc'[u] = pc[u]
        /\ job'[t] = [kind |-> kd, key |-> k, writes |-> ws]
        /\ \A u \in Tasks \ {t} : job'[u] = job[u]
    BY DEF Request, TypeOK
  <1>3. Hand(t)' = Hand(t) \cup ws /\ \A u \in Tasks \ {t} : Hand(u)' = Hand(u)
    BY <1>2 DEF Hand
  <1>4. Unused' = Unused \ ws
    BY <1>1 DEF Unused
  <1>5. OnePlace'
    BY <1>1, <1>3 DEF PlacesInv, OnePlace, UnusedAreNowhere
  <1>6. UnusedAreNowhere'
    BY <1>3, <1>4 DEF PlacesInv, UnusedAreNowhere
  <1>7. OneWriteEach'
    BY <1>1, <1>2 DEF PlacesInv, OneWriteEach
  <1>. QED
    BY <1>5, <1>6, <1>7 DEF PlacesInv

\* Something is taken out of record s into the hands of t, or put there from its hands.
LEMMA HandOver ==
  ASSUME PlacesInv, NEW t \in Tasks, NEW s \in States,
         \A r \in States \ {s} : data'[r] = data[r],
         \A u \in Tasks \ {t} : Hand(u)' = Hand(u),
         \/ Hand(t)' \subseteq Hand(t) /\ data'[s] = data[s]
         \/ Hand(t)' \subseteq Hand(t) \cup data[s] /\ data'[s] = {}
         \/ Hand(t)' = {} /\ data'[s] \subseteq Hand(t),
         UNCHANGED <<durable, origin>>,
         \A u \in Tasks : pc'[u] \in {"locking", "dc"} => pc[u] \in {"locking", "dc"} /\ job'[u] = job[u]
  PROVE  PlacesInv'
  <1>. USE DEF PlacesInv
  <1>1. OnePlace'
    BY DEF OnePlace
  <1>2. UnusedAreNowhere'
    BY DEF UnusedAreNowhere, Unused
  <1>3. OneWriteEach'
    BY DEF OneWriteEach
  <1>. QED
    BY <1>1, <1>2, <1>3

\* Guarded records are emptied into the backend.
LEMMA EmptyingPlaces ==
  ASSUME TypeOK, PlacesInv, NEW gs \in SUBSET Guard,
         data' = Emptied(gs), durable' = durable \cup Contents(gs),
         UNCHANGED <<origin, job, prev>>,
         \A u \in Tasks : pc'[u] \in {"locking", "dc"} <=> pc[u] \in {"locking", "dc"}
  PROVE  PlacesInv'
  <1>. USE DEF PlacesInv
  <1>1. \A s \in States : \/ data'[s] = data[s] /\ ~(s \in Guarded(gs))
                          \/ data'[s] = {}
    BY DEF Emptied
  <1>2. \A w \in Contents(gs) : \E s \in States : s \in Guarded(gs) /\ w \in data[s]
    BY DEF Contents, Guarded, Guard
  <1>3. \A u \in Tasks : Hand(u)' = Hand(u)
    BY DEF Hand
  <1>4. OnePlace'
    BY <1>1, <1>2, <1>3 DEF OnePlace
  <1>5. UnusedAreNowhere'
    BY <1>1, <1>2, <1>3 DEF UnusedAreNowhere, Unused
  <1>6. OneWriteEach'
    BY DEF OneWriteEach
  <1>. QED
    BY <1>4, <1>5, <1>6

\* get_update_state_and_compute moves its write from its hands into the record, with what it
\* has taken out of it.
LEMMA ComputePlaces ==
  ASSUME TypeOK, PlacesInv, NEW t \in Users, Compute(t)
  PROVE  PlacesInv'
  <1>. t \in Tasks
    BY DEF Tasks
  <1>1. ASSUME NEW kd \in OpKinds, NEW k \in Keys, NEW ws \in SUBSET Writes, FetchUpdateState(t, kd, k, ws)
        PROVE  PlacesInv'
    BY <1>1, RequestPlaces DEF FetchUpdateState
  <1>2. ASSUME NEW kd \in OpKinds, NEW k \in Keys, NEW ws \in SUBSET Writes, NEW s \in States,
               CreateUpdateState(t, kd, k, ws, s)
        PROVE  PlacesInv'
    <2>1. \A r \in States : data'[r] \in {data[r], {}}
      BY <1>2 DEF CreateUpdateState, TypeOK
    <2>. QED
      BY <1>2, <2>1, RequestPlaces DEF CreateUpdateState
  <1>3. CASE LockUpdate(t)
    <2>1. /\ pc[t] = "locking" /\ pc'[t] = "dc" /\ \A u \in Tasks \ {t} : pc'[u] = pc[u] /\ prev'[u] = prev[u]
          /\ UNCHANGED <<job, durable, origin>>
          /\ ref[t] \in States
          /\ \A r \in States \ {ref[t]} : data'[r] = data[r]
          /\ \/ prev'[t] = data[ref[t]] /\ data'[ref[t]] = {}
             \/ prev'[t] = prev[t] /\ data'[ref[t]] = data[ref[t]]
      BY <1>3 DEF LockUpdate, historyVars, TypeOK, Calling
    <2>. QED
      BY <2>1, HandOver DEF Hand
  <1>4. CASE DcRespond(t)
    <2>1. /\ pc[t] = "dc" /\ pc'[t] \in {"reinsert", "reinsertdrop"}
          /\ \A u \in Tasks \ {t} : pc'[u] = pc[u] /\ prev'[u] = prev[u]
          /\ prev'[t] = {}
          /\ UNCHANGED <<job, durable, origin>>
          /\ ref[t] \in States
          /\ \A r \in States \ {ref[t]} : data'[r] = data[r]
          /\ data'[ref[t]] = Response(t)
      BY <1>4 DEF DcRespond, TypeOK, Calling
    <2>2. Response(t) \subseteq Hand(t)
      BY <2>1 DEF Response, Hand
    <2>3. Hand(t)' = {}
      BY <2>1 DEF Hand
    <2>. QED
      BY <2>1, <2>2, <2>3, HandOver DEF Hand
  <1>5. CASE DcFail(t) \/ Reinsert(t) \/ ReinsertToDrop(t) \/ DropUpdate(t)
    <2>1. /\ pc'[t] \notin {"locking", "dc"}
          /\ \A u \in Tasks \ {t} : pc'[u] = pc[u] /\ prev'[u] = prev[u] /\ job'[u] = job[u]
          /\ prev'[t] \in {prev[t], {}}
          /\ UNCHANGED <<data, durable, origin>>
          /\ DcFail(t) => prev'[t] = {}
          /\ pc[t] \in {"locking", "dc"} => DcFail(t)
      BY <1>5 DEF DcFail, Reinsert, ReinsertToDrop, DropUpdate, historyVars, callVars, TypeOK
    <2>2. \A u \in Tasks : Hand(u)' \in {Hand(u), {}}
      BY <2>1 DEF Hand
    <2>. QED
      BY <2>1, <2>2, PlacesStay
  <1>. QED
    BY <1>1, <1>2, <1>3, <1>4, <1>5 DEF Compute

\* A flush moves what it has guarded from the records into the backend.
LEMMA FlushPlaces ==
  ASSUME TypeOK, PlacesInv, NEW t \in Flushers, Flush(t)
  PROVE  PlacesInv'
  <1>. t \in Tasks
    BY DEF Tasks
  <1>1. ASSUME NEW g \in Guard, ConfirmItem(t, g)
        PROVE  PlacesInv'
    <2>1. Contents({g}) = data[g[2]]
      BY DEF Contents, Guarded
    <2>. QED
      BY <1>1, <2>1, EmptyingPlaces DEF ConfirmItem, callVars
  <1>2. CASE Commit(t)
    <2>1. \A u \in Tasks : pc'[u] \in {"locking", "dc"} <=> pc[u] \in {"locking", "dc"}
      BY <1>2 DEF Commit, TypeOK
    <2>2. held[t] \in SUBSET Guard
      BY DEF TypeOK
    <2>. QED
      BY <1>2, <2>1, <2>2, EmptyingPlaces DEF Commit, callVars
  <1>3. ASSUME UNCHANGED <<data, durable, origin, job, prev>>,
               pc'[t] \notin {"locking", "dc"}, \A u \in Tasks \ {t} : pc'[u] = pc[u]
        PROVE  PlacesInv'
    <2>1. \A u \in Tasks : Hand(u)' \subseteq Hand(u)
      BY <1>3 DEF Hand
    <2>2. OnePlace' /\ UnusedAreNowhere'
      BY <1>3, <2>1 DEF PlacesInv, OnePlace, UnusedAreNowhere, Unused
    <2>3. OneWriteEach'
      BY <1>3 DEF PlacesInv, OneWriteEach
    <2>. QED
      BY <2>2, <2>3 DEF PlacesInv
  <1>4. ASSUME EndFlush(t) PROVE pc'[t] = "idle" /\ \A u \in Tasks \ {t} : pc'[u] = pc[u]
    BY <1>4 DEF EndFlush, TypeOK
  <1>5. CASE FlushFails(t) \/ Purify(t) \/ PurifyPanics(t)
    BY <1>3, <1>4, <1>5 DEF FlushFails, Purify, PurifyPanics, callVars, historyVars
  <1>6. ASSUME NEW ks \in SUBSET Keys, BeginFlush(t, ks)
        PROVE  PlacesInv'
    <2>1. pc'[t] \in {"observing", "writing"} /\ \A u \in Tasks \ {t} : pc'[u] = pc[u]
      BY <1>6 DEF BeginFlush, TypeOK
    <2>. QED
      BY <1>3, <1>6, <2>1 DEF BeginFlush, callVars, historyVars
  <1>7. ASSUME NEW k \in Keys, BeginFlushOne(t, k) \/ NextKey(t, k)
        PROVE  PlacesInv'
    <2>1. pc'[t] \notin {"locking", "dc"} /\ \A u \in Tasks \ {t} : pc'[u] = pc[u]
      BY <1>7 DEF BeginFlushOne, NextKey, TypeOK
    <2>. QED
      BY <1>3, <1>7, <2>1 DEF BeginFlushOne, NextKey, callVars, historyVars
  <1>8. CASE ResetIterator(t) \/ FlushOneLock(t) \/ LeaveUnconfirmed(t)
    <2>1. pc'[t] \notin {"locking", "dc"} /\ \A u \in Tasks \ {t} : pc'[u] = pc[u]
      BY <1>8 DEF ResetIterator, FlushOneLock, LeaveUnconfirmed, TypeOK
    <2>. QED
      BY <1>3, <1>8, <2>1 DEF ResetIterator, FlushOneLock, LeaveUnconfirmed, callVars, historyVars
  <1>. QED
    BY <1>1, <1>2, <1>5, <1>6, <1>7, <1>8 DEF Flush, FlushStep

LEMMA PlacesInvariant == Spec => []PlacesInv
  <1>1. Init => PlacesInv
    BY DEF Init, PlacesInv, OnePlace, UnusedAreNowhere, OneWriteEach, Hand
  <1>2. TypeOK /\ PlacesInv /\ [Next]_vars => PlacesInv'
    <2>1. ASSUME PlacesInv, UNCHANGED vars
          PROVE  PlacesInv'
      BY <2>1 DEF vars, callVars, iterVars, historyVars, PlacesInv, OnePlace, UnusedAreNowhere,
                  OneWriteEach, Hand, Unused
    <2>. QED
      BY <2>1, ComputePlaces, FlushPlaces DEF Next
  <1>. QED
    BY <1>1, <1>2, TypeCorrect, PTL DEF Spec

\* What is in the backend is gone from the pool and from the hands of the calls, whatever the
\* data controller answers and whatever fails: no flush submits it again.
THEOREM WritesAreWrittenOnce == Spec => []WrittenOnce
  <1>1. TypeOK /\ PlacesInv => WrittenOnce
    <2>. SUFFICES ASSUME TypeOK, PlacesInv, NEW k \in PrimaryKeys
                  PROVE  Pending(k) \cap durable = {}
      BY DEF WrittenOnce
    <2>1. pool[k] \in States \cup {NoState}
      BY DEF TypeOK, PrimaryKeys
    <2>2. \A u \in Users : prev[u] \cap durable = {}
      BY DEF PlacesInv, OnePlace, Hand, Tasks
    <2>3. \A s \in States : data[s] \cap durable = {}
      BY DEF PlacesInv, OnePlace
    <2>. QED
      BY <2>1, <2>2, <2>3 DEF Pending
  <1>. QED
    BY <1>1, TypeCorrect, PlacesInvariant, PTL

-----------------------------------------------------------------------------
(* What happens to the record of a row                                     *)

\* The pool's record of a row that was not dropped changes when there is none, or when a
\* flush removes it: then it is empty and nobody else refers to it.
LEMMA RecordOfRow ==
  ASSUME IInv, [Next]_vars, NEW k \in PrimaryKeys \ dropped, pool'[k] # pool[k]
  PROVE  \/ pool[k] = NoState
         \/ /\ pool'[k] = NoState
            /\ data[pool[k]] = {}
            /\ \A t \in Tasks : ref[t] # pool[k]
  <1>. USE DEF IInv
  <1>1. k \in Keys /\ PrimaryOf[k] = k
    BY DEF PrimaryKeys
  <1>2. ASSUME NEW t \in Users, Compute(t)
        PROVE  pool[k] = NoState
    <2>. t \in Tasks
      BY DEF Tasks
    <2>1. ASSUME NEW kd \in OpKinds, NEW j \in Keys, NEW ws \in SUBSET Writes, NEW s \in States,
                 CreateUpdateState(t, kd, j, ws, s)
          PROVE  pool[k] = NoState
      BY <1>1, <2>1 DEF CreateUpdateState, TypeOK
    <2>2. CASE Reinsert(t)
      <3>1. pc[t] \in Calling /\ pool' = [pool EXCEPT ![job[t].key] = ref[t]]
        BY <2>2 DEF Reinsert, Calling
      <3>2. job[t].key = k => pool[k] = ref[t]
        BY <3>1 DEF CallsArePooled
      <3>. QED
        BY <1>1, <3>1, <3>2 DEF TypeOK
    <2>3. CASE ReinsertToDrop(t) \/ DropUpdate(t)
      <3>1. job[t].key # k
        BY <2>3 DEF ReinsertToDrop, DropUpdate, Shape
      <3>2. \E s : pool' = [pool EXCEPT ![job[t].key] = s]
        BY <2>3 DEF ReinsertToDrop, DropUpdate
      <3>. QED
        BY <1>1, <3>1, <3>2 DEF TypeOK
    <2>4. ASSUME pool' = pool
          PROVE  FALSE
      BY <2>4
    <2>. QED
      BY <1>2, <2>1, <2>2, <2>3, <2>4
      DEF Compute, FetchUpdateState, LockUpdate, DcRespond, DcFail, ReinsertToDrop, DropUpdate
  <1>3. ASSUME NEW t \in Flushers, Flush(t)
        PROVE  /\ pool'[k] = NoState
               /\ pool[k] # NoState => data[pool[k]] = {} /\ \A u \in Tasks : ref[u] # pool[k]
    <2>. t \in Tasks
      BY DEF Tasks
    <2>1. Purify(t) \/ PurifyPanics(t)
      BY <1>3 DEF Flush, FlushStep, BeginFlush, BeginFlushOne, NextKey, ResetIterator, FlushOneLock,
                  ConfirmItem, Commit, LeaveUnconfirmed, FlushFails
    <2>2. pool'[k] = NoState /\ \E g \in held[t] : g[1] = k /\ Removable(g)
      BY <1>1, <2>1 DEF Purify, PurifyPanics, Keyed
    <2>3. PICK g \in held[t] : g[1] = k /\ Removable(g)
      BY <2>2
    <2>4. pool[k] = g[2]
      BY <1>1, <2>3 DEF GuardsArePooled, Kept
    <2>. QED
      BY <2>2, <2>3, <2>4 DEF Removable, Shared
  <1>4. CASE UNCHANGED vars
    BY <1>4 DEF vars
  <1>. QED
    BY <1>2, <1>3, <1>4 DEF Next

\* The pool lets go of the record of a row only when it is written and no call refers to it.
THEOREM RecordsAreReleasedWhenWritten == Spec => ReleasedWhenWritten
  <1>1. IInv /\ [Next]_vars =>
          [\A k \in PrimaryKeys \ dropped :
             pool[k] # NoState /\ pool'[k] # pool[k] =>
               data[pool[k]] = {} /\ \A t \in Users : ref[t] # pool[k]]_vars
    BY RecordOfRow DEF Tasks
  <1>. QED
    BY <1>1, Inductive, PTL DEF Spec, ReleasedWhenWritten

-----------------------------------------------------------------------------
(* The contract of WriteBehind                                             *)

\* A data controller that never answers with Drop drops nothing.
LEMMA NothingDropped ==
  ASSUME IInv, ~Immutable
  PROVE  dropped = {} /\ \A t \in Tasks : pc[t] \notin {"reinsertdrop", "drop"}
  BY DEF IInv, DropsAreAnswers, Shape

\* A step of the pool that leaves what is pending for every row is none of the contract.
LEMMA Stutters ==
  ASSUME \A p \in PrimaryKeys : Pending(p)' = Pending(p), UNCHANGED <<durable, forsaken>>
  PROVE  UNCHANGED WB!vars
  BY DEF WB!vars

\* What is pending for a row, write by write.
IsPending(p, w) ==
  /\ pool[p] # NoState
  /\ w \in data[pool[p]] \/ \E u \in Users : ref[u] = pool[p] /\ w \in prev[u]

LEMMA PendingSays ==
  ASSUME NEW p, NEW w
  PROVE  /\ w \in Pending(p) <=> IsPending(p, w)
         /\ w \in Pending(p)' <=> IsPending(p, w)'
  BY DEF Pending, IsPending

LEMMA SamePending ==
  ASSUME NEW p, \A w : IsPending(p, w)' <=> IsPending(p, w)
  PROVE  Pending(p)' = Pending(p)
  <1>1. \A w : w \in Pending(p)' <=> w \in Pending(p)
    BY PendingSays
  <1>. QED
    BY <1>1 DEF Pending

\* Nothing moves: a record is looked up, locked by a flush, put back, or removed when empty.
LEMMA QuietStep ==
  ASSUME ~Immutable, IInv, [Next]_vars,
         UNCHANGED <<data, prev, durable, forsaken>>,
         \A u \in Users : prev[u] # {} => ref'[u] = ref[u],
         \A p \in PrimaryKeys : pool'[p] \in {pool[p], NoState}
  PROVE  UNCHANGED WB!vars
  <1>. SUFFICES ASSUME NEW p \in PrimaryKeys
                PROVE  Pending(p)' = Pending(p)
    BY Stutters
  <1>1. CASE pool'[p] = pool[p]
    BY <1>1, SamePending DEF IsPending
  <1>2. CASE pool'[p] # pool[p]
    <2>1. pool'[p] = NoState /\ pool[p] # NoState
      BY <1>2
    <2>2. data[pool[p]] = {} /\ \A t \in Tasks : ref[t] # pool[p]
      BY <1>2, <2>1, NothingDropped, RecordOfRow
    <2>3. Pending(p) = {}
      BY <2>2 DEF Pending, Tasks
    <2>. QED
      BY <2>1, <2>3 DEF Pending
  <1>. QED
    BY <1>1, <1>2

\* A new record has nothing in it.
LEMMA CreateStutters ==
  ASSUME IInv, NEW t \in Users, NEW kd \in OpKinds, NEW k \in Keys, NEW ws \in SUBSET Writes,
         NEW s0 \in States, CreateUpdateState(t, kd, k, ws, s0)
  PROVE  UNCHANGED WB!vars
  <1>. USE DEF IInv
  <1>. t \in Tasks
    BY DEF Tasks
  <1>1. /\ pool' = [pool EXCEPT ![k] = s0] /\ data' = [data EXCEPT ![s0] = {}]
        /\ ref' = [ref EXCEPT ![t] = s0]
        /\ pool[PrimaryOf[k]] = NoState /\ pc[t] = "idle"
        /\ UNCHANGED <<prev, durable, forsaken>>
        /\ \A j \in Keys : pool[j] # s0
        /\ \A u \in Tasks : ref[u] # s0
    BY DEF CreateUpdateState, Request, Fresh
  <1>2. prev[t] = {}
    BY <1>1 DEF Shape
  <1>. SUFFICES ASSUME NEW p \in PrimaryKeys
                PROVE  Pending(p)' = Pending(p)
    BY <1>1, Stutters
  <1>3. p \in Keys /\ PrimaryOf[p] = p
    BY DEF PrimaryKeys
  <1>4. CASE p = k
    <2>1. pool[p] = NoState /\ pool'[p] = s0 /\ data'[s0] = {} /\ s0 # NoState
      BY <1>1, <1>3, <1>4, NullsAssumption DEF TypeOK
    <2>2. \A u \in Users : ref'[u] = s0 => prev'[u] = {}
      BY <1>1, <1>2 DEF TypeOK, Tasks
    <2>. QED
      BY <2>1, <2>2, SamePending DEF IsPending
  <1>5. CASE p # k
    <2>1. pool'[p] = pool[p] /\ (pool[p] # NoState => data'[pool[p]] = data[pool[p]])
      BY <1>1, <1>3, <1>5 DEF TypeOK
    <2>2. \A u \in Users \ {t} : ref'[u] = ref[u]
      BY <1>1 DEF TypeOK, Tasks
    <2>. QED
      BY <1>1, <1>2, <2>1, <2>2, SamePending DEF IsPending
  <1>. QED
    BY <1>4, <1>5

\* What on_change and on_access take out of the record is still pending.
LEMMA LockStutters ==
  ASSUME IInv, NEW t \in Users, LockUpdate(t)
  PROVE  UNCHANGED WB!vars
  <1>. USE DEF IInv
  <1>. t \in Tasks
    BY DEF Tasks
  <1>. DEFINE s0 == ref[t]
  <1>1. /\ pc[t] = "locking" /\ s0 \in States
        /\ UNCHANGED <<pool, ref, durable, forsaken>>
        /\ \A s \in States \ {s0} : data'[s] = data[s]
        /\ \A u \in Tasks \ {t} : prev'[u] = prev[u]
        /\ \/ prev'[t] = data[s0] /\ data'[s0] = {}
           \/ prev'[t] = prev[t] /\ data'[s0] = data[s0]
    BY DEF LockUpdate, historyVars, TypeOK, Calling
  <1>2. prev[t] = {}
    BY <1>1 DEF Shape
  <1>. SUFFICES ASSUME NEW p \in PrimaryKeys
                PROVE  Pending(p)' = Pending(p)
    BY <1>1, Stutters
  <1>3. pool[p] \in States \cup {NoState}
    BY DEF TypeOK, PrimaryKeys
  <1>4. CASE pool[p] = s0
    <2>1. data'[s0] \cup prev'[t] = data[s0] \cup prev[t]
      BY <1>1, <1>2
    <2>2. \A u \in Users \ {t} : prev'[u] = prev[u]
      BY <1>1 DEF Tasks
    <2>. QED
      BY <1>1, <1>4, <2>1, <2>2, NullsAssumption, SamePending DEF IsPending
  <1>5. CASE pool[p] # s0
    <2>1. \A u \in Users : ref[u] = pool[p] => prev'[u] = prev[u]
      BY <1>1, <1>5 DEF Tasks
    <2>2. pool[p] # NoState => data'[pool[p]] = data[pool[p]]
      BY <1>1, <1>3, <1>5
    <2>. QED
      BY <1>1, <2>1, <2>2, SamePending DEF IsPending
  <1>. QED
    BY <1>4, <1>5

\* The data controller's response is merged with what is pending for the row, or replaces it.
LEMMA RespondImplements ==
  ASSUME ~Immutable, IInv, PlacesInv, NEW t \in Users, DcRespond(t),
         NEW s0, s0 = ref[t], NEW k0, k0 = job[t].key
  PROVE  [WB!Next]_WB!vars
  <1>. USE DEF IInv
  <1>. t \in Tasks
    BY DEF Tasks
  <1>1. /\ pc[t] = "dc" /\ s0 \in States /\ s0 # NoState /\ k0 \in Keys
        /\ UNCHANGED <<pool, ref, durable, forsaken>>
        /\ \A s \in States \ {s0} : data'[s] = data[s]
        /\ data'[s0] = Response(t)
        /\ prev'[t] = {} /\ \A u \in Tasks \ {t} : prev'[u] = prev[u]
    BY NullsAssumption DEF DcRespond, TypeOK, Calling, Job
  <1>2. \A u \in Users \ {t} : ref[u] = s0 => prev[u] = {}
    BY <1>1 DEF Shape, Locks, Tasks
  <1>3. ASSUME NEW p \in PrimaryKeys, pool[p] # s0
        PROVE  Pending(p)' = Pending(p)
    <2>1. pool[p] \in States \cup {NoState}
      BY DEF TypeOK, PrimaryKeys
    <2>2. pool[p] # NoState => data'[pool[p]] = data[pool[p]]
      BY <1>1, <1>3, <2>1
    <2>3. \A u \in Users : ref[u] = pool[p] => prev'[u] = prev[u]
      BY <1>1, <1>3 DEF Tasks
    <2>. QED
      BY <1>1, <2>2, <2>3, SamePending DEF IsPending
  <1>4. ASSUME NEW p \in PrimaryKeys, pool[p] = s0, NEW w
        PROVE  /\ w \in Pending(p)' <=> w \in Response(t)
               /\ w \in Pending(p) <=> w \in data[s0] \/ w \in prev[t]
    <2>1. \A u \in Users \ {t} : ref[u] = s0 => prev'[u] = {}
      BY <1>1, <1>2 DEF Tasks
    <2>. QED
      BY <1>1, <1>2, <1>4, <2>1, PendingSays DEF IsPending
  <1>5. Takes(job[t].kind) => data[s0] = {}
    BY <1>1 DEF Locks
  <1>6. IF job[t].kind = "access" THEN job[t].writes = {} ELSE \E w \in Writes : job[t].writes = {w}
    BY <1>1 DEF PlacesInv, OneWriteEach
  <1>7. CASE job[t].kind = "access"
    <2>1. Response(t) = prev[t] /\ data[s0] = {}
      BY <1>5, <1>6, <1>7 DEF Response, Takes
    <2>2. ASSUME NEW p \in PrimaryKeys, pool[p] = s0
          PROVE  Pending(p)' = Pending(p)
      <3>1. \A w : w \in Pending(p)' <=> w \in Pending(p)
        BY <1>4, <2>1, <2>2
      <3>. QED
        BY <3>1, PendingSays, SamePending
    <2>. QED
      BY <1>1, <1>3, <2>2, Stutters
  <1>8. CASE job[t].kind # "access"
    <2>1. PICK w \in Writes : job[t].writes = {w}
      BY <1>6, <1>8
    <2>2. w \notin durable
      BY <1>1, <2>1 DEF PlacesInv, OnePlace, Hand
    <2>3. k0 \in PrimaryKeys /\ pool[k0] = s0
      BY <1>1, <1>8, NothingDropped DEF JobShape, CallsArePooled, Calling
    <2>4. \A p \in PrimaryKeys \ {k0} : pool[p] # s0
      BY <1>1, <2>3 DEF RecordsServeOneRow, OneRow, Names, PrimaryKeys
    <2>5. \A p \in PrimaryKeys \ {k0} : Pending(p)' = Pending(p)
      BY <1>3, <2>4
    <2>6. \A x : /\ x \in Pending(k0)' <=> x \in Response(t)
                 /\ x \in Pending(k0) <=> x \in data[s0] \/ x \in prev[t]
      <3>. TAKE x
      <3>. QED
        BY <1>4, <2>3
    <2>7. CASE Takes(job[t].kind)
      <3>1. Response(t) = prev[t] \cup {w} /\ data[s0] = {}
        BY <1>5, <2>1, <2>7 DEF Response
      <3>2. Pending(k0)' = Pending(k0) \cup {w}
        BY <2>6, <3>1
      <3>3. [p \in PrimaryKeys |-> Pending(p)]'
              = [[p \in PrimaryKeys |-> Pending(p)] EXCEPT ![k0] = @ \cup {w}]
        BY <2>3, <2>5, <3>2
      <3>4. WB!Merge(k0, w)
        BY <1>1, <2>2, <3>3 DEF WB!Merge
      <3>. QED
        BY <2>3, <3>4 DEF WB!Next
    <2>8. CASE ~Takes(job[t].kind)
      <3>1. Response(t) = {w}
        BY <2>1, <2>8 DEF Response
      <3>2. Pending(k0)' = {w}
        BY <2>6, <3>1
      <3>3. [p \in PrimaryKeys |-> Pending(p)]'
              = [[p \in PrimaryKeys |-> Pending(p)] EXCEPT ![k0] = {w}]
        BY <2>3, <2>5, <3>2
      <3>4. WB!Replace(k0, w)
        BY <1>1, <2>2, <3>3 DEF WB!Replace
      <3>. QED
        BY <2>3, <3>4 DEF WB!Next
    <2>. QED
      BY <2>7, <2>8
  <1>. QED
    BY <1>7, <1>8

\* The guards of an iterator are emptied into the backend: all that is pending for their rows
\* becomes durable.
LEMMA EmptyingImplements ==
  ASSUME ~Immutable, IInv, NEW t \in Flushers, pc[t] = "writing", NEW gs \in SUBSET held[t],
         data' = Emptied(gs), durable' = durable \cup Contents(gs),
         UNCHANGED <<pool, ref, prev, forsaken>>
  PROVE  WB!Next
  <1>. USE DEF IInv
  <1>. t \in Tasks
    BY DEF Tasks
  <1>. DEFINE rs == {PrimaryOf[g[1]] : g \in gs}
  <1>1. \A g \in gs : /\ g[1] \in Keys /\ g[2] \in States /\ PrimaryOf[g[1]] \in PrimaryKeys
                      /\ pool[PrimaryOf[g[1]]] = g[2] /\ holder[g[2]] = t
    BY RowKeys, NothingDropped DEF TypeOK, Guard, GuardsArePooled, Kept, Locks
  <1>2. \A g \in gs : \A u \in Users : ref[u] = g[2] => prev[u] = {}
    BY <1>1 DEF Shape, Locks, Tasks
  <1>3. ASSUME NEW g \in gs
        PROVE  /\ Pending(PrimaryOf[g[1]]) = data[g[2]]
               /\ Pending(PrimaryOf[g[1]])' = {}
    <2>1. data'[g[2]] = {}
      BY <1>1 DEF Emptied, Guarded
    <2>2. \A w : /\ w \in Pending(PrimaryOf[g[1]]) <=> w \in data[g[2]]
                 /\ ~(w \in Pending(PrimaryOf[g[1]])')
      BY <1>1, <1>2, <2>1, NullsAssumption, PendingSays DEF IsPending
    <2>3. Pending(PrimaryOf[g[1]]) = data[g[2]]
      BY <2>2
    <2>4. Pending(PrimaryOf[g[1]])' = {}
      BY <2>2
    <2>. QED
      BY <2>3, <2>4
  <1>4. ASSUME NEW p \in PrimaryKeys \ rs
        PROVE  Pending(p)' = Pending(p)
    <2>1. ASSUME NEW g \in gs, pool[p] = g[2]
          PROVE  FALSE
      <3>1. Names(p, g[2]) /\ Names(PrimaryOf[g[1]], g[2])
        BY <1>1, <2>1 DEF Names
      <3>2. PrimaryOf[p] = p /\ PrimaryOf[PrimaryOf[g[1]]] = PrimaryOf[g[1]]
        BY <1>1 DEF PrimaryKeys
      <3>3. p = PrimaryOf[g[1]]
        BY <1>1, <3>1, <3>2 DEF RecordsServeOneRow, OneRow, PrimaryKeys
      <3>. QED
        BY <3>3
    <2>2. pool[p] \in States \cup {NoState}
      BY DEF TypeOK, PrimaryKeys
    <2>3. pool[p] # NoState => data'[pool[p]] = data[pool[p]]
      BY <2>1, <2>2 DEF Emptied, Guarded
    <2>. QED
      BY <2>3, SamePending DEF IsPending
  <1>5. rs \in SUBSET PrimaryKeys
    BY <1>1
  <1>6. [p \in PrimaryKeys |-> Pending(p)]' =
          [p \in PrimaryKeys |-> IF p \in rs THEN {} ELSE Pending(p)]
    BY <1>3, <1>4
  <1>7. durable' = durable \cup UNION {[p \in PrimaryKeys |-> Pending(p)][r] : r \in rs}
    <2>1. \A w : w \in Contents(gs) <=> \E g \in gs : w \in data[g[2]]
      BY DEF Contents, Guarded
    <2>2. \A w : w \in UNION {[p \in PrimaryKeys |-> Pending(p)][r] : r \in rs} <=>
                  \E g \in gs : w \in Pending(PrimaryOf[g[1]])
      BY <1>5
    <2>3. \A w : \A g \in gs : w \in data[g[2]] <=> w \in Pending(PrimaryOf[g[1]])
      BY <1>3
    <2>4. \A w : w \in Contents(gs) <=> w \in UNION {[p \in PrimaryKeys |-> Pending(p)][r] : r \in rs}
      BY <2>1, <2>2, <2>3
    <2>. QED
      BY <2>4
  <1>8. WB!WriteBack(rs)
    BY <1>6, <1>7 DEF WB!WriteBack
  <1>. QED
    BY <1>5, <1>8 DEF WB!Next

\* A call that fails takes what is pending for its row with it, if it has taken it out of the
\* record.
LEMMA FailForsakes ==
  ASSUME ~Immutable, IInv, NEW t \in Users, DcFail(t),
         NEW s0, s0 = ref[t], NEW r0, r0 = PrimaryOf[job[t].key]
  PROVE  [WB!Next]_WB!vars
  <1>. USE DEF IInv
  <1>. t \in Tasks
    BY DEF Tasks
  <1>1. /\ pc[t] = "dc" /\ s0 \in States /\ s0 # NoState /\ job[t].key \in Keys
        /\ UNCHANGED <<pool, data, durable>>
        /\ forsaken' = forsaken \cup prev[t]
        /\ prev'[t] = {} /\ ref'[t] = NoState
        /\ \A u \in Tasks \ {t} : prev'[u] = prev[u] /\ ref'[u] = ref[u]
    BY NullsAssumption DEF DcFail, TypeOK, Calling, Job
  <1>2. \A p : pool[p] # s0 => Pending(p)' = Pending(p)
    <2>. SUFFICES ASSUME NEW p, pool[p] # s0
                  PROVE  Pending(p)' = Pending(p)
      OBVIOUS
    <2>1. ASSUME NEW w
          PROVE  IsPending(p, w)' <=> IsPending(p, w)
      BY <1>1 DEF IsPending, Tasks
    <2>. QED
      BY <2>1, SamePending
  <1>3. CASE prev[t] = {}
    <2>1. ASSUME NEW p \in PrimaryKeys
          PROVE  Pending(p)' = Pending(p)
      <3>1. ASSUME NEW w
            PROVE  IsPending(p, w)' <=> IsPending(p, w)
        BY <1>1, <1>3 DEF IsPending, Tasks
      <3>. QED
        BY <3>1, SamePending
    <2>2. forsaken' = forsaken
      BY <1>1, <1>3
    <2>. QED
      BY <1>1, <2>1, <2>2, Stutters
  <1>4. CASE prev[t] # {}
    <2>1. /\ Loaded(s0) /\ Names(job[t].key, s0)
          /\ data[s0] = {}
      BY <1>1, <1>4 DEF Loaded, Names, RefersTo, Calling, Shape, Locks
    <2>2. pool[r0] = s0 /\ r0 \in PrimaryKeys
      BY <1>1, <2>1, NothingDropped, RowKeys DEF LoadedIsPooled, Kept
    <2>3. \A p \in PrimaryKeys \ {r0} : pool[p] # s0
      BY <1>1, <2>2 DEF RecordsServeOneRow, OneRow, Names, PrimaryKeys
    <2>4. \A u \in Users \ {t} : ref[u] = s0 => prev[u] = {}
      BY <1>1 DEF Shape, Locks, Tasks
    <2>5. Pending(r0) = prev[t] /\ Pending(r0)' = {}
      <3>1. ASSUME NEW w
            PROVE  (IsPending(r0, w) <=> w \in prev[t]) /\ ~IsPending(r0, w)'
        BY <1>1, <2>1, <2>2, <2>4 DEF IsPending, Tasks
      <3>2. \A w : (w \in Pending(r0) <=> w \in prev[t]) /\ w \notin Pending(r0)'
        BY <3>1, PendingSays
      <3>3. Pending(r0) = prev[t]
        BY <3>2
      <3>4. Pending(r0)' = {}
        BY <3>2
      <3>. QED
        BY <3>3, <3>4
    <2>6. [p \in PrimaryKeys |-> Pending(p)]'
            = [[p \in PrimaryKeys |-> Pending(p)] EXCEPT ![r0] = {}]
      <3>1. \A p \in PrimaryKeys \ {r0} : Pending(p)' = Pending(p)
        BY <1>2, <2>3
      <3>. QED
        BY <2>2, <2>5, <3>1
    <2>7. forsaken' = forsaken \cup [p \in PrimaryKeys |-> Pending(p)][r0]
      BY <1>1, <2>2, <2>5
    <2>8. WB!Forsake(r0)
      BY <1>1, <2>6, <2>7 DEF WB!Forsake
    <2>. QED
      BY <2>2, <2>8 DEF WB!Next
  <1>. QED
    BY <1>3, <1>4

\* Every other step of a call leaves what is pending.
LEMMA ComputeImplements ==
  ASSUME ~Immutable, IInv, PlacesInv, [Next]_vars, NEW t \in Users, Compute(t)
  PROVE  [WB!Next]_WB!vars
  <1>. USE DEF IInv
  <1>. t \in Tasks
    BY DEF Tasks
  <1>1. ASSUME NEW kd \in OpKinds, NEW k \in Keys, NEW ws \in SUBSET Writes, FetchUpdateState(t, kd, k, ws)
        PROVE  UNCHANGED WB!vars
    <2>1. /\ UNCHANGED <<pool, data, prev, durable, forsaken>>
          /\ pc[t] = "idle" /\ \A u \in Tasks \ {t} : ref'[u] = ref[u]
      BY <1>1 DEF FetchUpdateState, Request, TypeOK
    <2>2. prev[t] = {}
      BY <2>1 DEF Shape
    <2>. QED
      BY <2>1, <2>2, QuietStep DEF Tasks
  <1>2. CASE DcFail(t)
    BY <1>2, FailForsakes DEF IInv
  <1>3. CASE Reinsert(t)
    <2>1. /\ pc[t] = "reinsert" /\ pc[t] \in Calling
          /\ UNCHANGED <<data, prev, durable, forsaken>>
          /\ pool' = [pool EXCEPT ![job[t].key] = ref[t]]
          /\ \A u \in Tasks \ {t} : ref'[u] = ref[u]
      BY <1>3 DEF Reinsert, historyVars, Calling, TypeOK
    <2>2. prev[t] = {}
      BY <2>1 DEF Shape
    <2>3. \A p \in PrimaryKeys : pool'[p] = pool[p]
      BY <2>1, NothingDropped DEF CallsArePooled, PrimaryKeys, TypeOK
    <2>. QED
      BY <2>1, <2>2, <2>3, QuietStep DEF Tasks
  <1>4. pc[t] \notin {"reinsertdrop", "drop"}
    BY NothingDropped
  <1>. QED
    BY <1>1, <1>2, <1>3, <1>4, CreateStutters, LockStutters, RespondImplements
    DEF Compute, ReinsertToDrop, DropUpdate

\* Only confirm and confirm_all of an iterator make something durable.
LEMMA FlushImplements ==
  ASSUME ~Immutable, IInv, [Next]_vars, NEW t \in Flushers, Flush(t)
  PROVE  [WB!Next]_WB!vars
  <1>. USE DEF IInv
  <1>. t \in Tasks
    BY DEF Tasks
  <1>1. ASSUME NEW g \in Guard, ConfirmItem(t, g)
        PROVE  WB!Next
    <2>1. Contents({g}) = data[g[2]] /\ {g} \in SUBSET held[t]
      BY <1>1 DEF Contents, Guarded, ConfirmItem
    <2>. QED
      BY <1>1, <2>1, EmptyingImplements DEF ConfirmItem, callVars
  <1>2. CASE Commit(t)
    <2>1. held[t] \in SUBSET held[t]
      OBVIOUS
    <2>. QED
      BY <1>2, <2>1, EmptyingImplements DEF Commit, callVars
  <1>3. ASSUME UNCHANGED <<data, prev, durable, forsaken>>,
               \A u \in Tasks \ {t} : ref'[u] = ref[u],
               \A k \in PrimaryKeys : pool'[k] \in {pool[k], NoState}
        PROVE  UNCHANGED WB!vars
    <2>1. pc[t] # "dc"
      BY DEF Flush, FlushStep, BeginFlush, BeginFlushOne, NextKey, ResetIterator, FlushOneLock,
             ConfirmItem, Commit, LeaveUnconfirmed, FlushFails, Purify, PurifyPanics
    <2>2. prev[t] = {}
      BY <2>1 DEF Shape
    <2>. QED
      BY <1>3, <2>2, QuietStep DEF Tasks
  <1>4. EndFlush(t) => \A u \in Tasks \ {t} : ref'[u] = ref[u]
    BY DEF EndFlush, TypeOK
  <1>5. CASE FlushFails(t) \/ Purify(t) \/ PurifyPanics(t)
    <2>1. \A k \in PrimaryKeys : pool'[k] \in {pool[k], NoState}
      BY <1>5 DEF FlushFails, Purify, PurifyPanics, PrimaryKeys
    <2>. QED
      BY <1>3, <1>4, <1>5, <2>1 DEF FlushFails, Purify, PurifyPanics, callVars, historyVars
  <1>6. ASSUME NEW ks \in SUBSET Keys, BeginFlush(t, ks)
        PROVE  UNCHANGED WB!vars
    BY <1>3, <1>6 DEF BeginFlush, callVars, historyVars
  <1>7. ASSUME NEW k \in Keys, BeginFlushOne(t, k) \/ NextKey(t, k)
        PROVE  UNCHANGED WB!vars
    <2>1. \A u \in Tasks \ {t} : ref'[u] = ref[u]
      BY <1>7 DEF BeginFlushOne, NextKey, TypeOK
    <2>. QED
      BY <1>3, <1>7, <2>1 DEF BeginFlushOne, NextKey, callVars, historyVars
  <1>8. CASE ResetIterator(t) \/ FlushOneLock(t) \/ LeaveUnconfirmed(t)
    <2>1. \A u \in Tasks \ {t} : ref'[u] = ref[u]
      BY <1>8 DEF ResetIterator, FlushOneLock, LeaveUnconfirmed, TypeOK
    <2>. QED
      BY <1>3, <1>8, <2>1 DEF ResetIterator, FlushOneLock, LeaveUnconfirmed, callVars, historyVars
  <1>. QED
    BY <1>1, <1>2, <1>5, <1>6, <1>7, <1>8 DEF Flush, FlushStep

\* For a data controller that never answers with Drop, the pool, its records and its iterators
\* implement the write-behind contract: a write stays with its row until one write-back makes
\* it durable, a later write takes its place, or a failing modification takes it along.
THEOREM PoolImplementsWriteBehind ==
  ASSUME ~Immutable
  PROVE  Spec => Implements
  <1>1. Init => WB!Init
    <2>. SUFFICES ASSUME Init
                  PROVE  WB!Init
      OBVIOUS
    <2>1. \A p \in PrimaryKeys : Pending(p) = {}
      BY DEF Init, Pending, PrimaryKeys
    <2>. QED
      BY <2>1 DEF Init, WB!Init
  <1>2. IInv /\ PlacesInv /\ [Next]_vars => [WB!Next]_WB!vars
    <2>. SUFFICES ASSUME IInv, PlacesInv, [Next]_vars
                  PROVE  [WB!Next]_WB!vars
      OBVIOUS
    <2>1. CASE UNCHANGED vars
      <3>1. \A p \in PrimaryKeys : Pending(p)' = Pending(p)
        BY <2>1 DEF vars, callVars, Pending
      <3>. QED
        BY <2>1, <3>1, Stutters DEF vars, historyVars
    <2>. QED
      BY <2>1, ComputeImplements, FlushImplements DEF Next
  <1>. QED
    BY <1>1, <1>2, Inductive, PlacesInvariant, PTL DEF Spec, Implements, WB!Spec

=============================================================================
