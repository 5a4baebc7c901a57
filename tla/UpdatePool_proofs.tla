-------------------------- MODULE UpdatePool_proofs --------------------------
(***************************************************************************)
(* Theorems about UpdatePool, for any sets of keys, records, writes and    *)
(* tasks.                                                                  *)
(***************************************************************************)
EXTENDS UpdatePoolInv, TLAPS

-----------------------------------------------------------------------------
(* Type correctness                                                        *)

\* Releasing locks and emptying records stays within the types.
LEMMA HelperTypes ==
  ASSUME TypeOK, NEW gs \in SUBSET Guard
  PROVE  /\ Released(gs) \in [States -> Tasks \cup {Nobody}]
         /\ Emptied(gs) \in [States -> SUBSET Writes]
         /\ Contents(gs) \in SUBSET Writes
  BY DEF TypeOK, Released, Emptied, Contents, Guarded, Guard

\* What Request leaves of the types.
LEMMA RequestTypes ==
  ASSUME TypeOK, NEW t \in Tasks, NEW kd \in OpKinds, NEW k \in Keys,
         NEW ws \in SUBSET Writes, Request(t, kd, k, ws)
  PROVE  /\ job' \in [Tasks -> Job \cup {NoJob}]
         /\ origin' \in [Writes -> Kinds \cup {"unused"}]
         /\ pc' \in [Tasks -> PcValues]
         /\ pc' = [pc EXCEPT ![t] = "locking"]
         /\ job' = [job EXCEPT ![t] = [kind |-> kd, key |-> k, writes |-> ws]]
         /\ job'[t] # NoJob
  BY OptionsAssumption, NullsAssumption DEF TypeOK, Request, Job, PcValues, Calling

\* Only on_access is asked for a secondary key, and it modifies nothing.
LEMMA RequestKeys ==
  ASSUME NEW t, NEW kd, NEW k, NEW ws, Request(t, kd, k, ws)
  PROVE  /\ kd = "access" => ws = {}
         /\ k \notin PrimaryKeys => kd = "access"
  <1>1. CASE kd = "access"
    BY <1>1 DEF Request
  <1>2. CASE kd # "access"
    BY <1>2 DEF Request
  <1>. QED
    BY <1>1, <1>2

\* The end of a flush stays within the types.
LEMMA EndFlushTypes ==
  ASSUME TypeOK, NEW t \in Tasks, EndFlush(t)
  PROVE  /\ pc' \in [Tasks -> PcValues]
         /\ ref' \in [Tasks -> States \cup {NoState}]
         /\ listed' \in [Tasks -> SUBSET Keys]
         /\ todo' \in [Tasks -> SUBSET Keys]
         /\ held' \in [Tasks -> SUBSET Guard]
         /\ holder' \in [States -> Tasks \cup {Nobody}]
         /\ \A u \in Tasks : u # t => pc'[u] = pc[u] /\ ref'[u] = ref[u]
         /\ pc'[t] = "idle"
  <1>1. held[t] \in SUBSET Guard
    BY DEF TypeOK
  <1>2. holder' \in [States -> Tasks \cup {Nobody}]
    BY <1>1, HelperTypes DEF EndFlush
  <1>. QED
    BY <1>2 DEF TypeOK, EndFlush, PcValues

LEMMA ComputeTypes ==
  ASSUME TypeOK, NEW t \in Users, Compute(t)
  PROVE  TypeOK'
  <1>. t \in Tasks
    BY DEF Tasks
  <1>1. ASSUME NEW kd \in OpKinds, NEW k \in Keys, NEW ws \in SUBSET Writes,
               FetchUpdateState(t, kd, k, ws)
        PROVE  TypeOK'
    <2>1. Request(t, kd, k, ws) /\ pool[PrimaryOf[k]] \in States
      BY <1>1, KeysAssumption DEF FetchUpdateState, TypeOK
    <2>. QED
      BY <1>1, <2>1, RequestTypes, NullsAssumption
      DEF FetchUpdateState, TypeOK, iterVars, Calling
  <1>2. ASSUME NEW kd \in OpKinds, NEW k \in Keys, NEW ws \in SUBSET Writes, NEW s \in States,
               CreateUpdateState(t, kd, k, ws, s)
        PROVE  TypeOK'
    <2>1. Request(t, kd, k, ws)
      BY <1>2 DEF CreateUpdateState
    <2>. QED
      BY <1>2, <2>1, RequestTypes, NullsAssumption
      DEF CreateUpdateState, TypeOK, iterVars, Calling
  <1>3. CASE LockUpdate(t)
    <2>1. ref[t] \in States
      BY <1>3 DEF LockUpdate, TypeOK, Calling
    <2>. QED
      BY <1>3, <2>1 DEF LockUpdate, TypeOK, iterVars, historyVars, PcValues, Calling
  <1>4. CASE DcRespond(t)
    <2>1. ref[t] \in States /\ job[t] \in Job
      BY <1>4 DEF DcRespond, TypeOK, Calling
    <2>2. Response(t) \in SUBSET Writes /\ Accepted(t) \in SUBSET Writes
      BY <2>1 DEF Response, Accepted, TypeOK, Job
    <2>3. job[t].key \in Keys
      BY <2>1 DEF Job
    <2>. QED
      BY <1>4, <2>1, <2>2, <2>3 DEF DcRespond, TypeOK, iterVars, PcValues, Calling
  <1>5. CASE DcFail(t)
    <2>1. ref[t] \in States
      BY <1>5 DEF DcFail, TypeOK, Calling
    <2>. QED
      BY <1>5, <2>1 DEF DcFail, TypeOK, iterVars, historyVars, PcValues, Calling
  <1>6. CASE Reinsert(t)
    <2>1. ref[t] \in States /\ job[t].key \in Keys
      BY <1>6 DEF Reinsert, TypeOK, Calling, Job
    <2>. QED
      BY <1>6, <2>1 DEF Reinsert, TypeOK, iterVars, historyVars, PcValues, Calling
  <1>7. CASE ReinsertToDrop(t)
    <2>1. ref[t] \in States /\ job[t].key \in Keys
      BY <1>7 DEF ReinsertToDrop, TypeOK, Calling, Job
    <2>. QED
      BY <1>7, <2>1 DEF ReinsertToDrop, TypeOK, iterVars, callVars, historyVars, PcValues, Calling
  <1>8. CASE DropUpdate(t)
    BY <1>8 DEF DropUpdate, TypeOK, iterVars, historyVars, PcValues, Calling
  <1>. QED
    BY <1>1, <1>2, <1>3, <1>4, <1>5, <1>6, <1>7, <1>8 DEF Compute

LEMMA FlushTypes ==
  ASSUME TypeOK, NEW t \in Flushers, Flush(t)
  PROVE  TypeOK'
  <1>. t \in Tasks
    BY DEF Tasks
  <1>0. held[t] \in SUBSET Guard
    BY DEF TypeOK
  <1>1. ASSUME NEW ks \in SUBSET Keys, BeginFlush(t, ks)
        PROVE  TypeOK'
    BY <1>1 DEF BeginFlush, TypeOK, callVars, historyVars, PcValues, Calling
  <1>2. ASSUME NEW k \in Keys, BeginFlushOne(t, k)
        PROVE  TypeOK'
    BY <1>2 DEF BeginFlushOne, TypeOK, callVars, historyVars, PcValues, Calling
  <1>3. ASSUME NEW k \in Keys, NextKey(t, k)
        PROVE  TypeOK'
    <2>1. CASE CanTake(k)
      <3>1. pool[k] \in States /\ <<k, pool[k]>> \in Guard
        BY <2>1 DEF CanTake, TypeOK, Guard
      <3>2. held[t] \cup {<<k, pool[k]>>} \in SUBSET Guard
        BY <1>0, <3>1
      <3>3. held' = [held EXCEPT ![t] = held[t] \cup {<<k, pool[k]>>}]
        BY <1>3, <2>1 DEF NextKey
      <3>4. held' \in [Tasks -> SUBSET Guard]
        BY <3>2, <3>3 DEF TypeOK
      <3>. QED
        BY <1>3, <2>1, <3>1, <3>4 DEF NextKey, TypeOK, callVars, historyVars
    <2>2. CASE ~CanTake(k)
      BY <1>3, <2>2 DEF NextKey, TypeOK, callVars, historyVars
    <2>. QED
      BY <2>1, <2>2
  <1>4. CASE ResetIterator(t)
    BY <1>4, <1>0, HelperTypes DEF ResetIterator, TypeOK, callVars, historyVars, PcValues, Calling
  <1>5. CASE FlushOneLock(t)
    <2>1. ref[t] \in States
      BY <1>5 DEF FlushOneLock, TypeOK
    <2>2. listed[t] \X {ref[t]} \in SUBSET Guard
      BY <2>1 DEF TypeOK, Guard
    <2>3. CASE data[ref[t]] = {}
      BY <1>5, <2>3 DEF FlushOneLock, TypeOK, callVars, historyVars, PcValues, Calling
    <2>4. CASE data[ref[t]] # {}
      <3>1. held' \in [Tasks -> SUBSET Guard] /\ pc' = [pc EXCEPT ![t] = "writing"]
        BY <1>5, <2>2, <2>4 DEF FlushOneLock, TypeOK
      <3>2. UNCHANGED <<pool, data, callVars, ref, listed, todo, historyVars>>
            /\ holder' = [holder EXCEPT ![ref[t]] = t]
        BY <1>5, <2>4 DEF FlushOneLock
      <3>. QED
        BY <2>1, <3>1, <3>2 DEF TypeOK, callVars, historyVars, PcValues, Calling
    <2>. QED
      BY <2>3, <2>4
  <1>6. ASSUME NEW g \in Guard, ConfirmItem(t, g)
        PROVE  TypeOK'
    <2>1. /\ Released({g}) \in [States -> Tasks \cup {Nobody}]
          /\ Emptied({g}) \in [States -> SUBSET Writes]
          /\ data[g[2]] \in SUBSET Writes
      BY HelperTypes DEF Guard, TypeOK
    <2>. QED
      BY <1>6, <2>1 DEF ConfirmItem, TypeOK, callVars
  <1>7. CASE Commit(t)
    BY <1>7, <1>0, HelperTypes DEF Commit, TypeOK, callVars, iterVars, PcValues, Calling
  <1>8. CASE LeaveUnconfirmed(t)
    BY <1>8 DEF LeaveUnconfirmed, TypeOK, callVars, iterVars, historyVars, PcValues, Calling
  <1>9. CASE FlushFails(t)
    BY <1>9, EndFlushTypes DEF FlushFails, TypeOK, callVars, historyVars, Calling
  <1>10. CASE Purify(t)
    BY <1>10, EndFlushTypes DEF Purify, TypeOK, callVars, historyVars, Calling
  <1>11. CASE PurifyPanics(t)
    <2>1. panicked' \subseteq panicked \cup Keys
      BY <1>11, <1>0 DEF PurifyPanics, Keyed, Guard
    <2>2. \E gs \in SUBSET held[t] :
            pool' = [k \in Keys |-> IF k \in Keyed(gs) THEN NoState ELSE pool[k]]
      BY <1>11 DEF PurifyPanics
    <2>3. UNCHANGED <<data, job, prev, origin, live, durable, forsaken, dropped>> /\ EndFlush(t)
      BY <1>11 DEF PurifyPanics, callVars
    <2>. QED
      BY <2>1, <2>2, <2>3, EndFlushTypes DEF TypeOK, Calling
  <1>. QED
    BY <1>1, <1>2, <1>3, <1>4, <1>5, <1>6, <1>7, <1>8, <1>9, <1>10, <1>11 DEF Flush, FlushStep

LEMMA InitTypeOK == Init => TypeOK
  <1>. SUFFICES ASSUME Init
                PROVE  TypeOK
    OBVIOUS
  <1>1. /\ pool \in [Keys -> States \cup {NoState}]
        /\ data \in [States -> SUBSET Writes]
        /\ holder \in [States -> Tasks \cup {Nobody}]
        /\ live \in [Keys -> SUBSET Writes]
        /\ origin \in [Writes -> Kinds \cup {"unused"}]
    BY DEF Init
  <1>2. /\ job \in [Tasks -> Job \cup {NoJob}]
        /\ ref \in [Tasks -> States \cup {NoState}]
        /\ prev \in [Tasks -> SUBSET Writes]
        /\ listed \in [Tasks -> SUBSET Keys]
        /\ todo \in [Tasks -> SUBSET Keys]
        /\ held \in [Tasks -> SUBSET Guard]
    BY DEF Init
  <1>3. pc \in [Tasks -> PcValues] /\ \A t \in Tasks : pc[t] = "idle"
    BY DEF Init, PcValues
  <1>. QED
    BY <1>1, <1>2, <1>3 DEF Init, TypeOK, Calling

\* Every variable keeps its kind, and a task in a call keeps a record to work on
\* (get_update_state_and_compute, flush_one).
THEOREM TypeCorrect == Spec => []TypeOK
  <1>1. Init => TypeOK
    BY InitTypeOK
  <1>2. TypeOK /\ [Next]_vars => TypeOK'
    <2>. SUFFICES ASSUME TypeOK, [Next]_vars
                  PROVE  TypeOK'
      OBVIOUS
    <2>1. CASE Next
      BY <2>1, ComputeTypes, FlushTypes DEF Next
    <2>2. CASE UNCHANGED vars
      BY <2>2 DEF vars, callVars, iterVars, historyVars, TypeOK
    <2>. QED
      BY <2>1, <2>2
  <1>. QED
    BY <1>1, <1>2, PTL DEF Spec

-----------------------------------------------------------------------------
(* Who holds a lock                                                        *)

\* Dropping guards leaves the locks of the others as they are.
LEMMA ReleasedSays ==
  ASSUME TypeOK, NEW gs, holder' = Released(gs), NEW s \in States
  PROVE  holder'[s] = IF s \in Guarded(gs) THEN Nobody ELSE holder[s]
  BY DEF Released

LEMMA ComputeKeepsHolders ==
  ASSUME HolderInv, TypeOK', NEW t \in Users, Compute(t)
  PROVE  HolderInv'
  <1>. USE DEF HolderInv
  <1>. t \in Tasks
    BY DEF Tasks
  <1>1. /\ UNCHANGED <<held, listed>>
        /\ \A u \in Tasks \ {t} : pc'[u] = pc[u] /\ ref'[u] = ref[u]
        /\ pc[t] \in {"idle"} \cup Calling /\ pc'[t] \in {"idle"} \cup Calling
    <2>1. ASSUME NEW kd \in OpKinds, NEW k \in Keys, NEW ws \in SUBSET Writes,
                 \/ FetchUpdateState(t, kd, k, ws)
                 \/ \E r \in States : CreateUpdateState(t, kd, k, ws, r)
          PROVE  /\ UNCHANGED <<held, listed>>
                 /\ \A u \in Tasks \ {t} : pc'[u] = pc[u] /\ ref'[u] = ref[u]
                 /\ pc[t] \in {"idle"} \cup Calling /\ pc'[t] \in {"idle"} \cup Calling
      BY <2>1 DEF FetchUpdateState, CreateUpdateState, Request, iterVars, Calling, TypeOK
    <2>2. CASE LockUpdate(t) \/ DcRespond(t) \/ DcFail(t)
      BY <2>2 DEF LockUpdate, DcRespond, DcFail, iterVars, Calling, TypeOK
    <2>3. CASE Reinsert(t) \/ ReinsertToDrop(t) \/ DropUpdate(t)
      BY <2>3 DEF Reinsert, ReinsertToDrop, DropUpdate, iterVars, Calling, TypeOK
    <2>. QED
      BY <2>1, <2>2, <2>3 DEF Compute
  <1>2. GuardsAreInFlushes'
    BY <1>1 DEF GuardsAreInFlushes, Calling
  <1>3. held[t] = {}
    BY <1>1 DEF GuardsAreInFlushes, Calling
  <1>4. \A s \in States : holder[s] = t => pc[t] = "dc" /\ ref[t] = s
    BY <1>3 DEF HolderHasUse, Guarded
  <1>5. ASSUME NEW s \in States
        PROVE  /\ holder'[s] \in {holder[s], t, Nobody}
               /\ holder'[s] = t => pc'[t] = "dc" /\ ref'[t] = s
    <2>1. CASE LockUpdate(t)
      <3>1. /\ pc[t] = "locking" /\ pc'[t] = "dc" /\ ref' = ref
            /\ holder' = [holder EXCEPT ![ref[t]] = t]
        BY <2>1 DEF LockUpdate, TypeOK
      <3>. QED
        BY <1>4, <3>1 DEF TypeOK
    <2>2. CASE DcRespond(t) \/ DcFail(t)
      <3>1. holder' = [holder EXCEPT ![ref[t]] = Nobody]
        BY <2>2 DEF DcRespond, DcFail
      <3>. QED
        BY <1>4, <3>1, NullsAssumption DEF TypeOK
    <2>3. ASSUME pc[t] # "dc", holder' = holder
          PROVE  holder'[s] = holder[s] /\ holder'[s] # t
      BY <1>4, <2>3
    <2>4. ASSUME NEW kd \in OpKinds, NEW k \in Keys, NEW ws \in SUBSET Writes,
                 \/ FetchUpdateState(t, kd, k, ws)
                 \/ \E r \in States : CreateUpdateState(t, kd, k, ws, r)
          PROVE  pc[t] # "dc" /\ holder' = holder
      BY <2>4 DEF FetchUpdateState, CreateUpdateState, Request
    <2>5. CASE Reinsert(t) \/ ReinsertToDrop(t) \/ DropUpdate(t)
      BY <2>3, <2>5 DEF Reinsert, ReinsertToDrop, DropUpdate
    <2>. QED
      BY <2>1, <2>2, <2>3, <2>4, <2>5 DEF Compute
  <1>7. HolderHasUse'
    <2>. SUFFICES ASSUME NEW s \in States, NEW u \in Tasks, holder'[s] = u
                  PROVE  (pc'[u] = "dc" /\ ref'[u] = s) \/ s \in Guarded(held'[u])
      BY DEF HolderHasUse, Guarded
    <2>1. CASE u = t
      BY <1>5, <2>1
    <2>2. CASE u # t
      <3>1. holder[s] = u
        BY <1>5, <2>2, NullsAssumption
      <3>. QED
        BY <1>1, <2>2, <3>1 DEF HolderHasUse
    <2>. QED
      BY <2>1, <2>2
  <1>. QED
    BY <1>2, <1>7

LEMMA FlushKeepsHolders ==
  ASSUME HolderInv, TypeOK', NEW t \in Flushers, Flush(t)
  PROVE  HolderInv'
  <1>. USE DEF HolderInv
  <1>. t \in Tasks
    BY DEF Tasks
  <1>1. /\ \A u \in Tasks \ {t} :
             pc'[u] = pc[u] /\ ref'[u] = ref[u] /\ held'[u] = held[u] /\ listed'[u] = listed[u]
        /\ pc[t] # "dc"
        /\ held'[t] # {} => pc'[t] \in {"observing", "writing", "purify"}
        /\ pc'[t] = "flushlock" => listed'[t] # {}
    <2>1. CASE FlushFails(t) \/ Purify(t) \/ PurifyPanics(t)
      <3>1. EndFlush(t) /\ pc[t] # "dc"
        BY <2>1 DEF FlushFails, Purify, PurifyPanics
      <3>. QED
        BY <3>1 DEF EndFlush, TypeOK
    <2>2. ASSUME \/ \E ks \in SUBSET Keys : BeginFlush(t, ks)
                 \/ \E k \in Keys : BeginFlushOne(t, k)
          PROVE  /\ \A u \in Tasks \ {t} :
                      pc'[u] = pc[u] /\ ref'[u] = ref[u] /\ held'[u] = held[u] /\ listed'[u] = listed[u]
                 /\ pc[t] # "dc"
                 /\ held'[t] # {} => pc'[t] \in {"observing", "writing", "purify"}
                 /\ pc'[t] = "flushlock" => listed'[t] # {}
      <3>1. pc[t] = "idle" /\ held' = held /\ held[t] = {}
        BY <2>2 DEF BeginFlush, BeginFlushOne, GuardsAreInFlushes
      <3>2. CASE \E ks \in SUBSET Keys : BeginFlush(t, ks)
        BY <3>1, <3>2 DEF BeginFlush, callVars, TypeOK
      <3>3. CASE \E k \in Keys : BeginFlushOne(t, k)
        BY <3>1, <3>3 DEF BeginFlushOne, callVars, TypeOK
      <3>. QED
        BY <2>2, <3>2, <3>3
    <2>3. CASE \E k \in Keys : NextKey(t, k)
      BY <2>3 DEF NextKey, callVars, TypeOK, GuardsAreInFlushes
    <2>4. CASE ResetIterator(t) \/ Commit(t) \/ LeaveUnconfirmed(t)
      BY <2>4 DEF ResetIterator, Commit, LeaveUnconfirmed, callVars, iterVars, TypeOK, GuardsAreInFlushes
    <2>5. CASE FlushOneLock(t)
      BY <2>5 DEF FlushOneLock, callVars, TypeOK, GuardsAreInFlushes
    <2>6. CASE \E g \in Guard : ConfirmItem(t, g)
      BY <2>6 DEF ConfirmItem, callVars, TypeOK, GuardsAreInFlushes
    <2>. QED
      BY <2>1, <2>2, <2>3, <2>4, <2>5, <2>6 DEF Flush, FlushStep
  <1>3. GuardsAreInFlushes'
    BY <1>1 DEF GuardsAreInFlushes
  <1>4. \A s \in States : holder[s] = t => s \in Guarded(held[t])
    BY <1>1 DEF HolderHasUse
  <1>5. ASSUME NEW s \in States
        PROVE  /\ holder'[s] \in {holder[s], t, Nobody}
               /\ holder'[s] = t => s \in Guarded(held'[t])
    <2>1. CASE ResetIterator(t) \/ FlushFails(t) \/ Purify(t) \/ PurifyPanics(t)
      <3>1. holder' = Released(held[t])
        BY <2>1 DEF ResetIterator, FlushFails, Purify, PurifyPanics, EndFlush
      <3>. QED
        BY <1>4, <3>1, ReleasedSays, NullsAssumption
    <2>2. ASSUME NEW g \in Guard, ConfirmItem(t, g)
          PROVE  /\ holder'[s] \in {holder[s], Nobody}
                 /\ holder'[s] = t => s \in Guarded(held'[t])
      <3>1. holder' = Released({g}) /\ held'[t] = held[t] \ {g}
        BY <2>2 DEF ConfirmItem, TypeOK
      <3>2. holder'[s] = IF s = g[2] THEN Nobody ELSE holder[s]
        BY <3>1, ReleasedSays DEF Guarded
      <3>. QED
        BY <1>4, <3>1, <3>2, NullsAssumption DEF Guarded
    <2>3. ASSUME NEW k \in Keys, NextKey(t, k)
          PROVE  /\ holder'[s] \in {holder[s], t}
                 /\ holder'[s] = t => s \in Guarded(held'[t])
      <3>1. CASE CanTake(k)
        <4>1. /\ holder' = [holder EXCEPT ![pool[k]] = t]
              /\ held'[t] = held[t] \cup {<<k, pool[k]>>}
          BY <2>3, <3>1 DEF NextKey, TypeOK
        <4>2. <<k, pool[k]>> \in held'[t] /\ held[t] \subseteq held'[t]
          BY <4>1
        <4>3. pool[k] \in Guarded(held'[t]) /\ Guarded(held[t]) \subseteq Guarded(held'[t])
          BY <4>2 DEF Guarded
        <4>4. s = pool[k] \/ holder'[s] = holder[s]
          BY <4>1 DEF TypeOK
        <4>. QED
          BY <1>4, <4>1, <4>3, <4>4 DEF TypeOK
      <3>2. CASE ~CanTake(k)
        BY <1>4, <2>3, <3>2 DEF NextKey
      <3>. QED
        BY <3>1, <3>2
    <2>4. CASE FlushOneLock(t)
      <3>1. held[t] = {} /\ listed[t] # {}
        BY <2>4 DEF FlushOneLock, GuardsAreInFlushes
      <3>2. holder[s] # t
        BY <1>4, <3>1 DEF Guarded
      <3>3. CASE data[ref[t]] = {}
        BY <2>4, <3>2, <3>3 DEF FlushOneLock
      <3>4. CASE data[ref[t]] # {}
        <4>1. /\ holder' = [holder EXCEPT ![ref[t]] = t]
              /\ held'[t] = listed[t] \X {ref[t]}
          BY <2>4, <3>4 DEF FlushOneLock, TypeOK
        <4>2. PICK k : k \in listed[t]
          BY <3>1
        <4>3. <<k, ref[t]>> \in held'[t]
          BY <4>1, <4>2
        <4>4. ref[t] \in Guarded(held'[t])
          BY <4>3 DEF Guarded
        <4>. QED
          BY <3>2, <4>1, <4>4 DEF TypeOK
      <3>. QED
        BY <3>3, <3>4
    <2>5. CASE \/ \E ks \in SUBSET Keys : BeginFlush(t, ks)
               \/ \E k \in Keys : BeginFlushOne(t, k)
               \/ Commit(t) \/ LeaveUnconfirmed(t)
      BY <1>4, <2>5 DEF BeginFlush, BeginFlushOne, Commit, LeaveUnconfirmed, iterVars
    <2>. QED
      BY <2>1, <2>2, <2>3, <2>4, <2>5 DEF Flush, FlushStep
  <1>6. HolderHasUse'
    <2>. SUFFICES ASSUME NEW s \in States, NEW u \in Tasks, holder'[s] = u
                  PROVE  (pc'[u] = "dc" /\ ref'[u] = s) \/ s \in Guarded(held'[u])
      BY DEF HolderHasUse, Guarded
    <2>1. CASE u = t
      BY <1>5, <2>1
    <2>2. CASE u # t
      <3>1. holder[s] = u
        BY <1>5, <2>2, NullsAssumption
      <3>. QED
        BY <1>1, <2>2, <3>1 DEF HolderHasUse
    <2>. QED
      BY <2>1, <2>2
  <1>. QED
    BY <1>3, <1>6

LEMMA HolderInvariant == Spec => []HolderInv
  <1>1. Init => HolderInv
    <2>. SUFFICES ASSUME Init
                  PROVE  HolderInv
      OBVIOUS
    <2>1. HolderHasUse
      BY NullsAssumption DEF Init, HolderHasUse
    <2>2. GuardsAreInFlushes
      BY DEF Init, GuardsAreInFlushes
    <2>. QED
      BY <2>1, <2>2, InitTypeOK DEF HolderInv
  <1>2. HolderInv /\ TypeOK' /\ [Next]_vars => HolderInv'
    <2>. SUFFICES ASSUME HolderInv, TypeOK', [Next]_vars
                  PROVE  HolderInv'
      OBVIOUS
    <2>1. CASE UNCHANGED vars
      BY <2>1 DEF vars, callVars, iterVars, HolderInv, HolderHasUse, GuardsAreInFlushes, Guarded
    <2>. QED
      BY <2>1, ComputeKeepsHolders, FlushKeepsHolders DEF Next
  <1>. QED
    BY <1>1, <1>2, TypeCorrect, PTL DEF Spec

\* Whoever has the lock of a record waits for no other and gives it back when he is done,
\* for every data controller, backend and observer, and after every error or panic.
THEOREM LocksAreGivenBack == Spec => []HoldersDoNotWait
  <1>1. HolderInv => HoldersDoNotWait
    BY DEF HolderInv, HolderHasUse, GuardsAreInFlushes, HoldersDoNotWait, TypeOK, Guarded
  <1>. QED
    BY <1>1, HolderInvariant, PTL

=============================================================================
