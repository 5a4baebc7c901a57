-------------------------- MODULE UpdatePool_safety --------------------------
(***************************************************************************)
(* No accepted write is lost: IInv is an inductive invariant of            *)
(* UpdatePool. One lemma per group of actions, one step per part of it.    *)
(***************************************************************************)
EXTENDS UpdatePoolInv, UpdatePool_proofs

\* Every key is about one row, known by a primary key.
LEMMA RowKeys ==
  ASSUME NEW k \in Keys
  PROVE  PrimaryOf[k] \in PrimaryKeys /\ PrimaryOf[PrimaryOf[k]] = PrimaryOf[k]
  BY KeysAssumption DEF PrimaryKeys

\* A record keeps serving one row when no key is added to it.
LEMMA FewerNames ==
  ASSUME RecordsServeOneRow,
         \A s \in States, k \in Keys : Names(k, s)' => Names(k, s)
  PROVE  RecordsServeOneRow'
  BY DEF RecordsServeOneRow, OneRow

\* ... and the pool keeps the loaded ones when in addition its rows stay.
LEMMA FewerLoaded ==
  ASSUME LoadedIsPooled,
         \A s \in States, k \in Keys : Names(k, s)' => Names(k, s),
         \A s \in States : Loaded(s)' => Loaded(s),
         \A k \in PrimaryKeys \ dropped : pool'[k] = pool[k],
         dropped' = dropped
  PROVE  LoadedIsPooled'
  BY RowKeys DEF LoadedIsPooled, Kept

\* A step that begins no call keeps what is said of the calls in progress.
LEMMA NoNewCall ==
  ASSUME JobShape,
         \A u \in Tasks : pc'[u] \in Calling => pc[u] \in Calling /\ job'[u] = job[u]
  PROVE  JobShape'
  BY DEF JobShape

\* One that asks no data controller for another response drops nothing.
LEMMA NoNewDrop ==
  ASSUME DropsAreAnswers, dropped' = dropped
  PROVE  DropsAreAnswers'
  BY DEF DropsAreAnswers

-----------------------------------------------------------------------------
(* get_update_state_and_compute                                            *)

\* A new call on a secondary key modifies nothing.
LEMMA RequestKeeps ==
  ASSUME IInv, TypeOK', NEW t \in Users,
         NEW kd \in OpKinds, NEW k \in Keys, NEW ws \in SUBSET Writes,
         Request(t, kd, k, ws), dropped' = dropped
  PROVE  JobShape' /\ DropsAreAnswers'
  <1>. t \in Tasks
    BY DEF Tasks
  <1>. USE DEF IInv
  <1>1. /\ pc' = [pc EXCEPT ![t] = "locking"]
        /\ job' = [job EXCEPT ![t] = [kind |-> kd, key |-> k, writes |-> ws]]
    BY RequestTypes DEF Request
  <1>2. (kd = "access" => ws = {}) /\ (k \notin PrimaryKeys => kd = "access")
    BY RequestKeys
  <1>3. /\ pc'[t] = "locking" /\ job'[t].kind = kd /\ job'[t].key = k /\ job'[t].writes = ws
        /\ \A u \in Tasks : u # t => pc'[u] = pc[u] /\ job'[u] = job[u]
    BY <1>1 DEF TypeOK
  <1>4. JobShape'
    BY <1>2, <1>3 DEF JobShape
  <1>. QED
    BY <1>4, NoNewDrop

LEMMA FetchKeeps ==
  ASSUME IInv, TypeOK', NEW t \in Users,
         NEW kd \in OpKinds, NEW k \in Keys, NEW ws \in SUBSET Writes,
         FetchUpdateState(t, kd, k, ws)
  PROVE  IInv'
  <1>. t \in Tasks
    BY DEF Tasks
  <1>. USE DEF IInv
  <1>. DEFINE s0 == pool[PrimaryOf[k]]
  <1>1. /\ pc[t] = "idle" /\ pc' = [pc EXCEPT ![t] = "locking"]
        /\ job' = [job EXCEPT ![t] = [kind |-> kd, key |-> k, writes |-> ws]]
        /\ job'[t] # NoJob
        /\ ref' = [ref EXCEPT ![t] = s0]
        /\ s0 \in States
        /\ UNCHANGED <<pool, data, holder, prev, listed, held, live, durable, forsaken, dropped>>
    <2>1. Request(t, kd, k, ws) /\ s0 \in States
      BY KeysAssumption DEF FetchUpdateState, TypeOK
    <2>. QED
      BY <2>1, RequestTypes DEF FetchUpdateState, Request, iterVars
  <1>2. /\ ref[t] = NoState /\ prev[t] = {} /\ held[t] = {}
    BY <1>1 DEF Shape
  <1>3. \A s \in States, j \in Keys : Names(j, s)' => Names(j, s) \/ (s = s0 /\ j = k)
    BY <1>1 DEF Names, RefersTo, TypeOK, Calling
  <1>4. Names(PrimaryOf[k], s0)
    BY DEF Names
  <1>5. Shape'
    BY <1>1, <1>2 DEF Shape, TypeOK, Calling
  <1>6. JobShape' /\ DropsAreAnswers'
    BY <1>1, RequestKeeps DEF FetchUpdateState
  <1>7. Locks'
    BY <1>1, <1>2 DEF Locks, TypeOK
  <1>8. RecordsServeOneRow'
    BY <1>3, <1>4, RowKeys, KeysAssumption DEF RecordsServeOneRow, OneRow
  <1>9. \A s \in States : Loaded(s)' => Loaded(s)
    BY <1>1, <1>2 DEF Loaded, TypeOK
  <1>10. LoadedIsPooled'
    BY <1>1, <1>3, <1>9 DEF LoadedIsPooled, Kept
  <1>11. CallsArePooled'
    BY <1>1 DEF CallsArePooled, PrimaryKeys, TypeOK
  <1>12. GuardsArePooled'
    BY <1>1 DEF GuardsArePooled, Kept
  <1>13. NoLostUpdate'
    <2>1. \A p \in PrimaryKeys : Pending(p) \subseteq Pending(p)'
      BY <1>1, <1>2 DEF Pending, TypeOK, PrimaryKeys, Tasks
    <2>. QED
      BY <1>1, <2>1 DEF NoLostUpdate
  <1>. QED
    BY <1>5, <1>6, <1>7, <1>8, <1>10, <1>11, <1>12, <1>13

LEMMA CreateKeeps ==
  ASSUME IInv, TypeOK', NEW t \in Users,
         NEW kd \in OpKinds, NEW k \in Keys, NEW ws \in SUBSET Writes, NEW s0 \in States,
         CreateUpdateState(t, kd, k, ws, s0)
  PROVE  IInv'
  <1>. t \in Tasks
    BY DEF Tasks
  <1>. USE DEF IInv
  <1>1. /\ pc[t] = "idle" /\ pc' = [pc EXCEPT ![t] = "locking"]
        /\ job' = [job EXCEPT ![t] = [kind |-> kd, key |-> k, writes |-> ws]]
        /\ job'[t] # NoJob
        /\ ref' = [ref EXCEPT ![t] = s0]
        /\ pool' = [pool EXCEPT ![k] = s0]
        /\ data' = [data EXCEPT ![s0] = {}]
        /\ pool[PrimaryOf[k]] = NoState
        /\ UNCHANGED <<holder, prev, listed, held, live, durable, forsaken, dropped>>
    BY RequestTypes DEF CreateUpdateState, Request, iterVars
  <1>2. /\ ref[t] = NoState /\ prev[t] = {} /\ held[t] = {}
    BY <1>1 DEF Shape
  <1>3. /\ \A j \in Keys : pool[j] # s0 /\ ~Names(j, s0)
        /\ \A u \in Tasks : ref[u] # s0
        /\ holder[s0] = Nobody
    BY DEF CreateUpdateState, Fresh, Names, RefersTo
  <1>4. \A s \in States, j \in Keys : Names(j, s)' => Names(j, s) \/ (s = s0 /\ j = k)
    BY <1>1 DEF Names, RefersTo, TypeOK, Calling
  <1>5. \A s \in States : Loaded(s)' => Loaded(s) /\ s # s0
    BY <1>1, <1>2, <1>3 DEF Loaded, TypeOK
  <1>6. Shape'
    BY <1>1, <1>2 DEF Shape, TypeOK, Calling
  <1>7. JobShape' /\ DropsAreAnswers'
    BY <1>1, RequestKeeps DEF CreateUpdateState
  <1>8. Locks'
    <2>1. \A u \in Tasks : pc'[u] = "dc" => u # t /\ pc[u] = "dc" /\ ref'[u] = ref[u] /\ job'[u] = job[u]
      BY <1>1 DEF TypeOK
    <2>. QED
      BY <1>1, <1>2, <1>3, <2>1 DEF Locks, TypeOK
  <1>9. RecordsServeOneRow'
    BY <1>3, <1>4 DEF RecordsServeOneRow, OneRow
  <1>10. \A p \in PrimaryKeys : pool[p] # NoState => pool'[p] = pool[p]
    BY <1>1, KeysAssumption DEF PrimaryKeys, TypeOK
  <1>11. LoadedIsPooled'
    <2>. SUFFICES ASSUME NEW s \in States, NEW j \in Keys, Loaded(s)', Names(j, s)', Kept(j)
                  PROVE  pool'[PrimaryOf[j]] = s
      BY <1>1 DEF LoadedIsPooled, Kept
    <2>1. Loaded(s) /\ Names(j, s)
      BY <1>4, <1>5
    <2>2. pool[PrimaryOf[j]] = s
      BY <2>1 DEF LoadedIsPooled
    <2>. QED
      BY <1>10, <2>2, RowKeys, NullsAssumption
  <1>12. CallsArePooled'
    <2>. SUFFICES ASSUME NEW u \in Tasks, pc'[u] \in Calling, job'[u].key \in PrimaryKeys \ dropped
                  PROVE  pool'[job'[u].key] = ref'[u]
      BY <1>1 DEF CallsArePooled
    <2>1. CASE u = t
      BY <1>1, <2>1 DEF TypeOK, PrimaryKeys
    <2>2. CASE u # t
      <3>1. pc[u] \in Calling /\ job'[u] = job[u] /\ ref'[u] = ref[u] /\ ref[u] # NoState
        BY <1>1, <2>2 DEF TypeOK
      <3>2. pool[job[u].key] = ref[u]
        BY <3>1 DEF CallsArePooled
      <3>. QED
        BY <1>10, <3>1, <3>2
    <2>. QED
      BY <2>1, <2>2
  <1>13. GuardsArePooled'
    <2>. SUFFICES ASSUME NEW u \in Tasks, NEW g \in held[u], Kept(g[1])
                  PROVE  pool'[PrimaryOf[g[1]]] = g[2]
      BY <1>1 DEF GuardsArePooled, Kept
    <2>1. g[1] \in Keys /\ g[2] \in States
      BY DEF TypeOK, Guard
    <2>2. pool[PrimaryOf[g[1]]] = g[2]
      BY DEF GuardsArePooled
    <2>. QED
      BY <1>10, <2>1, <2>2, RowKeys, NullsAssumption
  <1>14. NoLostUpdate'
    <2>1. ASSUME NEW p \in PrimaryKeys
          PROVE  Pending(p) \subseteq Pending(p)'
      <3>1. CASE pool[p] = NoState
        BY <3>1 DEF Pending
      <3>2. CASE pool[p] # NoState
        <4>1. pool[p] \in States /\ pool'[p] = pool[p] /\ pool[p] # s0
          BY <1>3, <1>10, <3>2 DEF TypeOK, PrimaryKeys
        <4>2. data'[pool[p]] = data[pool[p]]
          BY <1>1, <4>1 DEF TypeOK
        <4>3. \A u \in Users : ref[u] = pool[p] => ref'[u] = pool[p]
          BY <1>1, <1>2, <3>2 DEF TypeOK, Tasks
        <4>. QED
          BY <1>1, <3>2, <4>1, <4>2, <4>3 DEF Pending
      <3>. QED
        BY <3>1, <3>2
    <2>. QED
      BY <1>1, <2>1 DEF NoLostUpdate
  <1>. QED
    BY <1>6, <1>7, <1>8, <1>9, <1>11, <1>12, <1>13, <1>14

LEMMA LockKeeps ==
  ASSUME IInv, TypeOK', NEW t \in Users, LockUpdate(t)
  PROVE  IInv'
  <1>. t \in Tasks
    BY DEF Tasks
  <1>. USE DEF IInv
  <1>. DEFINE s0 == ref[t]
  <1>1. /\ pc[t] = "locking" /\ pc' = [pc EXCEPT ![t] = "dc"]
        /\ s0 \in States
        /\ holder[s0] = Nobody /\ holder' = [holder EXCEPT ![s0] = t]
        /\ UNCHANGED <<pool, job, ref, listed, held, live, durable, forsaken, dropped>>
    BY DEF LockUpdate, iterVars, historyVars, TypeOK, Calling
  <1>2. prev[t] = {} /\ held[t] = {}
    BY <1>1 DEF Shape
  <1>3. /\ Takes(job[t].kind) => /\ prev' = [prev EXCEPT ![t] = data[s0]]
                                 /\ data' = [data EXCEPT ![s0] = {}]
        /\ ~Takes(job[t].kind) => prev' = prev /\ data' = data
    BY DEF LockUpdate
  <1>4. \A s \in States, j \in Keys : Names(j, s)' <=> Names(j, s)
    BY <1>1 DEF Names, RefersTo, TypeOK, Calling
  <1>5. \A s \in States : Loaded(s)' => Loaded(s)
    BY <1>1, <1>2, <1>3 DEF Loaded, TypeOK
  <1>6. Shape'
    BY <1>1, <1>2, <1>3 DEF Shape, TypeOK, Calling
  <1>7. JobShape' /\ DropsAreAnswers'
    BY <1>1, NoNewCall, NoNewDrop DEF TypeOK, Calling
  <1>8. Locks'
    <2>1. \A u \in Tasks : \A g \in held[u] : g[2] # s0
      BY <1>1, NullsAssumption DEF Locks
    <2>2. \A u \in Tasks : u # t /\ pc[u] = "dc" => ref[u] # s0 /\ ref[u] \in States
      BY <1>1, NullsAssumption DEF Locks, TypeOK, Calling
    <2>3. \A u \in Tasks : \A g \in held[u] : g[2] \in States
      BY DEF TypeOK, Guard
    <2>4. \A u \in Tasks :
            pc'[u] = "dc" => holder'[ref[u]] = u /\ (Takes(job[u].kind) => data'[ref[u]] = {})
      BY <1>1, <1>3, <2>2 DEF Locks, TypeOK
    <2>. QED
      BY <1>1, <2>1, <2>3, <2>4 DEF Locks, TypeOK
  <1>9. RecordsServeOneRow'
    BY <1>4, FewerNames
  <1>10. LoadedIsPooled'
    BY <1>1, <1>4, <1>5, FewerLoaded
  <1>11. CallsArePooled'
    BY <1>1 DEF CallsArePooled, TypeOK, Calling
  <1>12. GuardsArePooled'
    BY <1>1 DEF GuardsArePooled, Kept
  <1>13. NoLostUpdate'
    <2>1. ASSUME NEW p \in PrimaryKeys, pool[p] # NoState
          PROVE  Pending(p) \subseteq Pending(p)'
      <3>1. pool[p] \in States
        BY <2>1 DEF TypeOK, PrimaryKeys
      <3>2. CASE pool[p] # s0 \/ ~Takes(job[t].kind)
        BY <1>1, <1>2, <1>3, <2>1, <3>1, <3>2 DEF Pending, TypeOK, Tasks
      <3>3. CASE pool[p] = s0 /\ Takes(job[t].kind)
        <4>1. prev'[t] = data[s0] /\ \A u \in Users : u # t => prev'[u] = prev[u]
          BY <1>3, <3>3 DEF TypeOK, Tasks
        <4>. QED
          BY <1>1, <1>2, <2>1, <3>3, <4>1 DEF Pending
      <3>. QED
        BY <3>2, <3>3
    <2>2. \A p \in PrimaryKeys : Pending(p) \subseteq Pending(p)'
      BY <2>1 DEF Pending
    <2>. QED
      BY <1>1, <2>2 DEF NoLostUpdate
  <1>. QED
    BY <1>6, <1>7, <1>8, <1>9, <1>10, <1>11, <1>12, <1>13

LEMMA RespondKeeps ==
  ASSUME IInv, TypeOK', NEW t \in Users, DcRespond(t)
  PROVE  IInv'
  <1>. t \in Tasks
    BY DEF Tasks
  <1>. USE DEF IInv
  <1>. DEFINE s0 == ref[t]
              k0 == job[t].key
  <1>1. /\ pc[t] = "dc" /\ pc' = [pc EXCEPT ![t] = IF Collapses(t) THEN "reinsertdrop" ELSE "reinsert"]
        /\ dropped' = IF Collapses(t) THEN dropped \cup {k0} ELSE dropped
        /\ s0 \in States /\ k0 \in Keys /\ job[t] \in Job /\ job[t] # NoJob
        /\ data' = [data EXCEPT ![s0] = Response(t)]
        /\ prev' = [prev EXCEPT ![t] = {}]
        /\ holder' = [holder EXCEPT ![s0] = Nobody]
        /\ live' = [live EXCEPT ![k0] = Accepted(t)]
        /\ UNCHANGED <<pool, job, ref, listed, held, durable, forsaken>>
    BY DEF DcRespond, iterVars, TypeOK, Calling, Job
  <1>2. held[t] = {} /\ holder[s0] = t
    BY <1>1 DEF Shape, Locks
  <1>3. (job[t].kind = "access" => job[t].writes = {}) /\ (k0 \notin PrimaryKeys => job[t].kind = "access")
    BY <1>1 DEF JobShape, Calling
  <1>4. Takes(job[t].kind) => data[s0] = {}
    BY <1>1 DEF Locks
  <1>5. \A s \in States, j \in Keys : Names(j, s)' <=> Names(j, s)
    BY <1>1 DEF Names, RefersTo, TypeOK, Calling
  <1>6. Names(k0, s0)
    BY <1>1 DEF Names, RefersTo, Calling
  <1>7. Response(t) # {} => Loaded(s0) \/ k0 \in PrimaryKeys
    BY <1>1, <1>3 DEF Response, Loaded
  <1>8. \A s \in States : s # s0 /\ Loaded(s)' => Loaded(s)
    BY <1>1 DEF Loaded, TypeOK
  <1>9. \A u \in Tasks : u # t /\ prev[u] # {} => ref[u] # s0
    BY <1>2, <1>1 DEF Shape, Locks
  <1>10. Shape'
    BY <1>1 DEF Shape, TypeOK, Calling
  <1>11. JobShape'
    BY <1>1, NoNewCall DEF TypeOK, Calling
  <1>12. \A j \in Keys : Kept(j)' => Kept(j) /\ (Collapses(t) => PrimaryOf[j] # k0)
    BY <1>1 DEF Kept
  <1>13. DropsAreAnswers'
    BY <1>1 DEF DropsAreAnswers, Collapses
  <1>14. Locks'
    <2>1. \A u \in Tasks : u # t => \A g \in held[u] : g[2] # s0
      BY <1>2 DEF Locks
    <2>2. \A u \in Tasks : u # t /\ pc[u] = "dc" => ref[u] # s0 /\ ref[u] \in States
      BY <1>2 DEF Locks, TypeOK, Calling
    <2>3. \A u \in Tasks : \A g \in held[u] : g[2] \in States
      BY DEF TypeOK, Guard
    <2>4. \A u \in Tasks :
            pc'[u] = "dc" => holder'[ref[u]] = u /\ (Takes(job[u].kind) => data'[ref[u]] = {})
      BY <1>1, <2>2 DEF Locks, TypeOK
    <2>. QED
      BY <1>1, <1>2, <2>1, <2>3, <2>4 DEF Locks, TypeOK
  <1>15. RecordsServeOneRow'
    BY <1>5, FewerNames
  <1>16. LoadedIsPooled'
    <2>. SUFFICES ASSUME NEW s \in States, NEW j \in Keys, Loaded(s)', Names(j, s)', Kept(j)'
                  PROVE  pool[PrimaryOf[j]] = s
      BY <1>1 DEF LoadedIsPooled
    <2>1. Names(j, s) /\ Kept(j)
      BY <1>5, <1>12
    <2>2. CASE Loaded(s)
      BY <2>1, <2>2 DEF LoadedIsPooled
    <2>3. CASE ~Loaded(s)
      <3>1. s = s0
        BY <1>8, <2>3
      <3>2. Response(t) # {}
        BY <1>1, <1>9, <3>1 DEF Loaded, TypeOK
      <3>3. k0 \in PrimaryKeys
        BY <1>7, <2>3, <3>1, <3>2
      <3>4. PrimaryOf[j] = k0
        BY <1>1, <1>6, <2>1, <3>1, <3>3 DEF RecordsServeOneRow, OneRow, PrimaryKeys
      <3>5. pool[k0] = s0
        BY <1>1, <2>1, <3>3, <3>4 DEF CallsArePooled, Calling, Kept
      <3>. QED
        BY <3>1, <3>4, <3>5
    <2>. QED
      BY <2>2, <2>3
  <1>17. CallsArePooled'
    BY <1>1 DEF CallsArePooled, TypeOK, Calling
  <1>18. GuardsArePooled'
    BY <1>1, <1>12 DEF GuardsArePooled, TypeOK, Guard
  <1>19. NoLostUpdate'
    <2>. SUFFICES ASSUME NEW p \in PrimaryKeys, p \notin dropped'
                  PROVE  live'[p] \subseteq durable \cup Pending(p)' \cup forsaken
      BY <1>1 DEF NoLostUpdate
    <2>0. p \in Keys /\ PrimaryOf[p] = p /\ (pool[p] # NoState => pool[p] \in States)
      BY DEF PrimaryKeys, TypeOK
    <2>1. live[p] \subseteq durable \cup Pending(p) \cup forsaken
      BY <1>1 DEF NoLostUpdate
    <2>2. CASE pool[p] # s0
      <3>1. Pending(p) \subseteq Pending(p)'
        BY <1>1, <2>0, <2>2 DEF Pending, TypeOK, Tasks
      <3>2. k0 \in PrimaryKeys => p # k0
        BY <1>1, <2>2 DEF CallsArePooled, Calling, Collapses
      <3>3. live'[p] = live[p]
        BY <1>1, <2>0, <3>2 DEF TypeOK
      <3>. QED
        BY <2>1, <3>1, <3>3
    <2>3. CASE pool[p] = s0
      <3>1. PrimaryOf[k0] = p
        BY <1>1, <1>6, <2>0, <2>3 DEF RecordsServeOneRow, OneRow, Names
      <3>2. s0 # NoState /\ Pending(p)' = Response(t) \cup UNION {prev'[u] : u \in {v \in Users : ref[v] = s0}}
        BY <1>1, <2>0, <2>3, NullsAssumption DEF Pending, TypeOK
      <3>3. Response(t) \subseteq Pending(p)'
        BY <3>2
      <3>4. \A u \in Users : u # t /\ ref[u] = s0 => prev[u] = {}
        BY <1>9 DEF Tasks
      <3>5. Pending(p) = data[s0] \cup prev[t]
        BY <2>3, <3>2, <3>4 DEF Pending
      <3>6. CASE Takes(job[t].kind)
        <4>1. Response(t) = prev[t] \cup job[t].writes /\ Pending(p) = prev[t]
          BY <1>4, <3>5, <3>6 DEF Response
        <4>2. live'[p] \subseteq live[p] \cup job[t].writes
          BY <1>1, <1>3, <2>0, <3>6 DEF Accepted, Takes, TypeOK
        <4>. QED
          BY <2>1, <3>3, <4>1, <4>2
      <3>7. CASE ~Takes(job[t].kind)
        <4>1. k0 = p
          BY <1>3, <3>1, <3>7 DEF Takes, PrimaryKeys
        <4>2. live'[p] \subseteq job[t].writes /\ Response(t) = job[t].writes
          BY <1>1, <2>0, <3>7, <4>1 DEF Accepted, Takes, Response, TypeOK
        <4>. QED
          BY <3>3, <4>2
      <3>. QED
        BY <3>6, <3>7
    <2>. QED
      BY <2>2, <2>3
  <1>. QED
    BY <1>10, <1>11, <1>13, <1>14, <1>15, <1>16, <1>17, <1>18, <1>19

\* A call that ends gives up its reference, and what it has taken out of the record; the pool
\* has the record already when its key is a primary one, and otherwise only the secondary key
\* changes.
LEMMA EndOfCall ==
  ASSUME IInv, TypeOK', NEW t \in Users, pc[t] \in {"dc", "reinsert", "drop"},
         \/ pool' \in {pool, [pool EXCEPT ![job[t].key] = ref[t]]}
         \/ pc[t] = "drop" /\ pool' = [pool EXCEPT ![job[t].key] = NoState],
         holder' \in {holder, [holder EXCEPT ![ref[t]] = Nobody]},
         pc[t] = "dc" => holder' = [holder EXCEPT ![ref[t]] = Nobody],
         pc[t] # "dc" => holder' = holder,
         pc' = [pc EXCEPT ![t] = "idle"],
         job' = [job EXCEPT ![t] = NoJob],
         ref' = [ref EXCEPT ![t] = NoState],
         prev' = [prev EXCEPT ![t] = {}],
         forsaken' = forsaken \cup prev[t],
         UNCHANGED <<data, listed, held, live, durable, dropped>>
  PROVE  IInv'
  <1>. t \in Tasks
    BY DEF Tasks
  <1>. USE DEF IInv
  <1>1. /\ ref[t] \in States /\ job[t] # NoJob /\ job[t].key \in Keys /\ held[t] = {}
    BY DEF TypeOK, Calling, Job, Shape
  <1>2. Names(job[t].key, ref[t])
    BY DEF Names, RefersTo, Calling
  <1>3. \A p \in PrimaryKeys \ dropped : pool'[p] = pool[p]
    <2>0. CASE job[t].key \in dropped
      BY <2>0 DEF TypeOK, PrimaryKeys
    <2>1. CASE job[t].key \in PrimaryKeys \ dropped
      <3>1. pool[job[t].key] = ref[t]
        BY <2>1 DEF CallsArePooled, Calling
      <3>2. pc[t] # "drop"
        BY <2>1 DEF Shape
      <3>. QED
        BY <3>1, <3>2 DEF TypeOK, PrimaryKeys
    <2>2. CASE job[t].key \notin PrimaryKeys /\ job[t].key \notin dropped
      BY <2>2 DEF TypeOK, PrimaryKeys, Shape
    <2>. QED
      BY <2>0, <2>1, <2>2
  <1>4. \A s \in States, j \in Keys : Names(j, s)' => Names(j, s)
    BY <1>1, <1>2, NullsAssumption DEF Names, RefersTo, TypeOK, Calling
  <1>5. \A s \in States : Loaded(s)' => Loaded(s)
    BY NullsAssumption DEF Loaded, TypeOK
  <1>6. Shape'
    BY <1>1 DEF Shape, TypeOK, Calling
  <1>7. JobShape' /\ DropsAreAnswers'
    BY NoNewCall, NoNewDrop DEF TypeOK, Calling
  <1>8. Locks'
    <2>1. pc[t] = "dc" => holder[ref[t]] = t
      BY DEF Locks
    <2>2. \A u \in Tasks : u # t /\ pc[u] = "dc" =>
            holder'[ref[u]] = u /\ ref'[u] = ref[u] /\ job'[u] = job[u]
      <3>. SUFFICES ASSUME NEW u \in Tasks, u # t, pc'[u] = "dc"
                    PROVE  holder'[ref[u]] = u /\ ref'[u] = ref[u] /\ job'[u] = job[u]
        BY DEF TypeOK
      <3>1. pc[u] = "dc" /\ ref'[u] = ref[u] /\ job'[u] = job[u]
        BY DEF TypeOK
      <3>2. holder[ref[u]] = u /\ ref[u] \in States
        BY <3>1 DEF Locks, TypeOK, Calling
      <3>3. pc[t] = "dc" => ref[u] # ref[t]
        BY <2>1, <3>2
      <3>4. holder'[ref[u]] = holder[ref[u]]
        BY <1>1, <3>2, <3>3 DEF TypeOK
      <3>. QED
        BY <3>1, <3>2, <3>4
    <2>3. \A u \in Tasks : \A g \in held[u] : g[2] \in States /\ holder'[g[2]] = u
      BY <1>1, <2>1 DEF Locks, TypeOK, Guard
    <2>. QED
      BY <2>2, <2>3 DEF Locks, TypeOK
  <1>9. RecordsServeOneRow'
    BY <1>4, FewerNames
  <1>10. LoadedIsPooled'
    BY <1>3, <1>4, <1>5, FewerLoaded
  <1>11. CallsArePooled'
    BY <1>3 DEF CallsArePooled, TypeOK, Calling
  <1>12. GuardsArePooled'
    BY <1>3, RowKeys DEF GuardsArePooled, TypeOK, Guard, Kept
  <1>13. NoLostUpdate'
    <2>1. \A u \in Users : prev[u] \subseteq prev'[u] \cup forsaken'
      BY DEF TypeOK, Tasks
    <2>2. \A u \in Users : prev'[u] # {} => u # t /\ prev'[u] = prev[u] /\ ref'[u] = ref[u]
      BY DEF TypeOK, Tasks
    <2>3. \A p \in PrimaryKeys \ dropped : Pending(p) \subseteq Pending(p)' \cup forsaken'
      BY <1>3, <2>1, <2>2 DEF Pending
    <2>. QED
      BY <2>3 DEF NoLostUpdate
  <1>. QED
    BY <1>6, <1>7, <1>8, <1>9, <1>10, <1>11, <1>12, <1>13

\* A row that was dropped is put back before it is taken out of the pool.
LEMMA ReinsertToDropKeeps ==
  ASSUME IInv, TypeOK', NEW t \in Users, ReinsertToDrop(t)
  PROVE  IInv'
  <1>. t \in Tasks
    BY DEF Tasks
  <1>. USE DEF IInv
  <1>1. /\ pc[t] = "reinsertdrop" /\ pc' = [pc EXCEPT ![t] = "drop"]
        /\ ref[t] \in States /\ job[t].key \in dropped /\ job[t].key \in Keys
        /\ pool' = [pool EXCEPT ![job[t].key] = ref[t]]
        /\ UNCHANGED <<data, holder, job, prev, ref, listed, held, live, durable, forsaken, dropped>>
    BY DEF ReinsertToDrop, callVars, iterVars, historyVars, TypeOK, Calling, Shape, Job
  <1>2. \A p \in PrimaryKeys \ dropped : pool'[p] = pool[p]
    BY <1>1 DEF TypeOK, PrimaryKeys
  <1>3. \A s \in States, j \in Keys : Names(j, s)' => Names(j, s)
    BY <1>1 DEF Names, RefersTo, TypeOK, Calling
  <1>4. \A s \in States : Loaded(s)' => Loaded(s)
    BY <1>1 DEF Loaded
  <1>5. Shape'
    BY <1>1 DEF Shape, TypeOK, Calling
  <1>6. JobShape' /\ DropsAreAnswers'
    BY <1>1, NoNewCall, NoNewDrop DEF TypeOK, Calling
  <1>7. Locks'
    BY <1>1 DEF Locks, TypeOK
  <1>8. RecordsServeOneRow' /\ LoadedIsPooled'
    BY <1>1, <1>2, <1>3, <1>4, FewerNames, FewerLoaded
  <1>9. CallsArePooled'
    BY <1>1, <1>2 DEF CallsArePooled, TypeOK, Calling
  <1>10. GuardsArePooled'
    BY <1>1, <1>2, RowKeys DEF GuardsArePooled, TypeOK, Guard, Kept
  <1>11. NoLostUpdate'
    <2>1. \A p \in PrimaryKeys \ dropped : Pending(p) \subseteq Pending(p)'
      BY <1>1, <1>2 DEF Pending
    <2>. QED
      BY <1>1, <2>1 DEF NoLostUpdate
  <1>. QED
    BY <1>5, <1>6, <1>7, <1>8, <1>9, <1>10, <1>11

-----------------------------------------------------------------------------
(* flush_raw, flush_many_raw, flush_one                                    *)

\* Steps that neither change a record nor the pool, nor add a reference.
LEMMA QuietFlushStep ==
  ASSUME IInv, TypeOK', NEW t \in Flushers,
         pc[t] \notin Calling, pc'[t] \notin Calling \cup {"flushlock"}, ref'[t] \in {ref[t], NoState},
         \A u \in Tasks : u # t => pc'[u] = pc[u] /\ ref'[u] = ref[u] /\ listed'[u] = listed[u],
         UNCHANGED <<pool, data, job, prev, live, durable, forsaken, dropped>>
  PROVE  /\ JobShape' /\ DropsAreAnswers'
         /\ RecordsServeOneRow' /\ LoadedIsPooled' /\ CallsArePooled' /\ NoLostUpdate'
  <1>. t \in Tasks
    BY DEF Tasks
  <1>. USE DEF IInv
  <1>1. prev[t] = {}
    BY DEF Shape, Calling
  <1>2. \A s \in States, j \in Keys : Names(j, s)' => Names(j, s)
    BY DEF Names, RefersTo
  <1>3. \A s \in States : Loaded(s)' => Loaded(s)
    BY <1>1 DEF Loaded
  <1>4. JobShape' /\ DropsAreAnswers'
    BY NoNewCall, NoNewDrop DEF Calling
  <1>5. RecordsServeOneRow'
    BY <1>2, FewerNames
  <1>6. LoadedIsPooled'
    BY <1>2, <1>3, FewerLoaded
  <1>7. CallsArePooled'
    BY DEF CallsArePooled
  <1>8. NoLostUpdate'
    <2>1. \A p \in PrimaryKeys : Pending(p) \subseteq Pending(p)'
      BY <1>1 DEF Pending, Tasks
    <2>. QED
      BY <2>1 DEF NoLostUpdate
  <1>. QED
    BY <1>4, <1>5, <1>6, <1>7, <1>8

LEMMA BeginFlushKeeps ==
  ASSUME IInv, TypeOK', NEW t \in Flushers, NEW ks \in SUBSET Keys, BeginFlush(t, ks)
  PROVE  IInv'
  <1>. t \in Tasks
    BY DEF Tasks
  <1>. USE DEF IInv
  <1>1. /\ pc[t] = "idle" /\ pc'[t] \in {"observing", "writing"}
        /\ \A u \in Tasks : u # t => pc'[u] = pc[u] /\ listed'[u] = listed[u]
        /\ UNCHANGED <<pool, data, holder, job, ref, prev, held, live, durable, forsaken, dropped>>
    BY DEF BeginFlush, TypeOK, callVars, historyVars
  <1>2. /\ JobShape' /\ DropsAreAnswers'
        /\ RecordsServeOneRow' /\ LoadedIsPooled' /\ CallsArePooled' /\ NoLostUpdate'
    BY <1>1, QuietFlushStep DEF Calling
  <1>3. Shape'
    BY <1>1 DEF Shape, Calling
  <1>4. Locks' /\ GuardsArePooled'
    BY <1>1 DEF Locks, GuardsArePooled, Kept
  <1>. QED
    BY <1>2, <1>3, <1>4

LEMMA BeginFlushOneKeeps ==
  ASSUME IInv, TypeOK', NEW t \in Flushers, NEW k \in Keys, BeginFlushOne(t, k)
  PROVE  IInv'
  <1>. t \in Tasks
    BY DEF Tasks
  <1>. USE DEF IInv
  <1>1. /\ pc[t] = "idle" /\ pc' = [pc EXCEPT ![t] = "flushlock"]
        /\ pool[k] \in States
        /\ ref' = [ref EXCEPT ![t] = pool[k]]
        /\ listed' = [listed EXCEPT ![t] = {k}]
        /\ UNCHANGED <<pool, data, holder, job, prev, held, live, durable, forsaken, dropped>>
    BY DEF BeginFlushOne, TypeOK, callVars, historyVars
  <1>2. prev[t] = {} /\ held[t] = {} /\ ref[t] = NoState
    BY <1>1 DEF Shape
  <1>3. ASSUME NEW s \in States, NEW j \in Keys, Names(j, s)'
        PROVE  Names(j, s)
    <2>1. CASE pool'[j] = s
      BY <1>1, <2>1 DEF Names
    <2>2. ASSUME NEW u \in Tasks, RefersTo(u, j, s)'
          PROVE  Names(j, s)
      <3>1. CASE u = t
        <4>1. pool[k] = s /\ {k} = {j}
          BY <1>1, <2>2, <3>1 DEF RefersTo, TypeOK, Calling
        <4>2. j \in {k}
          BY <4>1
        <4>. QED
          BY <4>1, <4>2 DEF Names
      <3>2. CASE u # t
        BY <1>1, <2>2, <3>2 DEF Names, RefersTo, TypeOK
      <3>. QED
        BY <3>1, <3>2
    <2>. QED
      BY <1>3, <2>1, <2>2 DEF Names
  <1>4. \A s \in States : Loaded(s)' => Loaded(s)
    BY <1>1, <1>2 DEF Loaded, TypeOK
  <1>5. Shape'
    BY <1>1, <1>2 DEF Shape, TypeOK, Calling
  <1>6. JobShape' /\ DropsAreAnswers' /\ CallsArePooled'
    BY <1>1, NoNewCall, NoNewDrop DEF CallsArePooled, TypeOK, Calling
  <1>7. Locks' /\ GuardsArePooled'
    BY <1>1, <1>2 DEF Locks, GuardsArePooled, TypeOK, Kept
  <1>8. RecordsServeOneRow'
    BY <1>3, FewerNames
  <1>9. LoadedIsPooled'
    BY <1>1, <1>3, <1>4, FewerLoaded
  <1>10. NoLostUpdate'
    <2>1. \A p \in PrimaryKeys : Pending(p) \subseteq Pending(p)'
      BY <1>1, <1>2 DEF Pending, TypeOK, PrimaryKeys, Tasks
    <2>. QED
      BY <1>1, <2>1 DEF NoLostUpdate
  <1>. QED
    BY <1>5, <1>6, <1>7, <1>8, <1>9, <1>10

\* An iterator takes the lock of the loaded record of a row.
LEMMA TakingGuard ==
  ASSUME IInv, TypeOK', NEW t \in Tasks, NEW k \in Keys, NEW s \in States,
         Names(k, s), data[s] # {}, holder[s] = Nobody,
         \A u \in Tasks : u # t => held'[u] = held[u],
         held'[t] = held[t] \cup {<<k, s>>},
         \A u \in Tasks : pc'[u] = "dc" => pc[u] = "dc" /\ ref'[u] = ref[u],
         holder' = [holder EXCEPT ![s] = t],
         UNCHANGED <<pool, data, job, dropped>>
  PROVE  Locks' /\ GuardsArePooled'
  <1>. USE DEF IInv
  <1>1. Kept(k) => pool[PrimaryOf[k]] = s
    BY DEF LoadedIsPooled, Loaded
  <1>2. \A u \in Tasks : \A g \in held[u] : g[2] # s /\ g[2] \in States
    BY NullsAssumption DEF Locks, TypeOK, Guard
  <1>3. \A u \in Tasks : pc[u] = "dc" => ref[u] # s /\ ref[u] \in States
    BY NullsAssumption DEF Locks, TypeOK, Calling
  <1>4. \A u \in Tasks : \A g \in held'[u] : g \in held[u] \/ (u = t /\ g = <<k, s>>)
    OBVIOUS
  <1>5. GuardsArePooled'
    BY <1>1, <1>4 DEF GuardsArePooled, Kept
  <1>6. \A u \in Tasks : pc'[u] = "dc" => holder'[ref'[u]] = u
    BY <1>3 DEF Locks, TypeOK
  <1>7. \A u \in Tasks : \A g \in held'[u] : holder'[g[2]] = u
    BY <1>2, <1>4 DEF Locks, TypeOK
  <1>8. \A u \in Tasks : \A g, h \in held'[u] : g[2] = h[2] => g = h
    BY <1>2, <1>4 DEF Locks
  <1>9. \A u \in Tasks : pc'[u] = "dc" => (Takes(job'[u].kind) => data'[ref'[u]] = {})
    BY DEF Locks
  <1>. QED
    BY <1>5, <1>6, <1>7, <1>8, <1>9 DEF Locks

LEMMA NextKeyKeeps ==
  ASSUME IInv, TypeOK', NEW t \in Flushers, NEW k \in Keys, NextKey(t, k)
  PROVE  IInv'
  <1>. t \in Tasks
    BY DEF Tasks
  <1>. USE DEF IInv
  <1>1. /\ pc[t] \in {"observing", "writing"}
        /\ UNCHANGED <<pool, data, pc, job, ref, prev, listed, live, durable, forsaken, dropped>>
    BY DEF NextKey, callVars, historyVars
  <1>2. /\ JobShape' /\ DropsAreAnswers'
        /\ RecordsServeOneRow' /\ LoadedIsPooled' /\ CallsArePooled' /\ NoLostUpdate'
    BY <1>1, QuietFlushStep DEF Calling
  <1>3. Shape'
    BY <1>1 DEF Shape, NextKey, TypeOK
  <1>4. CASE CanTake(k)
    <2>1. /\ pool[k] \in States /\ data[pool[k]] # {} /\ holder[pool[k]] = Nobody
          /\ Names(k, pool[k])
      BY <1>4 DEF CanTake, TypeOK, Names
    <2>2. /\ \A u \in Tasks : u # t => held'[u] = held[u]
          /\ held'[t] = held[t] \cup {<<k, pool[k]>>}
          /\ holder' = [holder EXCEPT ![pool[k]] = t]
      BY <1>4 DEF NextKey, TypeOK
    <2>. QED
      BY <1>1, <1>2, <1>3, <2>1, <2>2, TakingGuard
  <1>5. CASE ~CanTake(k)
    <2>1. held' = held /\ holder' = holder
      BY <1>5 DEF NextKey
    <2>. QED
      BY <1>1, <1>2, <1>3, <2>1 DEF Locks, GuardsArePooled, Kept
  <1>. QED
    BY <1>4, <1>5

LEMMA FlushOneLockKeeps ==
  ASSUME IInv, TypeOK', NEW t \in Flushers, FlushOneLock(t)
  PROVE  IInv'
  <1>. t \in Tasks
    BY DEF Tasks
  <1>. USE DEF IInv
  <1>1. /\ pc[t] = "flushlock" /\ ref[t] \in States /\ holder[ref[t]] = Nobody
        /\ pc'[t] \in {"idle", "writing"}
        /\ ref'[t] \in {ref[t], NoState}
        /\ \A u \in Tasks : u # t => pc'[u] = pc[u] /\ ref'[u] = ref[u] /\ listed'[u] = listed[u]
        /\ UNCHANGED <<pool, data, job, prev, live, durable, forsaken, dropped>>
    BY DEF FlushOneLock, TypeOK, callVars, historyVars
  <1>2. /\ JobShape' /\ DropsAreAnswers'
        /\ RecordsServeOneRow' /\ LoadedIsPooled' /\ CallsArePooled' /\ NoLostUpdate'
    BY <1>1, QuietFlushStep DEF Calling
  <1>3. held[t] = {}
    BY <1>1 DEF Shape
  <1>4. PICK k \in Keys : listed[t] = {k}
    BY <1>1 DEF Shape
  <1>5. CASE data[ref[t]] = {}
    <2>1. /\ UNCHANGED <<holder, held>>
          /\ pc' = [pc EXCEPT ![t] = "idle"] /\ ref' = [ref EXCEPT ![t] = NoState]
      BY <1>5 DEF FlushOneLock
    <2>2. Shape'
      BY <1>1, <1>3, <2>1 DEF Shape, TypeOK, Calling
    <2>3. Locks' /\ GuardsArePooled'
      BY <1>1, <2>1 DEF Locks, GuardsArePooled, TypeOK, Kept
    <2>. QED
      BY <1>2, <2>2, <2>3
  <1>6. CASE data[ref[t]] # {}
    <2>1. /\ UNCHANGED <<ref, listed>>
          /\ pc' = [pc EXCEPT ![t] = "writing"]
          /\ holder' = [holder EXCEPT ![ref[t]] = t]
          /\ held' = [held EXCEPT ![t] = {k} \X {ref[t]}]
      BY <1>4, <1>6 DEF FlushOneLock
    <2>2. {k} \X {ref[t]} = held[t] \cup {<<k, ref[t]>>}
      BY <1>3
    <2>3. held'[t] = held[t] \cup {<<k, ref[t]>>} /\ \A u \in Tasks : u # t => held'[u] = held[u]
      BY <2>1, <2>2 DEF TypeOK
    <2>4. Names(k, ref[t])
      BY <1>1, <1>4 DEF Names, RefersTo
    <2>5. Shape'
      BY <1>1, <2>1, <2>3 DEF Shape, TypeOK, Calling
    <2>6. Locks' /\ GuardsArePooled'
      <3>1. \A u \in Tasks : pc'[u] = "dc" => pc[u] = "dc" /\ ref'[u] = ref[u]
        BY <2>1 DEF TypeOK
      <3>. QED
        BY <1>1, <1>6, <2>1, <2>3, <2>4, <3>1, TakingGuard
    <2>. QED
      BY <1>2, <2>5, <2>6
  <1>. QED
    BY <1>5, <1>6

\* Emptying records as their content becomes durable.
LEMMA EmptyingKeeps ==
  ASSUME IInv, TypeOK', NEW t \in Flushers, NEW gs \in SUBSET held[t],
         pc[t] = "writing",
         data' = Emptied(gs),
         durable' = durable \cup Contents(gs),
         UNCHANGED <<pool, job, prev, ref, listed, live, forsaken, dropped>>,
         \A u \in Tasks : u # t => pc'[u] = pc[u],
         pc'[t] \in {"writing", "purify"}
  PROVE  /\ JobShape' /\ DropsAreAnswers'
         /\ RecordsServeOneRow' /\ LoadedIsPooled' /\ CallsArePooled' /\ NoLostUpdate'
         /\ \A s \in States : data'[s] \in {data[s], {}}
  <1>. t \in Tasks
    BY DEF Tasks
  <1>. USE DEF IInv
  <1>1. \A s \in States : data'[s] = {} \/ data'[s] = data[s]
    BY DEF Emptied
  <1>2. \A s \in States : data[s] \subseteq data'[s] \cup Contents(gs)
    BY DEF Emptied, Contents
  <1>3. \A s \in States, j \in Keys : Names(j, s)' => Names(j, s)
    BY DEF Names, RefersTo, Calling
  <1>4. \A s \in States : Loaded(s)' => Loaded(s)
    BY <1>1 DEF Loaded
  <1>5. JobShape' /\ DropsAreAnswers' /\ CallsArePooled'
    BY NoNewCall, NoNewDrop DEF CallsArePooled, Calling
  <1>6. RecordsServeOneRow'
    BY <1>3, FewerNames
  <1>7. LoadedIsPooled'
    BY <1>3, <1>4, FewerLoaded
  <1>8. NoLostUpdate'
    <2>1. ASSUME NEW p \in PrimaryKeys
          PROVE  Pending(p) \subseteq Pending(p)' \cup durable'
      <3>1. CASE pool[p] = NoState
        BY <3>1 DEF Pending
      <3>2. CASE pool[p] # NoState
        <4>1. pool[p] \in States
          BY <3>2 DEF TypeOK, PrimaryKeys
        <4>. QED
          BY <1>2, <3>2, <4>1 DEF Pending
      <3>. QED
        BY <3>1, <3>2
    <2>. QED
      BY <2>1 DEF NoLostUpdate
  <1>. QED
    BY <1>1, <1>5, <1>6, <1>7, <1>8

LEMMA ConfirmItemKeeps ==
  ASSUME IInv, TypeOK', NEW t \in Flushers, NEW g \in Guard, ConfirmItem(t, g)
  PROVE  IInv'
  <1>. t \in Tasks
    BY DEF Tasks
  <1>. USE DEF IInv
  <1>1. /\ pc[t] = "writing" /\ g \in held[t] /\ g[2] \in States
        /\ data' = Emptied({g})
        /\ holder' = [holder EXCEPT ![g[2]] = Nobody]
        /\ held' = [held EXCEPT ![t] = held[t] \ {g}]
        /\ UNCHANGED <<pool, pc, job, prev, ref, listed, live, forsaken, dropped>>
    <2>1. Released({g}) = [holder EXCEPT ![g[2]] = Nobody]
      BY DEF Released, Guarded, TypeOK
    <2>. QED
      BY <2>1 DEF ConfirmItem, Guard, callVars
  <1>2. durable' = durable \cup Contents({g})
    BY DEF ConfirmItem, Contents, Guarded
  <1>3. /\ JobShape' /\ DropsAreAnswers'
        /\ RecordsServeOneRow' /\ LoadedIsPooled' /\ CallsArePooled' /\ NoLostUpdate'
        /\ \A s \in States : data'[s] \in {data[s], {}}
    BY <1>1, <1>2, EmptyingKeeps
  <1>4. Shape'
    BY <1>1 DEF Shape, TypeOK
  <1>5. \A u \in Tasks : held'[u] \subseteq held[u] /\ (u = t => g \notin held'[u])
    BY <1>1 DEF TypeOK
  <1>6. GuardsArePooled'
    BY <1>1, <1>5 DEF GuardsArePooled, Kept
  <1>7. Locks'
    <2>1. holder[g[2]] = t
      BY <1>1 DEF Locks
    <2>2. \A u \in Tasks : pc[u] = "dc" => ref[u] # g[2] /\ ref[u] \in States
      BY <1>1, <2>1 DEF Locks, TypeOK, Calling
    <2>3. \A u \in Tasks : \A h \in held'[u] : h \in held[u] /\ h[2] \in States /\ h[2] # g[2]
      BY <1>1, <1>5, <2>1 DEF Locks, TypeOK, Guard
    <2>4. \A u \in Tasks : pc'[u] = "dc" =>
             holder'[ref'[u]] = u /\ (Takes(job'[u].kind) => data'[ref'[u]] = {})
      BY <1>1, <1>3, <2>2 DEF Locks, TypeOK
    <2>5. \A u \in Tasks : \A h \in held'[u] : holder'[h[2]] = u
      BY <1>1, <2>3 DEF Locks, TypeOK
    <2>6. \A u \in Tasks : \A h, i \in held'[u] : h[2] = i[2] => h = i
      BY <2>3 DEF Locks
    <2>. QED
      BY <2>4, <2>5, <2>6 DEF Locks
  <1>. QED
    BY <1>3, <1>4, <1>6, <1>7

\* confirm_all empties all the guards, or none where write_back leaves the rest unconfirmed.
LEMMA CommitKeeps ==
  ASSUME IInv, TypeOK', NEW t \in Flushers, Commit(t) \/ LeaveUnconfirmed(t)
  PROVE  IInv'
  <1>. t \in Tasks
    BY DEF Tasks
  <1>. USE DEF IInv
  <1>1. /\ pc[t] = "writing" /\ pc' = [pc EXCEPT ![t] = "purify"]
        /\ UNCHANGED <<pool, holder, job, prev, ref, listed, held, live, forsaken, dropped>>
    BY DEF Commit, LeaveUnconfirmed, callVars, iterVars, historyVars
  <1>2. PICK gs \in SUBSET held[t] : data' = Emptied(gs) /\ durable' = durable \cup Contents(gs)
    <2>1. Emptied({}) = data /\ Contents({}) = {}
      BY DEF Emptied, Contents, Guarded, TypeOK
    <2>2. CASE Commit(t)
      BY <2>2 DEF Commit
    <2>3. CASE LeaveUnconfirmed(t)
      BY <2>1, <2>3 DEF LeaveUnconfirmed, historyVars
    <2>. QED
      BY <2>2, <2>3
  <1>3. /\ \A u \in Tasks : u # t => pc'[u] = pc[u]
        /\ pc'[t] = "purify"
    BY <1>1 DEF TypeOK
  <1>4. /\ JobShape' /\ DropsAreAnswers'
        /\ RecordsServeOneRow' /\ LoadedIsPooled' /\ CallsArePooled' /\ NoLostUpdate'
        /\ \A s \in States : data'[s] \in {data[s], {}}
    BY <1>1, <1>2, <1>3, EmptyingKeeps
  <1>5. Shape'
    BY <1>1, <1>3 DEF Shape, Calling
  <1>6. Locks' /\ GuardsArePooled'
    <2>1. \A u \in Tasks : pc'[u] = "dc" => pc[u] = "dc" /\ ref[u] \in States
      BY <1>3 DEF TypeOK, Calling
    <2>. QED
      BY <1>1, <1>4, <2>1 DEF Locks, GuardsArePooled, Kept
  <1>. QED
    BY <1>4, <1>5, <1>6

\* Dropping all its guards takes the locks of nobody else.
LEMMA ReleasingKeeps ==
  ASSUME IInv, TypeOK', NEW t \in Flushers,
         pc[t] \notin Calling, pc'[t] # "dc",
         held' = [held EXCEPT ![t] = {}],
         holder' = Released(held[t]),
         \A u \in Tasks : u # t => pc'[u] = pc[u] /\ ref'[u] = ref[u],
         UNCHANGED <<data, job>>
  PROVE  Locks'
  <1>. t \in Tasks
    BY DEF Tasks
  <1>. USE DEF IInv
  <1>1. \A s \in States : holder'[s] = holder[s] \/ (\E g \in held[t] : g[2] = s)
    BY DEF Released, Guarded
  <1>2. \A g \in held[t] : holder[g[2]] = t
    BY DEF Locks
  <1>3. \A s \in States : holder[s] # t => holder'[s] = holder[s]
    BY <1>1, <1>2
  <1>4. \A u \in Tasks : pc'[u] = "dc" =>
          holder'[ref'[u]] = u /\ (Takes(job'[u].kind) => data'[ref'[u]] = {})
    <2>. SUFFICES ASSUME NEW u \in Tasks, pc'[u] = "dc"
                  PROVE  holder'[ref'[u]] = u /\ (Takes(job'[u].kind) => data'[ref'[u]] = {})
      OBVIOUS
    <2>1. u # t /\ pc[u] = "dc" /\ ref'[u] = ref[u] /\ ref[u] \in States
      BY DEF TypeOK, Calling
    <2>2. holder[ref[u]] = u /\ (Takes(job[u].kind) => data[ref[u]] = {})
      BY <2>1 DEF Locks
    <2>. QED
      BY <1>3, <2>1, <2>2
  <1>5. \A u \in Tasks : \A g \in held'[u] : u # t /\ g \in held[u] /\ g[2] \in States
    BY DEF TypeOK, Guard
  <1>6. \A u \in Tasks : \A g \in held'[u] : holder'[g[2]] = u
    BY <1>3, <1>5 DEF Locks
  <1>7. \A u \in Tasks : \A g, h \in held'[u] : g[2] = h[2] => g = h
    BY <1>5 DEF Locks
  <1>. QED
    BY <1>4, <1>6, <1>7 DEF Locks

LEMMA ResetKeeps ==
  ASSUME IInv, TypeOK', NEW t \in Flushers, ResetIterator(t)
  PROVE  IInv'
  <1>. t \in Tasks
    BY DEF Tasks
  <1>. USE DEF IInv
  <1>1. /\ pc[t] = "observing" /\ pc' = [pc EXCEPT ![t] = "writing"]
        /\ held' = [held EXCEPT ![t] = {}] /\ holder' = Released(held[t])
        /\ UNCHANGED <<pool, data, job, prev, ref, listed, live, durable, forsaken, dropped>>
    BY DEF ResetIterator, callVars, historyVars
  <1>2. pc'[t] = "writing" /\ \A u \in Tasks : u # t => pc'[u] = pc[u]
    BY <1>1 DEF TypeOK
  <1>3. /\ JobShape' /\ DropsAreAnswers'
        /\ RecordsServeOneRow' /\ LoadedIsPooled' /\ CallsArePooled' /\ NoLostUpdate'
    BY <1>1, <1>2, QuietFlushStep DEF Calling
  <1>4. Shape'
    BY <1>1, <1>2 DEF Shape, TypeOK, Calling
  <1>5. Locks'
    BY <1>1, <1>2, ReleasingKeeps DEF Calling
  <1>6. GuardsArePooled'
    BY <1>1 DEF GuardsArePooled, TypeOK, Kept
  <1>. QED
    BY <1>3, <1>4, <1>5, <1>6

\* The end of a flush, with whatever part of the removable records removed: a record that is
\* referred to or not written yet is not among them.
LEMMA EndFlushKeeps ==
  ASSUME IInv, TypeOK', NEW t \in Flushers, EndFlush(t),
         pc[t] \in {"observing", "writing", "purify"},
         NEW gs \in SUBSET {g \in held[t] : Removable(g)},
         pool' = [k \in Keys |-> IF k \in Keyed(gs) THEN NoState ELSE pool[k]],
         UNCHANGED <<data, job, prev, live, durable, forsaken, dropped>>
  PROVE  IInv'
  <1>. t \in Tasks
    BY DEF Tasks
  <1>. USE DEF IInv
  <1>1. /\ pc' = [pc EXCEPT ![t] = "idle"] /\ ref' = [ref EXCEPT ![t] = NoState]
        /\ listed' = [listed EXCEPT ![t] = {}]
        /\ held' = [held EXCEPT ![t] = {}] /\ holder' = Released(held[t])
    BY DEF EndFlush
  <1>2. /\ pc'[t] = "idle" /\ ref'[t] = NoState /\ held'[t] = {}
        /\ \A u \in Tasks : u # t => /\ pc'[u] = pc[u] /\ ref'[u] = ref[u]
                                     /\ listed'[u] = listed[u] /\ held'[u] = held[u]
    BY <1>1 DEF TypeOK
  <1>3. prev[t] = {}
    BY DEF Shape
  <1>4. ASSUME NEW p \in PrimaryKeys \ dropped, pool'[p] # pool[p]
        PROVE  /\ pool[p] \in States /\ data[pool[p]] = {} /\ holder[pool[p]] = t
               /\ \A u \in Tasks : ref[u] # pool[p]
    <2>0. p \in Keys /\ PrimaryOf[p] = p
      BY DEF PrimaryKeys
    <2>1. PICK g \in gs : g[1] = p
      BY <1>4, <2>0 DEF Keyed
    <2>2. g \in held[t] /\ g[2] \in States /\ Removable(g)
      BY DEF TypeOK, Guard
    <2>3. pool[p] = g[2] /\ holder[g[2]] = t
      BY <2>0, <2>1, <2>2 DEF GuardsArePooled, Locks, Kept
    <2>. QED
      BY <2>1, <2>2, <2>3 DEF Removable, Shared
  <1>5. \A s \in States, j \in Keys : Names(j, s)' => Names(j, s)
    BY <1>2, NullsAssumption DEF Names, RefersTo
  <1>6. \A s \in States : Loaded(s)' => Loaded(s)
    BY <1>2, <1>3 DEF Loaded
  <1>7. Shape'
    BY <1>2 DEF Shape, Calling
  <1>8. JobShape' /\ DropsAreAnswers'
    BY <1>2, NoNewCall, NoNewDrop DEF Calling
  <1>9. Locks'
    BY <1>1, <1>2, ReleasingKeeps DEF Calling
  <1>10. RecordsServeOneRow'
    BY <1>5, FewerNames
  <1>11. LoadedIsPooled'
    <2>. SUFFICES ASSUME NEW s \in States, NEW j \in Keys, Loaded(s)', Names(j, s)', Kept(j)
                  PROVE  pool'[PrimaryOf[j]] = s
      BY DEF LoadedIsPooled, Kept
    <2>1. pool[PrimaryOf[j]] = s /\ Loaded(s)
      BY <1>5, <1>6 DEF LoadedIsPooled
    <2>. QED
      BY <1>4, <2>1, RowKeys DEF Loaded, Kept
  <1>12. CallsArePooled'
    <2>. SUFFICES ASSUME NEW u \in Tasks, pc'[u] \in Calling, job[u].key \in PrimaryKeys \ dropped
                  PROVE  pool'[job[u].key] = ref'[u]
      BY DEF CallsArePooled
    <2>1. u # t /\ pc[u] \in Calling /\ ref'[u] = ref[u]
      BY <1>2 DEF Calling
    <2>2. pool[job[u].key] = ref[u]
      BY <2>1 DEF CallsArePooled
    <2>. QED
      BY <1>4, <2>1, <2>2
  <1>13. GuardsArePooled'
    <2>. SUFFICES ASSUME NEW u \in Tasks, NEW g \in held'[u], Kept(g[1])
                  PROVE  pool'[PrimaryOf[g[1]]] = g[2]
      BY DEF GuardsArePooled, Kept
    <2>1. u # t /\ g \in held[u] /\ g[1] \in Keys
      BY <1>2 DEF TypeOK, Guard
    <2>2. pool[PrimaryOf[g[1]]] = g[2] /\ holder[g[2]] = u
      BY <2>1 DEF GuardsArePooled, Locks
    <2>. QED
      BY <1>4, <2>1, <2>2, RowKeys DEF Kept
  <1>14. NoLostUpdate'
    <2>. SUFFICES ASSUME NEW p \in PrimaryKeys \ dropped
                  PROVE  live[p] \subseteq durable \cup Pending(p)' \cup forsaken
      BY DEF NoLostUpdate
    <2>1. live[p] \subseteq durable \cup Pending(p) \cup forsaken
      BY DEF NoLostUpdate
    <2>2. CASE pool'[p] = pool[p]
      <3>1. Pending(p) \subseteq Pending(p)'
        BY <1>2, <1>3, <2>2 DEF Pending, Tasks
      <3>. QED
        BY <2>1, <3>1
    <2>3. CASE pool'[p] # pool[p]
      <3>1. Pending(p) = {}
        BY <1>4, <2>3 DEF Pending, Tasks
      <3>. QED
        BY <2>1, <3>1
    <2>. QED
      BY <2>2, <2>3
  <1>. QED
    BY <1>7, <1>8, <1>9, <1>10, <1>11, <1>12, <1>13, <1>14

LEMMA FlushEndsKeep ==
  ASSUME IInv, TypeOK', NEW t \in Flushers, FlushFails(t) \/ Purify(t) \/ PurifyPanics(t)
  PROVE  IInv'
  <1>. t \in Tasks
    BY DEF Tasks
  <1>1. CASE FlushFails(t)
    <2>1. pool' = [k \in Keys |-> IF k \in Keyed({}) THEN NoState ELSE pool[k]]
      BY <1>1 DEF FlushFails, Keyed, IInv, TypeOK
    <2>. QED
      BY <1>1, <2>1, EndFlushKeeps DEF FlushFails, callVars, historyVars
  <1>2. CASE Purify(t)
    <2>. DEFINE gs == {g \in held[t] : Removable(g)}
    <2>1. \A k \in Keys : k \in Keyed(gs) <=> \E g \in held[t] : g[1] = k /\ Removable(g)
      BY DEF Keyed
    <2>2. pool' = [k \in Keys |-> IF k \in Keyed(gs) THEN NoState ELSE pool[k]]
      BY <1>2, <2>1 DEF Purify
    <2>. QED
      BY <1>2, <2>2, EndFlushKeeps DEF Purify, callVars, historyVars
  <1>3. CASE PurifyPanics(t)
    <2>1. PICK gs \in SUBSET {g \in held[t] : Removable(g)} :
            pool' = [k \in Keys |-> IF k \in Keyed(gs) THEN NoState ELSE pool[k]]
      BY <1>3 DEF PurifyPanics
    <2>. QED
      BY <1>3, <2>1, EndFlushKeeps DEF PurifyPanics, callVars
  <1>. QED
    BY <1>1, <1>2, <1>3

-----------------------------------------------------------------------------
(* The theorems                                                            *)

LEMMA InitIInv == Init => IInv
  <1>. SUFFICES ASSUME Init
                PROVE  IInv
    OBVIOUS
  <1>1. TypeOK
    BY InitTypeOK
  <1>2. Shape /\ JobShape /\ DropsAreAnswers /\ Locks
    BY DEF Init, Shape, JobShape, DropsAreAnswers, Locks, Calling
  <1>3. \A s \in States, k \in Keys : ~Names(k, s)
    BY NullsAssumption DEF Init, Names, RefersTo
  <1>4. RecordsServeOneRow /\ LoadedIsPooled
    BY <1>3 DEF RecordsServeOneRow, OneRow, LoadedIsPooled
  <1>5. CallsArePooled /\ GuardsArePooled
    BY DEF Init, CallsArePooled, GuardsArePooled, Calling
  <1>6. NoLostUpdate
    BY DEF Init, NoLostUpdate, PrimaryKeys
  <1>. QED
    BY <1>1, <1>2, <1>4, <1>5, <1>6 DEF IInv

LEMMA ComputeKeeps ==
  ASSUME IInv, TypeOK', NEW t \in Users, Compute(t)
  PROVE  IInv'
  <1>. t \in Tasks
    BY DEF Tasks
  <1>1. CASE \E kd \in OpKinds, k \in Keys, ws \in SUBSET Writes : FetchUpdateState(t, kd, k, ws)
    BY <1>1, FetchKeeps
  <1>2. CASE \E kd \in OpKinds, k \in Keys, ws \in SUBSET Writes, s \in States :
               CreateUpdateState(t, kd, k, ws, s)
    BY <1>2, CreateKeeps
  <1>3. CASE LockUpdate(t)
    BY <1>3, LockKeeps
  <1>4. CASE DcRespond(t)
    BY <1>4, RespondKeeps
  <1>5. CASE DcFail(t)
    BY <1>5, EndOfCall DEF DcFail, iterVars
  <1>6. CASE Reinsert(t) \/ DropUpdate(t)
    \* Nothing was taken out of the record, or it was put back.
    <2>1. prev[t] = {}
      BY <1>6 DEF Reinsert, DropUpdate, IInv, Shape
    <2>2. prev = [prev EXCEPT ![t] = {}] /\ forsaken = forsaken \cup prev[t]
      BY <2>1 DEF IInv, TypeOK
    <2>. QED
      BY <1>6, <2>2, EndOfCall DEF Reinsert, DropUpdate, iterVars, historyVars
  <1>7. CASE ReinsertToDrop(t)
    BY <1>7, ReinsertToDropKeeps
  <1>. QED
    BY <1>1, <1>2, <1>3, <1>4, <1>5, <1>6, <1>7 DEF Compute

LEMMA FlushKeeps ==
  ASSUME IInv, TypeOK', NEW t \in Flushers, Flush(t)
  PROVE  IInv'
  <1>1. CASE \E ks \in SUBSET Keys : BeginFlush(t, ks)
    BY <1>1, BeginFlushKeeps
  <1>2. CASE \E k \in Keys : BeginFlushOne(t, k)
    BY <1>2, BeginFlushOneKeeps
  <1>3. CASE FlushStep(t)
    BY <1>3, NextKeyKeeps, ResetKeeps, FlushOneLockKeeps, ConfirmItemKeeps, CommitKeeps, FlushEndsKeep
    DEF FlushStep
  <1>. QED
    BY <1>1, <1>2, <1>3 DEF Flush

LEMMA StutterKeeps ==
  ASSUME IInv, UNCHANGED vars
  PROVE  IInv'
  <1>. USE DEF vars, callVars, iterVars, historyVars
  <1>1. TypeOK' /\ Shape' /\ JobShape' /\ DropsAreAnswers' /\ Locks'
    BY DEF IInv, TypeOK, Shape, JobShape, DropsAreAnswers, Locks
  <1>2. \A s \in States, k \in Keys : Names(k, s)' <=> Names(k, s)
    BY DEF Names, RefersTo
  <1>3. RecordsServeOneRow' /\ LoadedIsPooled'
    <2>1. \A s \in States : Loaded(s)' => Loaded(s)
      BY DEF Loaded
    <2>. QED
      BY <1>2, <2>1, FewerNames, FewerLoaded DEF IInv
  <1>4. CallsArePooled' /\ GuardsArePooled'
    BY DEF IInv, CallsArePooled, GuardsArePooled, Kept
  <1>5. NoLostUpdate'
    BY DEF IInv, NoLostUpdate, Pending
  <1>. QED
    BY <1>1, <1>3, <1>4, <1>5 DEF IInv

LEMMA IInvStep ==
  ASSUME IInv, [Next]_vars
  PROVE  IInv'
  <1>1. ASSUME NEW t \in Users, Compute(t)
        PROVE  IInv'
    BY <1>1, ComputeTypes, ComputeKeeps DEF IInv
  <1>2. ASSUME NEW t \in Flushers, Flush(t)
        PROVE  IInv'
    BY <1>2, FlushTypes, FlushKeeps DEF IInv
  <1>. QED
    BY <1>1, <1>2, StutterKeeps DEF Next

\* The records, the locks, the references and the iterators stay in order: one record serves
\* one row, a guard is on the pool's record, and what is loaded is pooled.
THEOREM Inductive == Spec => []IInv
  <1>1. IInv /\ [Next]_vars => IInv'
    BY IInvStep
  <1>. QED
    BY <1>1, InitIInv, PTL DEF Spec

\* Whatever the calls, the flushes, their interleaving and the failures of write_back, an
\* accepted write is in the backend, in the record the pool has for its row, or in the hands
\* of the call that is merging with it, unless that call failed with it, or the row was once
\* dropped (get_update_state_and_compute, _purify_updates).
THEOREM WritesAreKept == Spec => []NoLostUpdate
  <1>1. IInv => NoLostUpdate
    BY DEF IInv
  <1>. QED
    BY <1>1, Inductive, PTL

\* The calls on one primary key and the pool never disagree on the record of its row.
THEOREM WritersShare == Spec => []WritersShareRecord
  <1>1. IInv => WritersShareRecord
    BY DEF IInv, WritersShareRecord, CallsArePooled, Shape, Tasks
  <1>. QED
    BY <1>1, Inductive, PTL

\* The guards of an update iterator are on the records the pool has for their rows.
THEOREM GuardsMatch == Spec => []GuardsMatchPool
  <1>1. IInv => GuardsMatchPool
    BY DEF IInv, GuardsMatchPool, GuardsArePooled, Locks, Kept, Tasks
  <1>. QED
    BY <1>1, Inductive, PTL

\* The unwrap of _purify_updates fails for no guard taken under the primary key of a row that
\* was never dropped, with any number of flushes and calls, secondary keys and failures.
THEOREM PurifyNeverPanics == Spec => []NoPanic
  <1>1. Init => NoPanic
    BY DEF Init, NoPanic
  <1>2. ASSUME IInv, NoPanic, [Next]_vars
        PROVE  NoPanic'
    <2>1. ASSUME NEW t \in Flushers, PurifyPanics(t)
          PROVE  NoPanic'
      <3>1. PICK k \in Keyed(held[t]) \ Pooled : panicked' = panicked \cup {k}
        BY <2>1 DEF PurifyPanics
      <3>2. PICK g \in held[t] : g[1] = k
        BY <3>1 DEF Keyed
      <3>3. /\ g[1] \in Keys /\ g[2] \in States
            /\ Kept(g[1]) => pool[PrimaryOf[g[1]]] = g[2]
        BY <1>2 DEF IInv, TypeOK, Guard, GuardsArePooled, Tasks
      <3>4. k \notin PrimaryKeys \ dropped
        BY <3>1, <3>2, <3>3, NullsAssumption DEF Pooled, PrimaryKeys, Kept
      <3>5. dropped' = dropped
        BY <2>1 DEF PurifyPanics
      <3>. QED
        BY <1>2, <3>1, <3>4, <3>5 DEF NoPanic
    <2>2. ASSUME panicked' = panicked, dropped \subseteq dropped'
          PROVE  NoPanic'
      BY <1>2, <2>2 DEF NoPanic
    <2>3. ASSUME NEW t \in Users, Compute(t)
          PROVE  panicked' = panicked /\ dropped \subseteq dropped'
      BY <2>3 DEF Compute, FetchUpdateState, CreateUpdateState, LockUpdate, DcRespond, DcFail,
                  Reinsert, ReinsertToDrop, DropUpdate, historyVars
    <2>4. ASSUME NEW t \in Flushers, Flush(t), ~PurifyPanics(t)
          PROVE  panicked' = panicked /\ dropped \subseteq dropped'
      BY <2>4 DEF Flush, FlushStep, BeginFlush, BeginFlushOne, NextKey, ResetIterator, FlushOneLock,
                  ConfirmItem, Commit, LeaveUnconfirmed, FlushFails, Purify, historyVars
    <2>. QED
      BY <1>2, <2>1, <2>2, <2>3, <2>4 DEF Next, vars, historyVars
  <1>. QED
    BY <1>1, <1>2, Inductive, PTL DEF Spec

=============================================================================
