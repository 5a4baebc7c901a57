---------------------------- MODULE Monitor_proofs ----------------------------
(***************************************************************************)
(* What the background task owes to the users of the cache, for any number *)
(* of users and writes: its failures are reported, and it does not end     *)
(* before it has flushed.                                                  *)
(***************************************************************************)
EXTENDS Monitor, TLAPS

LEMMA MonitorInit == Init => MonitorInv
  BY DEF Init, MonitorInv, TypeOK, MonitorStates, CallStates, FailureIsReported, OwedIsKnown,
         AskedIsOwed, InputsAreUnused

-----------------------------------------------------------------------------
(* The calls of the users                                                  *)

\* A call that writes nothing and does not run the monitor.
LEMMA QuietCallKeeps ==
  ASSUME MonitorInv, NEW u \in Users,
         TakeError(u) \/ SoftFlush(u) \/ BeginUserFlush(u) \/ BeginClose(u) \/ EndClose(u) \/ CheckTask(u)
  PROVE  MonitorInv'
  <1>. USE DEF MonitorInv, TakeError, SoftFlush, BeginUserFlush, BeginClose, EndClose, CheckTask, Enter,
               Notify, monitorVars
  <1>1. TypeOK'
    BY DEF TypeOK, MonitorStates, CallStates
  <1>2. FailureIsReported'
    BY DEF FailureIsReported, Spawns
  <1>3. OwedIsKnown'
    BY DEF OwedIsKnown, Spawns
  <1>4. InputsAreUnused'
    BY DEF InputsAreUnused, TypeOK
  <1>5. AskedIsOwed'
    BY DEF AskedIsOwed, Spawns, TypeOK, ClosedLockFree
  <1>. QED
    BY <1>1, <1>2, <1>3, <1>4, <1>5

\* A call begins, with a write that is used nowhere else, or none.
LEMMA BeginCallKeeps ==
  ASSUME MonitorInv, NEW u \in Users, NEW ws \in SUBSET Writes, BeginCall(u, ws)
  PROVE  MonitorInv'
  <1>. USE DEF MonitorInv, BeginCall, Enter, monitorVars
  <1>1. TypeOK'
    BY DEF TypeOK, CallStates
  <1>2. FailureIsReported' /\ OwedIsKnown'
    BY DEF FailureIsReported, OwedIsKnown
  <1>3. ws \cap (pending \cup durable \cup UNION {input[v] : v \in Users}) = {}
    BY DEF Unused
  <1>4. \A v \in Users : ws \cap input[v] = {}
    BY <1>3
  <1>5. /\ input'[u] = ws
        /\ \A v \in Users \ {u} : input'[v] = input[v]
    BY DEF TypeOK
  <1>6. InputsAreUnused'
    BY <1>3, <1>4, <1>5 DEF InputsAreUnused, Unused
  <1>7. AskedIsOwed'
    BY DEF AskedIsOwed, TypeOK
  <1>. QED
    BY <1>1, <1>2, <1>6, <1>7

\* A call puts its write into the pool.
LEMMA UpdateKeeps ==
  ASSUME MonitorInv, NEW u \in Users, Update(u)
  PROVE  MonitorInv'
  <1>. USE DEF MonitorInv, Update, monitorVars
  <1>1. TypeOK'
    BY DEF TypeOK, CallStates, InputsAreUnused
  <1>2. FailureIsReported' /\ OwedIsKnown'
    BY DEF FailureIsReported, OwedIsKnown
  <1>3. /\ input'[u] = {}
        /\ \A v \in Users \ {u} : input'[v] = input[v]
    BY DEF TypeOK
  <1>4. InputsAreUnused'
    BY <1>3 DEF InputsAreUnused
  <1>5. AskedIsOwed'
    BY DEF AskedIsOwed, TypeOK
  <1>. QED
    BY <1>1, <1>2, <1>4, <1>5

\* A flush of a user writes what it can lock, or fails.
LEMMA UserFlushKeeps ==
  ASSUME MonitorInv, NEW u \in Users, UserFlush(u)
  PROVE  MonitorInv'
  <1>. USE DEF MonitorInv, UserFlush, monitorVars
  <1>1. TypeOK'
    BY DEF TypeOK, CallStates
  <1>2. FailureIsReported' /\ OwedIsKnown'
    BY DEF FailureIsReported, OwedIsKnown
  <1>3. InputsAreUnused'
    BY DEF InputsAreUnused
  <1>4. AskedIsOwed'
    BY DEF AskedIsOwed, TypeOK
  <1>. QED
    BY <1>1, <1>2, <1>3, <1>4

-----------------------------------------------------------------------------
(* The background task                                                     *)

\* The steps of the task that write nothing.
LEMMA MonitorStepKeeps ==
  ASSUME MonitorInv, Start \/ LoopTop \/ CheckOwnError \/ BeginFlush \/ FlushFails \/ SetError
  PROVE  MonitorInv'
  <1>. USE DEF MonitorInv, Start, LoopTop, CheckOwnError, BeginFlush, FlushFails, SetError
  <1>1. TypeOK'
    BY DEF TypeOK, MonitorStates
  <1>2. FailureIsReported'
    BY DEF FailureIsReported
  <1>3. OwedIsKnown'
    BY DEF OwedIsKnown
  <1>4. InputsAreUnused'
    BY DEF InputsAreUnused
  <1>5. AskedIsOwed'
    BY DEF AskedIsOwed
  <1>. QED
    BY <1>1, <1>2, <1>3, <1>4, <1>5

\* A wait ends: the task that sees the shutdown flushes, if there is anything to flush.
LEMMA WakeKeeps ==
  ASSUME MonitorInv, Wake
  PROVE  MonitorInv'
  <1>. USE DEF MonitorInv
  <1>1. PICK due \in BOOLEAN : WakeUp(shutdown, forced \/ shutdown \/ due)
    BY DEF Wake
  <1>. USE <1>1 DEF WakeUp
  <1>2. TypeOK'
    BY DEF TypeOK, MonitorStates
  <1>3. FailureIsReported'
    BY DEF FailureIsReported
  <1>4. OwedIsKnown'
    BY DEF OwedIsKnown, PoolEmpty, TypeOK
  <1>5. InputsAreUnused'
    BY DEF InputsAreUnused
  <1>6. AskedIsOwed'
    BY DEF AskedIsOwed, OwedIsKnown
  <1>. QED
    BY <1>2, <1>3, <1>4, <1>5, <1>6

\* A locked record is passed over, and no longer owed.
LEMMA SkipKeeps ==
  ASSUME MonitorInv, NEW u \in Users, NEW w \in Writes, Skip(u, w)
  PROVE  MonitorInv'
  <1>. USE DEF MonitorInv, Skip
  <1>1. TypeOK'
    BY DEF TypeOK
  <1>2. FailureIsReported' /\ OwedIsKnown'
    BY DEF FailureIsReported, OwedIsKnown
  <1>3. InputsAreUnused'
    BY DEF InputsAreUnused
  <1>4. AskedIsOwed'
    BY DEF AskedIsOwed, TypeOK
  <1>. QED
    BY <1>1, <1>2, <1>3, <1>4

\* What the flush began with, and is still in the pool, is written.
LEMMA FlushSucceedsKeeps ==
  ASSUME MonitorInv, FlushSucceeds
  PROVE  MonitorInv'
  <1>. USE DEF MonitorInv, FlushSucceeds
  <1>1. TypeOK'
    BY DEF TypeOK, MonitorStates
  <1>2. FailureIsReported' /\ OwedIsKnown'
    BY DEF FailureIsReported, OwedIsKnown
  <1>3. InputsAreUnused'
    BY DEF InputsAreUnused
  <1>4. AskedIsOwed'
    BY DEF AskedIsOwed, TypeOK
  <1>. QED
    BY <1>1, <1>2, <1>3, <1>4

-----------------------------------------------------------------------------
\* Every step keeps the invariant.
LEMMA MonitorInvStep ==
  ASSUME MonitorInv, [Next]_vars
  PROVE  MonitorInv'
  <1>1. CASE Background
    BY <1>1, MonitorStepKeeps, WakeKeeps, SkipKeeps, FlushSucceedsKeeps DEF Background
  <1>2. ASSUME NEW u \in Users, Call(u)
        PROVE  MonitorInv'
    BY <1>2, QuietCallKeeps, BeginCallKeeps, UpdateKeeps, UserFlushKeeps DEF Call, InCall
  <1>3. CASE UNCHANGED vars
    BY <1>3 DEF vars, monitorVars, MonitorInv, TypeOK, FailureIsReported, OwedIsKnown, AskedIsOwed,
               InputsAreUnused
  <1>. QED
    BY <1>1, <1>2, <1>3 DEF Next

\* The invariant holds in every reachable state, and nothing is pending and durable at once.
THEOREM MonitorInvariant == Spec => []MonitorInv
  <1>1. MonitorInv /\ [Next]_vars => MonitorInv'
    BY MonitorInvStep
  <1>. QED
    BY MonitorInit, <1>1, PTL DEF Spec

\* The failure of a background flush waits for a user in the error slot, which the monitor's
\* own flush may empty and then fills again (check_error, set_error).
THEOREM FailuresAreReported == Spec => []FailureIsReported
  <1>1. MonitorInv => FailureIsReported
    BY DEF MonitorInv
  <1>. QED
    BY MonitorInvariant, <1>1, PTL

\* A monitor that ends has written what the pool had when it saw the shutdown, but for the
\* records that were locked, or has left an error behind.
THEOREM LastFlushIsMade == Spec => []LastFlush
  <1>1. MonitorInv => LastFlush
    BY DEF MonitorInv, OwedIsKnown, LastFlush
  <1>. QED
    BY MonitorInvariant, <1>1, PTL

\* close does not return before the task that was running has written what had been accepted.
THEOREM CloseWaitsForTask == Spec => []CloseWaits
  <1>1. MonitorInv => CloseWaits
    BY DEF MonitorInv, OwedIsKnown, AskedIsOwed, CloseWaits, ClosedLockFree
  <1>. QED
    BY MonitorInvariant, <1>1, PTL

-----------------------------------------------------------------------------
(* The contract of the pool                                                *)

\* The pool as a function of its writes.
PendingOf(ws) == [w \in Writes |-> {w} \cap ws]

\* A write is accepted.
LEMMA UpdateImplements ==
  ASSUME MonitorInv, NEW u \in Users, Update(u)
  PROVE  [WB!Next]_WB!vars
  <1>. USE DEF Update, PendingOf
  <1>1. CASE input[u] = {}
    BY <1>1 DEF WB!vars
  <1>2. ASSUME NEW w \in Writes, input[u] = {w}
        PROVE  WB!Next
    <2>1. w \notin durable
      BY <1>2 DEF MonitorInv, InputsAreUnused
    <2>2. PendingOf(pending') = [PendingOf(pending) EXCEPT ![w] = @ \cup {w}]
      BY <1>2
    <2>3. WB!Merge(w, w)
      BY <2>1, <2>2 DEF WB!Merge
    <2>. QED
      BY <2>3 DEF WB!Next
  <1>. QED
    BY <1>1, <1>2 DEF MonitorInv, InputsAreUnused

\* Some writes leave the pool for the backend.
LEMMA WriteImplements ==
  ASSUME MonitorInv, NEW ws \in SUBSET pending, durable' = durable \cup ws, pending' = pending \ ws
  PROVE  WB!Next
  <1>. USE DEF PendingOf
  <1>1. ws \in SUBSET Writes /\ pending \subseteq Writes
    BY DEF MonitorInv, TypeOK
  <1>2. UNION {PendingOf(pending)[w] : w \in ws} = ws
    <2>1. \A w \in ws : PendingOf(pending)[w] = {w}
      BY <1>1
    <2>2. \A x : x \in UNION {PendingOf(pending)[w] : w \in ws} <=> \E w \in ws : x \in PendingOf(pending)[w]
      BY Zenon DEF PendingOf
    <2>3. \A x : x \in UNION {PendingOf(pending)[w] : w \in ws} <=> x \in ws
      <3>. HIDE DEF PendingOf
      <3>. QED
        BY <2>1, <2>2
    <2>. QED
      <3>. HIDE DEF PendingOf
      <3>. QED
        BY <2>3, Zenon
  <1>3. PendingOf(pending') = [w \in Writes |-> IF w \in ws THEN {} ELSE PendingOf(pending)[w]]
    BY <1>1
  <1>4. WB!WriteBack(ws)
    BY <1>2, <1>3 DEF WB!WriteBack
  <1>. QED
    BY <1>1, <1>4 DEF WB!Next

LEMMA MonitorImplements ==
  ASSUME MonitorInv, [Next]_vars
  PROVE  [WB!Next]_WB!vars
  <1>1. ASSUME UNCHANGED <<pending, durable>>
        PROVE  UNCHANGED WB!vars
    BY <1>1 DEF WB!vars
  <1>2. CASE Background
    <2>1. CASE FlushSucceeds
      BY <2>1, WriteImplements DEF FlushSucceeds
    <2>. QED
      BY <1>1, <1>2, <2>1
      DEF Background, Start, LoopTop, Wake, WakeUp, CheckOwnError, BeginFlush, Skip, FlushFails, SetError
  <1>3. ASSUME NEW u \in Users, Call(u)
        PROVE  [WB!Next]_WB!vars
    <2>1. CASE UserFlush(u)
      <3>1. ASSUME NEW ws \in SUBSET pending, durable' = durable \cup ws, pending' = pending \ ws
            PROVE  WB!Next
        BY <3>1, WriteImplements
      <3>. QED
        BY <1>1, <2>1, <3>1 DEF UserFlush
    <2>. QED
      BY <1>1, <1>3, <2>1, UpdateImplements
      DEF Call, InCall, TakeError, BeginCall, SoftFlush, BeginUserFlush, BeginClose, CheckTask, EndClose
  <1>4. CASE UNCHANGED vars
    BY <1>1, <1>4 DEF vars
  <1>. QED
    BY <1>2, <1>3, <1>4 DEF Next

\* The background task, the flushes of the users and close keep the contract of the pool.
THEOREM MonitorImplementsWriteBehind == Spec => Implements
  <1>1. Init => WB!Init
    BY DEF Init, WB!Init
  <1>. QED
    BY <1>1, MonitorImplements, MonitorInvariant, PTL DEF Spec, Implements, WB!Spec

=============================================================================
