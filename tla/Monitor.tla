------------------------------- MODULE Monitor -------------------------------
(***************************************************************************)
(* The background task of a cache (monitor_updates), its start by          *)
(* check_task, its end by close, and the error slot the two sides share.   *)
(* The updates pool is seen from outside: the writes it has accepted and   *)
(* not flushed, and whether it has records with nothing in them.           *)
(***************************************************************************)
CONSTANTS
  Users,         \* the tasks that call the cache
  Writes,        \* identities of the modifications they make, each used once
  MayClose,      \* close is called in this instance
  WriteMayFail   \* write_back may return an error

ASSUME MonitorAssumption ==
  {MayClose, WriteMayFail} \subseteq BOOLEAN

VARIABLES
  pending,    \* accepted writes in the pool
  residue,    \* the pool has a record with no update in it
  durable,    \* the writes the backend has
  error,      \* the error slot is set
  shutdown,   \* the flag of close
  closed,     \* the monitor's copy of it, under the `closed` lock
  monitor,    \* where the background task is
  forced,     \* a notification has reached it in its select
  snapshot,   \* the updates its flush began with
  pc,         \* where each user's call is
  input,      \* the write of a call
  asked,      \* the writes accepted before the close that shut down, those aside that the last flush skips
  owed,       \* of the writes in the pool when the monitor saw the shutdown, those it did not skip
  failed,     \* a background flush has failed and no user was told
  excused     \* the monitor's last attempt to flush returned an error

monitorVars == <<closed, monitor, forced, snapshot, owed, excused>>
vars == <<pending, residue, durable, error, shutdown, monitorVars, pc, input, asked, failed>>

MonitorStates == {"none", "spawned", "top", "select", "checking", "flushing", "raising", "finished"}
CallStates == {"idle", "entered", "updating", "flushing", "closing", "closed"}

\* Every variable holds a value of its declared kind, and nothing is pending and durable.
TypeOK ==
  /\ pending \subseteq Writes /\ durable \subseteq Writes /\ pending \cap durable = {}
  /\ snapshot \subseteq Writes /\ owed \subseteq Writes
  /\ {residue, error, shutdown, closed, forced, failed, excused} \subseteq BOOLEAN
  /\ monitor \in MonitorStates
  /\ pc \in [Users -> CallStates]
  /\ input \in [Users -> SUBSET Writes]
  /\ asked \in [Users -> SUBSET Writes]

Init ==
  /\ pending = {} /\ residue = FALSE /\ durable = {}
  /\ error = FALSE /\ shutdown = FALSE /\ closed = FALSE
  /\ monitor = "none" /\ forced = FALSE /\ snapshot = {}
  /\ pc = [u \in Users |-> "idle"]
  /\ input = [u \in Users |-> {}]
  /\ asked = [u \in Users |-> {}]
  /\ owed = {} /\ failed = FALSE /\ excused = FALSE

-----------------------------------------------------------------------------
(* The users' calls                                                        *)

\* A user whose close has returned may go on calling.
MayCall(u) == pc[u] \in {"idle", "closed"}

\* check_error takes the error out of the slot and returns it to the caller.
TakeError(u) ==
  /\ MayCall(u)
  /\ error
  /\ error' = FALSE
  /\ failed' = FALSE
  /\ UNCHANGED <<pending, residue, durable, shutdown, monitorVars, pc, input, asked>>

Enter(u, state) ==
  /\ MayCall(u)
  /\ ~error
  /\ pc' = [pc EXCEPT ![u] = state]

Unused == Writes \ (pending \cup durable \cup UNION {input[u] : u \in Users})

\* insert, delete or a compute with a modification, or (ws = {}) a read.
BeginCall(u, ws) ==
  /\ Enter(u, "entered")
  /\ ws = {} \/ \E w \in Unused : ws = {w}
  /\ input' = [input EXCEPT ![u] = ws]
  /\ UNCHANGED <<pending, residue, durable, error, shutdown, monitorVars, asked, failed>>

\* A missing or finished monitor is started.
Spawns == monitor \in {"none", "finished"}

CheckTask(u) ==
  /\ pc[u] = "entered"
  /\ pc' = [pc EXCEPT ![u] = "updating"]
  /\ monitor' = IF Spawns THEN "spawned" ELSE monitor
  /\ UNCHANGED <<pending, residue, durable, error, shutdown, closed, forced, snapshot, input, asked, owed, failed, excused>>

\* The rest of get_update_state_and_compute: a read leaves a record with no update.
Update(u) ==
  /\ pc[u] = "updating"
  /\ pc' = [pc EXCEPT ![u] = "idle"]
  /\ pending' = pending \cup input[u]
  /\ residue' = (residue \/ input[u] = {})
  /\ input' = [input EXCEPT ![u] = {}]
  /\ UNCHANGED <<durable, error, shutdown, monitorVars, asked, failed>>

\* notify_waiters reaches the task only while it waits in its select.
Notify == forced' = (forced \/ monitor = "select")

SoftFlush(u) ==
  /\ Enter(u, "idle")
  /\ Notify
  /\ UNCHANGED <<pending, residue, durable, error, shutdown, closed, monitor, snapshot, input, asked, owed, failed, excused>>

BeginUserFlush(u) ==
  /\ Enter(u, "flushing")
  /\ input' = [input EXCEPT ![u] = {}]
  /\ UNCHANGED <<pending, residue, durable, error, shutdown, monitorVars, asked, failed>>

\* A call or a flush of somebody else may hold records.
OthersLock(u) ==
  \/ monitor = "flushing"
  \/ \E v \in Users \ {u} : pc[v] \in {"updating", "flushing"}

\* flush_raw of a user: what its iterator can lock is written, or nothing is.
UserFlush(u) ==
  /\ pc[u] = "flushing"
  /\ pc' = [pc EXCEPT ![u] = "idle"]
  /\ \/ \E ws \in SUBSET pending :
          /\ ws = pending \/ OthersLock(u)
          /\ durable' = durable \cup ws
          /\ pending' = pending \ ws
     \/ WriteMayFail /\ UNCHANGED <<pending, durable>>
  /\ UNCHANGED <<residue, error, shutdown, monitorVars, input, asked, failed>>

\* The shutdown flag is set once; a second close returns at once, and asks for nothing.
BeginClose(u) ==
  /\ MayClose
  /\ Enter(u, IF shutdown THEN "closed" ELSE "closing")
  /\ shutdown' = TRUE
  /\ IF shutdown THEN UNCHANGED forced ELSE Notify
  /\ asked' = IF shutdown THEN asked ELSE [asked EXCEPT ![u] = pending]
  /\ UNCHANGED <<pending, residue, durable, error, closed, monitor, snapshot, input, owed, failed, excused>>

\* The lock of `closed` is the monitor's from its first step to its last.
ClosedLockFree == monitor \in {"none", "spawned", "finished"}

EndClose(u) ==
  /\ pc[u] = "closing"
  /\ ClosedLockFree
  /\ pc' = [pc EXCEPT ![u] = "closed"]
  /\ UNCHANGED <<pending, residue, durable, error, shutdown, monitorVars, input, asked, failed>>

-----------------------------------------------------------------------------
(* The monitor                                                             *)

Start ==
  /\ monitor = "spawned"
  /\ monitor' = "top"
  /\ UNCHANGED <<pending, residue, durable, error, shutdown, closed, forced, snapshot, pc, input, asked, owed, failed, excused>>

\* A slip: the loop ends by the flag of close, and not by the copy it has flushed after.
LoopTopByFlag ==
  /\ monitor = "top"
  /\ monitor' = IF shutdown THEN "finished" ELSE "select"
  /\ forced' = FALSE
  /\ UNCHANGED <<pending, residue, durable, error, shutdown, closed, snapshot, pc, input, asked, owed, failed, excused>>

LoopTop ==
  /\ monitor = "top"
  /\ monitor' = IF closed THEN "finished" ELSE "select"
  /\ forced' = FALSE
  /\ UNCHANGED <<pending, residue, durable, error, shutdown, closed, snapshot, pc, input, asked, owed, failed, excused>>

PoolEmpty == pending = {} /\ ~residue

\* A notification or the tick ends the select.
WakeUp(newClosed, flushes) ==
  /\ monitor = "select"
  /\ closed' = newClosed
  /\ owed' = IF newClosed THEN pending ELSE owed
  /\ monitor' = IF ~PoolEmpty /\ flushes THEN "checking" ELSE "top"
  /\ forced' = FALSE
  /\ UNCHANGED <<pending, residue, durable, error, shutdown, snapshot, pc, input, asked, failed, excused>>

\* Slips: the shutdown alone, or a notification alone, makes the monitor flush; a task that
\* was not notified of the shutdown does not look at its flag.
WakeIgnoringShutdown == \E due \in BOOLEAN : WakeUp(shutdown, forced \/ due)
WakeIgnoringTime == WakeUp(shutdown, forced \/ shutdown)
WakeWhenNotified == \E due \in BOOLEAN : WakeUp(shutdown /\ forced, forced \/ shutdown \/ due)

\* A pool that is not empty is flushed when that is forced, at the shutdown, or when it is
\* due: it is over its limit, or the interval since the last flush has elapsed.
Wake == \E due \in BOOLEAN : WakeUp(shutdown, forced \/ shutdown \/ due)

\* flush() begins with check_error, and takes the error the monitor itself has left there.
CheckOwnError ==
  /\ monitor = "checking"
  /\ error
  /\ error' = FALSE
  /\ monitor' = "raising"
  /\ UNCHANGED <<pending, residue, durable, shutdown, closed, forced, snapshot, pc, input, asked, owed, failed, excused>>

BeginFlush ==
  /\ monitor = "checking"
  /\ ~error
  /\ monitor' = "flushing"
  /\ snapshot' = pending
  /\ UNCHANGED <<pending, residue, durable, error, shutdown, closed, forced, pc, input, asked, owed, failed, excused>>

\* The iterator passes over a record that a user's call, or its flush, has locked.
Skip(u, w) ==
  /\ monitor = "flushing" /\ pc[u] \in {"updating", "flushing"}
  /\ w \in snapshot
  /\ snapshot' = snapshot \ {w}
  /\ owed' = owed \ {w}
  /\ asked' = IF closed THEN [v \in Users |-> asked[v] \ {w}] ELSE asked
  /\ UNCHANGED <<pending, residue, durable, error, shutdown, closed, monitor, forced, pc, input, failed, excused>>

\* Slips: the pool is cleared after a flush; what was flushed stays in the pool.
FlushSucceedsClearing ==
  /\ monitor = "flushing"
  /\ monitor' = "top"
  /\ durable' = durable \cup (snapshot \cap pending)
  /\ pending' = {}
  /\ snapshot' = {} /\ excused' = FALSE
  /\ UNCHANGED <<residue, error, shutdown, closed, forced, pc, input, asked, owed, failed>>

FlushSucceedsKeeping ==
  /\ monitor = "flushing"
  /\ monitor' = "top"
  /\ durable' = durable \cup pending
  /\ snapshot' = {} /\ excused' = FALSE
  /\ UNCHANGED <<pending, residue, error, shutdown, closed, forced, pc, input, asked, owed, failed>>

\* What the pool has under the keys the flush began with becomes durable.
FlushSucceeds ==
  /\ monitor = "flushing"
  /\ monitor' = "top"
  /\ \E ws \in SUBSET pending :
       /\ snapshot \cap pending \subseteq ws
       /\ durable' = durable \cup ws
       /\ pending' = pending \ ws
  /\ snapshot' = {}
  /\ excused' = FALSE
  /\ UNCHANGED <<residue, error, shutdown, closed, forced, pc, input, asked, owed, failed>>

FlushFails ==
  /\ WriteMayFail
  /\ monitor = "flushing"
  /\ monitor' = "raising"
  /\ failed' = TRUE
  /\ snapshot' = {}
  /\ UNCHANGED <<pending, residue, durable, error, shutdown, closed, forced, pc, input, asked, owed, excused>>

\* Slip: the monitor only logs a failed flush.
SetErrorNot ==
  /\ monitor = "raising"
  /\ monitor' = "top"
  /\ excused' = TRUE
  /\ UNCHANGED <<pending, residue, durable, error, shutdown, closed, forced, snapshot, pc, input, asked, owed, failed>>

SetError ==
  /\ monitor = "raising"
  /\ monitor' = "top"
  /\ error' = TRUE
  /\ excused' = TRUE
  /\ UNCHANGED <<pending, residue, durable, shutdown, closed, forced, snapshot, pc, input, asked, owed, failed>>

-----------------------------------------------------------------------------
InCall(u) == CheckTask(u) \/ Update(u) \/ UserFlush(u) \/ EndClose(u)

Call(u) ==
  \/ TakeError(u)
  \/ \E ws \in SUBSET Writes : BeginCall(u, ws)
  \/ SoftFlush(u)
  \/ BeginUserFlush(u)
  \/ BeginClose(u)
  \/ InCall(u)

Background ==
  \/ Start \/ LoopTop \/ Wake \/ CheckOwnError \/ BeginFlush
  \/ (\E u \in Users, w \in Writes : Skip(u, w))
  \/ FlushSucceeds \/ FlushFails \/ SetError

Next == Background \/ \E u \in Users : Call(u)

Spec == Init /\ [][Next]_vars

-----------------------------------------------------------------------------
(* Safety                                                                  *)

\* The failure of a background flush stays in the slot, or in the hands of the monitor
\* that found it there, until a call of a user returns it (check_error, set_error).
FailureIsReported == failed => error \/ monitor = "raising"

\* A monitor that ends has flushed what was in the pool when it saw the shutdown, but for
\* the records that calls had locked then, unless its last attempt failed.
LastFlush == closed /\ monitor = "finished" => owed \subseteq durable \/ excused

\* close waits for a task that runs: when it may return after the task has seen the shutdown,
\* or has ended, what was accepted before the call is in the backend, the records aside
\* that were locked in the last flush, unless that flush has failed (close, monitor_updates).
CloseWaits ==
  \A u \in Users :
    pc[u] = "closing" /\ ClosedLockFree /\ (closed \/ monitor = "finished") =>
      asked[u] \subseteq durable \/ excused

\* The call of close that shuts the cache down returns when all that was accepted before it is
\* in the backend, as its documentation says: it blocks until the task has flushed all updates
\* and is finished.
CloseDrains == \A u \in Users : pc[u] = "closed" => asked[u] \subseteq durable

\* Why LastFlush holds: the monitor that sees the shutdown does not wait any more, and what
\* it owes is on the list its flush began with.
OwedIsKnown ==
  /\ owed \subseteq pending \cup durable
  /\ closed => monitor \notin {"none", "select"}
  /\ closed /\ monitor = "flushing" => owed \subseteq snapshot \cup durable
  /\ closed /\ monitor \in {"spawned", "top", "finished"} => owed \subseteq durable \/ excused

\* What a call is about to write is nowhere else.
InputsAreUnused ==
  \A u \in Users :
    /\ input[u] \cap (pending \cup durable) = {}
    /\ \A v \in Users \ {u} : input[u] \cap input[v] = {}
    /\ input[u] = {} \/ \E w \in Writes : input[u] = {w}

\* Why CloseWaits holds: what close has asked for is owed by the monitor that sees its flag.
AskedIsOwed ==
  /\ closed => shutdown
  /\ monitor = "finished" => closed
  /\ \A u \in Users :
       /\ asked[u] \subseteq pending \cup durable
       /\ closed /\ pc[u] = "closing" => asked[u] \subseteq owed \cup durable

MonitorInv == TypeOK /\ FailureIsReported /\ OwedIsKnown /\ AskedIsOwed /\ InputsAreUnused

\* The pool, as it is seen from here, keeps the contract that UpdatePool implements: each
\* write is a row of its own, it stays in the pool until it is written, and is written once.
WB == INSTANCE WriteBehind WITH
  Rows <- Writes, pending <- [w \in Writes |-> {w} \cap pending], forsaken <- {}

Implements == WB!Spec

-----------------------------------------------------------------------------
(* Liveness                                                                *)

\* The runtime polls the task and the calls; ticks never stop; the flush interval elapses
\* again and again; no record is locked at every pass of the iterator; the lock of `closed`
\* is first come, first served.
MonitorFairness ==
  /\ WF_vars(Background)
  /\ SF_vars(Wake /\ monitor' = "checking")
  /\ \A w \in Writes : SF_vars(FlushSucceeds /\ w \notin pending')
  /\ \A u \in Users : WF_vars(InCall(u)) /\ SF_vars(EndClose(u))

\* An error that the monitor sets again and again is met by some call again and again.
UsersCall == []<>error => []<><<\E u \in Users : TakeError(u)>>_vars

\* An outage of the backend ends.
Recovery == <>[][~FlushFails]_vars

MonitorSpec == Spec /\ MonitorFairness /\ Recovery

LiveSpec == MonitorSpec /\ UsersCall

\* The task flushes what is in the pool, if a flush fails again after the users have seen
\* the error, and as long as the cache is not being shut down.
PendingIsFlushed ==
  \A w \in Writes : w \in pending ~> w \notin pending \/ shutdown

\* close never hangs: the monitor sees the flag though the notification may be lost.
CloseReturns == \A u \in Users : pc[u] = "closing" ~> pc[u] = "closed"

=============================================================================
