--------------------------- MODULE UpdatePoolInv ----------------------------
(***************************************************************************)
(* The inductive invariants of UpdatePool, for every data controller. The  *)
(* parts of IInv say who may have a reference to a record, and what for.   *)
(***************************************************************************)
EXTENDS UpdatePool

\* What a task has at each of its steps.
Shape ==
  \A t \in Tasks :
    /\ job[t] # NoJob <=> pc[t] \in Calling
    /\ pc[t] \in {"idle", "observing"} => ref[t] = NoState
    /\ held[t] # {} => pc[t] \in {"observing", "writing", "purify"}
    /\ prev[t] # {} => pc[t] = "dc" /\ Takes(job[t].kind)
    /\ pc[t] = "flushlock" => \E k \in Keys : listed[t] = {k}
    /\ pc[t] \in {"reinsertdrop", "drop"} => job[t].key \in dropped

\* Only on_access is called with a secondary key, and it modifies nothing.
JobShape ==
  \A t \in Tasks :
    pc[t] \in Calling =>
      /\ job[t].kind = "access" => job[t].writes = {}
      /\ job[t].key \notin PrimaryKeys => job[t].kind = "access"

\* Only a data controller that says so answers with Drop.
DropsAreAnswers == dropped # {} => Immutable

\* Who holds a lock. A task has a record under one key only.
Locks ==
  \A t \in Tasks :
    /\ pc[t] = "dc" =>
         holder[ref[t]] = t /\ (Takes(job[t].kind) => data[ref[t]] = {})
    /\ \A g \in held[t] : holder[g[2]] = t
    /\ \A g, h \in held[t] : g[2] = h[2] => g = h

\* The key a task's reference was found under.
RefersTo(t, k, s) ==
  /\ ref[t] = s
  /\ \/ pc[t] \in Calling /\ job[t].key = k
     \/ pc[t] = "flushlock" /\ listed[t] = {k}

Names(k, s) == pool[k] = s \/ \E t \in Tasks : RefersTo(t, k, s)

\* A record serves one row, under whatever keys it is known.
OneRow(s) ==
  \A j, k \in Keys : Names(j, s) /\ Names(k, s) => PrimaryOf[j] = PrimaryOf[k]

RecordsServeOneRow == \A s \in States : OneRow(s)

\* A record that carries an update, or that a call has taken an update out of.
Loaded(s) == data[s] # {} \/ \E t \in Tasks : prev[t] # {} /\ ref[t] = s

\* The row of a key was never dropped.
Kept(k) == PrimaryOf[k] \notin dropped

\* Such a record is the one the pool has for its row.
LoadedIsPooled ==
  \A s \in States, k \in Keys : Loaded(s) /\ Names(k, s) /\ Kept(k) => pool[PrimaryOf[k]] = s

\* So is the record of a call that can put an update into it ...
CallsArePooled ==
  \A t \in Tasks :
    pc[t] \in Calling /\ job[t].key \in PrimaryKeys \ dropped => pool[job[t].key] = ref[t]

\* ... and the record of a guard; a dropped row is nobody's concern.
GuardsArePooled ==
  \A t \in Tasks : \A g \in held[t] : Kept(g[1]) => pool[PrimaryOf[g[1]]] = g[2]

IInv ==
  /\ TypeOK
  /\ Shape
  /\ JobShape
  /\ DropsAreAnswers
  /\ Locks
  /\ RecordsServeOneRow
  /\ LoadedIsPooled
  /\ CallsArePooled
  /\ GuardsArePooled
  /\ NoLostUpdate

-----------------------------------------------------------------------------
\* The writes a call has in its hands: what it has taken out of the record, and, until the
\* data controller has answered, what it is about to put there.
Hand(t) == prev[t] \cup (IF pc[t] \in {"locking", "dc"} THEN job[t].writes ELSE {})

\* A write is in one place: in the backend, in a record, or in the hands of a call.
OnePlace ==
  /\ \A s \in States : data[s] \cap durable = {}
  /\ \A r, s \in States : r # s => data[r] \cap data[s] = {}
  /\ \A t \in Tasks : Hand(t) \cap durable = {}
  /\ \A t \in Tasks, s \in States : Hand(t) \cap data[s] = {}
  /\ \A t, u \in Tasks : t # u => Hand(t) \cap Hand(u) = {}

\* One that no call has been made for is nowhere, and a call that modifies makes one.
UnusedAreNowhere ==
  /\ Unused \cap durable = {}
  /\ \A s \in States : Unused \cap data[s] = {}
  /\ \A t \in Tasks : Unused \cap Hand(t) = {}

OneWriteEach ==
  \A t \in Tasks :
    pc[t] \in {"locking", "dc"} =>
      IF job[t].kind = "access" THEN job[t].writes = {} ELSE \E w \in Writes : job[t].writes = {w}

PlacesInv == OnePlace /\ UnusedAreNowhere /\ OneWriteEach

-----------------------------------------------------------------------------
\* A lock is held for a data controller call on its record, or by a guard of an iterator.
HolderHasUse ==
  \A s \in States, t \in Tasks :
    holder[s] = t => (pc[t] = "dc" /\ ref[t] = s) \/ s \in Guarded(held[t])

\* A guard lives as long as its flush.
GuardsAreInFlushes ==
  \A t \in Tasks :
    /\ held[t] # {} => pc[t] \in {"observing", "writing", "purify"}
    /\ pc[t] = "flushlock" => listed[t] # {}

HolderInv == TypeOK /\ HolderHasUse /\ GuardsAreInFlushes

=============================================================================
