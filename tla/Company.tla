------------------------------- MODULE Company -------------------------------
(***************************************************************************)
(* The caches of the company and the observers that tie them together:     *)
(* orders and sessions refer to customers, so OrderObserver and            *)
(* SessionObserver flush the customers before write_back of an order or a  *)
(* session begins, in the middle of a flush of the other cache.            *)
(*                                                                         *)
(* UpdatePool and Monitor show what a flush of one cache does; here it is  *)
(* the locks it holds while it flushes the other one, and what it finds    *)
(* locked there, that matter. A record is its pending update, if any, and  *)
(* the customer it refers to.                                              *)
(***************************************************************************)
CONSTANTS
  Customers, Orders, Sessions,  \* the records the caches may have
  NoCustomer,                   \* a session nobody has logged into
  Nobody

Dependents == Orders \cup Sessions
Records == Customers \cup Dependents

\* The monitors of the three caches, and the task that plays the script.
Monitors == {"customers", "orders", "sessions"}
Actor == "actor"
Tasks == Monitors \cup {Actor}

ASSUME CompanyAssumption ==
  /\ Customers \cap Dependents = {}
  /\ Orders \cap Sessions = {}
  /\ NoCustomer \notin Customers
  /\ Nobody \notin Tasks

VARIABLES
  customer,  \* the customer each order or session refers to
  known,     \* the records the script has added
  pending,   \* those with an update that is not written
  stored,    \* those the tables have
  holder,    \* the task that has the lock of a record
  pc,        \* where each task's flush is
  keys,      \* the keys its update iterator was built with
  todo,      \* the keys the iterator it is walking has not visited
  held,      \* the records it has locked
  missed,    \* the customers its observer's flush has found locked
  seen       \* the orders or sessions whose customer the observer has flushed

recordVars == <<customer, known, pending, stored>>
vars == <<recordVars, holder, pc, keys, todo, held, missed, seen>>

TypeOK ==
  /\ customer \in [Dependents -> Customers \cup {NoCustomer}]
  /\ stored \in SUBSET known /\ pending \in SUBSET known /\ known \in SUBSET Records
  /\ holder \in [Records -> Tasks \cup {Nobody}]
  /\ pc \in [Tasks -> {"idle", "look", "wait", "waitcustomer", "customers", "reset", "dependents"}]
  /\ keys \in [Tasks -> SUBSET Dependents]
  /\ todo \in [Tasks -> SUBSET Records]
  /\ held \in [Tasks -> SUBSET Records]
  /\ missed \in [Tasks -> SUBSET Customers]
  /\ seen \in [Tasks -> SUBSET Dependents]

Init ==
  /\ customer = [d \in Dependents |-> NoCustomer]
  /\ known = {}
  /\ pending = {}
  /\ stored = {}
  /\ holder = [r \in Records |-> Nobody]
  /\ pc = [t \in Tasks |-> "idle"]
  /\ keys = [t \in Tasks |-> {}]
  /\ todo = [t \in Tasks |-> {}]
  /\ held = [t \in Tasks |-> {}]
  /\ missed = [t \in Tasks |-> {}]
  /\ seen = [t \in Tasks |-> {}]

-----------------------------------------------------------------------------
(* The script                                                              *)

\* What it changes is pending at once; a call on a record waits for its lock.
Accept(r) ==
  /\ pc[Actor] = "idle"
  /\ holder[r] = Nobody
  /\ known' = known \cup {r}
  /\ pending' = pending \cup {r}
  /\ UNCHANGED <<stored, holder, pc, keys, todo, held, missed>>

AddCustomer(c) ==
  /\ c \notin known
  /\ Accept(c)
  /\ UNCHANGED <<customer, seen>>

AddOrder(o, c) ==
  /\ o \notin known
  /\ c \in known
  /\ Accept(o)
  /\ customer' = [customer EXCEPT ![o] = c]
  /\ UNCHANGED seen

UpdateOrder(o) ==
  /\ o \in known
  /\ Accept(o)
  /\ UNCHANGED <<customer, seen>>

\* add_session and update_session: a session gets a customer when one logs in.
PutSession(s, c) ==
  /\ c \in known \cup {NoCustomer}
  /\ Accept(s)
  /\ customer' = [customer EXCEPT ![s] = c]
  /\ seen' = [t \in Tasks |-> IF c = customer[s] THEN seen[t] ELSE seen[t] \ {s}]

-----------------------------------------------------------------------------
(* A flush of the customers, by their monitor or by an observer            *)

\* The pool has a record for what is pending, and may have empty ones.
Pools(rs) == {ks \in SUBSET (rs \cap known) : pending \cap rs \subseteq ks}

EndFlush(t) ==
  /\ pc' = [pc EXCEPT ![t] = "idle"]
  /\ keys' = [keys EXCEPT ![t] = {}]
  /\ todo' = [todo EXCEPT ![t] = {}]
  /\ held' = [held EXCEPT ![t] = {}]
  /\ holder' = [r \in Records |-> IF r \in held[t] THEN Nobody ELSE holder[r]]
  /\ missed' = [missed EXCEPT ![t] = {}]
  /\ seen' = [seen EXCEPT ![t] = {}]

\* UpdateIterator::next: an empty or a locked record is skipped.
Visit(t, r) ==
  /\ r \in todo[t]
  /\ todo' = [todo EXCEPT ![t] = @ \ {r}]
  /\ IF r \in pending /\ holder[r] = Nobody
       THEN /\ held' = [held EXCEPT ![t] = @ \cup {r}]
            /\ holder' = [holder EXCEPT ![r] = t]
       ELSE UNCHANGED <<held, holder>>

VisitCustomer(t, c) ==
  /\ pc[t] = "customers"
  /\ Visit(t, c)
  /\ missed' = IF t # "customers" /\ c \in pending /\ holder[c] # Nobody
                 THEN [missed EXCEPT ![t] = @ \cup {c}]
                 ELSE missed
  /\ UNCHANGED <<recordVars, pc, keys, seen>>

\* What follows a flush of the customers.
AfterCustomers(t) ==
  IF t = "customers" THEN "idle" ELSE IF t = Actor THEN "dependents" ELSE "reset"

WriteCustomers(t) ==
  LET cs == held[t] \cap Customers
  IN
  /\ pc[t] = "customers"
  /\ todo[t] = {}
  /\ stored' = stored \cup cs
  /\ pending' = pending \ cs
  /\ held' = [held EXCEPT ![t] = @ \ cs]
  /\ holder' = [r \in Records |-> IF r \in cs THEN Nobody ELSE holder[r]]
  /\ pc' = [pc EXCEPT ![t] = AfterCustomers(t)]
  /\ UNCHANGED <<customer, known, keys, todo, missed, seen>>

\* A slip: an error leaves the locks of the flush behind.
FailLocked(t) ==
  /\ pc[t] \in {"customers", "dependents"}
  /\ pc' = [pc EXCEPT ![t] = "idle"]
  /\ keys' = [keys EXCEPT ![t] = {}]
  /\ todo' = [todo EXCEPT ![t] = {}]
  /\ held' = [held EXCEPT ![t] = {}]
  /\ missed' = [missed EXCEPT ![t] = {}]
  /\ seen' = [seen EXCEPT ![t] = {}]
  /\ UNCHANGED <<recordVars, holder>>

\* The backend fails; the error of a nested flush is the error of the observer, and of the
\* flush that called it.
Fail(t) ==
  /\ pc[t] \in {"customers", "dependents"}
  /\ EndFlush(t)
  /\ UNCHANGED recordVars

-----------------------------------------------------------------------------
(* A flush of the orders or the sessions                                   *)

Cached(t) ==
  IF t = "customers" THEN Customers ELSE IF t = "orders" THEN Orders ELSE Sessions

\* OrderObserver::on_flush has all the customers flushed; SessionObserver::on_flush walks
\* the iterator it is given first.
BeginFlush(t, ks, cs) ==
  /\ pc[t] = "idle"
  /\ pending \cap Cached(t) # {}
  /\ ks \in Pools(Cached(t))
  /\ cs \in Pools(Customers)
  /\ keys' = [keys EXCEPT ![t] = ks \cap Dependents]
  /\ pc' = [pc EXCEPT ![t] = IF t = "sessions" THEN "look" ELSE "customers"]
  /\ todo' = [todo EXCEPT ![t] = IF t = "orders" THEN cs ELSE ks]
  /\ seen' = [seen EXCEPT ![t] = IF t = "orders" THEN ks ELSE {}]
  /\ UNCHANGED <<recordVars, holder, held, missed>>

LookAt(t, s) ==
  /\ pc[t] = "look"
  /\ Visit(t, s)
  /\ UNCHANGED <<recordVars, pc, keys, missed, seen>>

\* A slip: only the customers of new orders and sessions are flushed.
CustomersOfNew(ds) == {customer[d] : d \in ds \ stored} \ {NoCustomer}

CustomersOf(ds) == {customer[d] : d \in ds} \ {NoCustomer}

\* flush_many_raw of the customers of the sessions it has seen; they remain locked.
FlushCustomersSeen(t) ==
  /\ pc[t] = "look"
  /\ todo[t] = {}
  /\ todo' = [todo EXCEPT ![t] = CustomersOf(held[t])]
  /\ seen' = [seen EXCEPT ![t] = held[t]]
  /\ pc' = [pc EXCEPT ![t] = "customers"]
  /\ UNCHANGED <<recordVars, holder, keys, held, missed>>

\* A slip: the iterator is not reset after the observer has walked it.
NotReset(t) ==
  /\ pc[t] = "reset"
  /\ pc' = [pc EXCEPT ![t] = "dependents"]
  /\ UNCHANGED <<recordVars, holder, keys, todo, held, missed, seen>>

\* UpdateIterator::reset, and write_back begins.
ResetIterator(t) ==
  /\ pc[t] = "reset"
  /\ pc' = [pc EXCEPT ![t] = "dependents"]
  /\ todo' = [todo EXCEPT ![t] = keys[t]]
  /\ held' = [held EXCEPT ![t] = {}]
  /\ holder' = [r \in Records |-> IF r \in held[t] THEN Nobody ELSE holder[r]]
  /\ UNCHANGED <<recordVars, keys, missed, seen>>

VisitDependent(t, d) ==
  /\ pc[t] = "dependents"
  /\ Visit(t, d)
  /\ UNCHANGED <<recordVars, pc, keys, missed, seen>>

\* The foreign keys of the tables.
Writable(d) == customer[d] \in stored \cup {NoCustomer}

WriteDependents(t) ==
  /\ pc[t] = "dependents"
  /\ todo[t] = {}
  /\ \A d \in held[t] : Writable(d)
  /\ stored' = stored \cup held[t]
  /\ pending' = pending \ held[t]
  /\ EndFlush(t)
  /\ UNCHANGED <<customer, known>>

\* The transaction is refused, and all of it stays pending.
Refused(t) ==
  /\ pc[t] = "dependents"
  /\ todo[t] = {}
  /\ \E d \in held[t] : ~Writable(d)
  /\ EndFlush(t)
  /\ UNCHANGED recordVars

-----------------------------------------------------------------------------
(* flush_one of an order or a session that a call does not find in memory  *)

BeginFlushOne(d) ==
  /\ pc[Actor] = "idle"
  /\ d \in pending
  /\ keys' = [keys EXCEPT ![Actor] = {d}]
  /\ pc' = [pc EXCEPT ![Actor] = "wait"]
  /\ UNCHANGED <<recordVars, holder, todo, held, missed, seen>>

\* on_flush_one runs under the lock of the record: OrderObserver has all the customers
\* flushed, SessionObserver the one of the session.
LockOne(cs) ==
  \E d \in keys[Actor] :
    /\ pc[Actor] = "wait"
    /\ holder[d] = Nobody
    /\ IF d \notin pending
         THEN EndFlush(Actor)
         ELSE /\ holder' = [holder EXCEPT ![d] = Actor]
              /\ held' = [held EXCEPT ![Actor] = {d}]
              /\ seen' = [seen EXCEPT ![Actor] = {d}]
              /\ IF d \in Orders
                   THEN /\ cs \in Pools(Customers)
                        /\ todo' = [todo EXCEPT ![Actor] = cs]
                        /\ pc' = [pc EXCEPT ![Actor] = "customers"]
                   ELSE /\ todo' = [todo EXCEPT ![Actor] = CustomersOf({d})]
                        /\ pc' = [pc EXCEPT ![Actor] = "waitcustomer"]
              /\ UNCHANGED <<keys, missed>>
    /\ UNCHANGED recordVars

\* A slip: a customer that is locked is passed over.
TryLockCustomer ==
  /\ pc[Actor] = "waitcustomer"
  /\ LET cs == {c \in todo[Actor] \cap pending : holder[c] = Nobody}
     IN /\ held' = [held EXCEPT ![Actor] = @ \cup cs]
        /\ holder' = [r \in Records |-> IF r \in cs THEN Actor ELSE holder[r]]
  /\ todo' = [todo EXCEPT ![Actor] = {}]
  /\ pc' = [pc EXCEPT ![Actor] = "customers"]
  /\ UNCHANGED <<recordVars, keys, missed, seen>>

\* flush_one of the customer waits for its lock, under that of the session.
LockCustomer ==
  /\ pc[Actor] = "waitcustomer"
  /\ \A c \in todo[Actor] : c \in pending => holder[c] = Nobody
  /\ LET cs == todo[Actor] \cap pending
     IN /\ held' = [held EXCEPT ![Actor] = @ \cup cs]
        /\ holder' = [r \in Records |-> IF r \in cs THEN Actor ELSE holder[r]]
  /\ todo' = [todo EXCEPT ![Actor] = {}]
  /\ pc' = [pc EXCEPT ![Actor] = "customers"]
  /\ UNCHANGED <<recordVars, keys, missed, seen>>

-----------------------------------------------------------------------------
Script ==
  \/ \E c \in Customers : AddCustomer(c)
  \/ \E o \in Orders, c \in Customers : AddOrder(o, c)
  \/ \E o \in Orders : UpdateOrder(o)
  \/ \E s \in Sessions, c \in Customers \cup {NoCustomer} : PutSession(s, c)
  \/ \E d \in Dependents : BeginFlushOne(d)

FlushStep(t) ==
  \/ \E c \in Customers : VisitCustomer(t, c)
  \/ WriteCustomers(t)
  \/ \E s \in Sessions : LookAt(t, s)
  \/ FlushCustomersSeen(t)
  \/ ResetIterator(t)
  \/ \E d \in Dependents : VisitDependent(t, d)
  \/ WriteDependents(t)
  \/ Refused(t)

LockStep == LockCustomer \/ \E cs \in SUBSET Customers : LockOne(cs)

Next ==
  \/ Script
  \/ LockStep
  \/ \E t \in Tasks : FlushStep(t) \/ Fail(t)
  \/ \E t \in Monitors : \E ks \in SUBSET Cached(t), cs \in SUBSET Customers : BeginFlush(t, ks, cs)

Spec == Init /\ [][Next]_vars

-----------------------------------------------------------------------------
(* Safety                                                                  *)

\* write_back of a session that a call flushes by itself is never refused for its customer:
\* flush_one waits until whoever is writing the customer is done, and the session, which
\* stays locked, cannot be given another one (flush_one, SessionObserver::on_flush_one).
SessionOfCallIsWritable ==
  pc[Actor] = "dependents" => \A s \in held[Actor] \cap Sessions : Writable(s)

\* In a flush of all of them, an order or a session is refused only if the record of its
\* customer was locked when the observer's flush came by, or if the session was locked
\* when the observer looked at it, or has a new customer since.
RefusalsAreRaces ==
  \A t \in Tasks :
    pc[t] = "dependents" =>
      \A d \in held[t] : d \in seen[t] => Writable(d) \/ customer[d] \in missed[t]

-----------------------------------------------------------------------------
(* The inductive invariant                                                 *)

\* A record is locked by the flush that counts on it, and by no other, and stays pending
\* until that flush writes it (UpdateIterator's guards).
LocksMatch ==
  \A t \in Tasks : \A r \in held[t] : holder[r] = t /\ r \in pending

LocksAreHeld == \A r \in Records : holder[r] \in Tasks => r \in held[holder[r]]

\* A customer that is not pending is written, and no order or session refers to a stranger.
CustomersAreKept ==
  /\ known \cap Customers \subseteq pending \cup stored
  /\ \A d \in Dependents : customer[d] \in known \cup {NoCustomer}

\* What a flush whose observer has come to the customers knows of d's: it is written, or it
\* was found locked, or the flush still has it to write.
CustomerIsHandled(t, d) ==
  \/ Writable(d)
  \/ pc[t] \in {"reset", "dependents"} /\ customer[d] \in missed[t]
  \/ pc[t] = "customers" /\ customer[d] \in missed[t] \cup todo[t] \cup held[t]
  \/ pc[t] = "waitcustomer" /\ customer[d] \in todo[t]

FlushInv(t) ==
  /\ pc[t] \in {"idle", "wait"} => held[t] = {}
  /\ pc[t] \in {"idle", "wait", "look"} => seen[t] = {}
  /\ pc[t] = "look" => held[t] \subseteq Dependents
  /\ seen[t] \subseteq known
  /\ \A d \in seen[t] : CustomerIsHandled(t, d)

CustomersFlushInv ==
  /\ pc["customers"] \in {"idle", "customers"}
  /\ seen["customers"] = {}
  /\ held["customers"] \subseteq Customers

\* A call flushes no more than its own order or session, with the observer's customers.
CallInv ==
  /\ pc[Actor] \notin {"look", "reset"}
  /\ pc[Actor] \in {"idle", "wait", "waitcustomer"} => missed[Actor] = {}
  /\ pc[Actor] = "waitcustomer" => todo[Actor] \subseteq Customers
  /\ pc[Actor] = "dependents" => todo[Actor] = {}
  /\ held[Actor] \cap Dependents \subseteq seen[Actor]
  /\ held[Actor] \cap Sessions # {} =>
       missed[Actor] = {} /\ (pc[Actor] # "waitcustomer" => todo[Actor] = {})

\* All of it, which no step of a task breaks for itself or for another.
CompanyInv ==
  /\ TypeOK
  /\ LocksMatch /\ LocksAreHeld
  /\ CustomersAreKept
  /\ \A t \in Tasks : FlushInv(t)
  /\ CustomersFlushInv
  /\ CallInv

-----------------------------------------------------------------------------
(* Liveness                                                                *)

\* The monitors flush again and again, a call in progress is polled, and tokio's locks
\* serve those who wait in order.
Fairness ==
  /\ \A t \in Monitors : WF_vars(BeginFlush(t, pending \cap Cached(t), pending \cap Customers))
  /\ \A t \in Tasks : WF_vars(FlushStep(t))
  /\ SF_vars(LockStep)

\* An outage of the backend ends; what looks like a failure is then a refusal by the
\* tables, or a flush of nothing.
Recovery == <>[][\A t \in Tasks : Fail(t) => FlushStep(t)]_vars

LiveSpec == Spec /\ Fairness /\ Recovery

\* A flush under whose locks the other cache is flushed returns: nobody who has a
\* customer's lock waits for that of an order or a session.
FlushesReturn == \A t \in Tasks : pc[t] # "idle" ~> pc[t] = "idle"

\* A refused order or session is not stuck: a later flush finds its customer written.
DependentsAreWritten == \A d \in Dependents : d \in pending ~> d \notin pending

=============================================================================
