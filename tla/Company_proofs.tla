---------------------------- MODULE Company_proofs ----------------------------
(***************************************************************************)
(* The inductive invariant of Company and what follows from it, for any    *)
(* customers, orders and sessions: one lemma for each step.                *)
(***************************************************************************)
EXTENDS Company, TLAPS

USE CompanyAssumption DEF Tasks, Monitors, Actor, Records, Dependents

LEMMA AddCustomerStep ==
  ASSUME CompanyInv, NEW c \in Customers, AddCustomer(c)
  PROVE  CompanyInv'
<1> USE DEF CompanyInv, AddCustomer, Accept, TypeOK
<1>1. TypeOK'
  BY DEF LocksMatch
<1>2. LocksMatch'
  BY DEF LocksMatch, LocksAreHeld
<1>3. LocksAreHeld'
  BY DEF LocksMatch, LocksAreHeld
<1>4. CustomersAreKept'
  BY DEF LocksMatch, CustomersAreKept
<1>5. ASSUME NEW x \in Tasks PROVE FlushInv(x)'
  BY <1>5 DEF LocksMatch, CustomersAreKept, FlushInv, CustomerIsHandled, Writable, CustomersFlushInv
<1>6. CustomersFlushInv'
  BY DEF CustomersFlushInv, FlushInv, LocksMatch
<1>7. CallInv'
  BY DEF CallInv, FlushInv, LocksMatch
<1> QED BY <1>1, <1>2, <1>3, <1>4, <1>5, <1>6, <1>7

LEMMA AddOrderStep ==
  ASSUME CompanyInv, NEW o \in Orders, NEW c \in Customers, AddOrder(o, c)
  PROVE  CompanyInv'
<1> USE DEF CompanyInv, AddOrder, Accept, TypeOK
<1>1. TypeOK'
  BY DEF LocksMatch
<1>2. LocksMatch'
  BY DEF LocksMatch, LocksAreHeld
<1>3. LocksAreHeld'
  BY DEF LocksMatch, LocksAreHeld
<1>4. CustomersAreKept'
  BY DEF LocksMatch, CustomersAreKept
<1>5. ASSUME NEW x \in Tasks PROVE FlushInv(x)'
  BY <1>5 DEF LocksMatch, CustomersAreKept, FlushInv, CustomerIsHandled, Writable, CustomersFlushInv
<1>6. CustomersFlushInv'
  BY DEF CustomersFlushInv, FlushInv, LocksMatch
<1>7. CallInv'
  BY DEF CallInv, FlushInv, LocksMatch
<1> QED BY <1>1, <1>2, <1>3, <1>4, <1>5, <1>6, <1>7

LEMMA UpdateOrderStep ==
  ASSUME CompanyInv, NEW o \in Orders, UpdateOrder(o)
  PROVE  CompanyInv'
<1> USE DEF CompanyInv, UpdateOrder, Accept, TypeOK
<1>1. TypeOK'
  BY DEF LocksMatch
<1>2. LocksMatch'
  BY DEF LocksMatch, LocksAreHeld
<1>3. LocksAreHeld'
  BY DEF LocksMatch, LocksAreHeld
<1>4. CustomersAreKept'
  BY DEF LocksMatch, CustomersAreKept
<1>5. ASSUME NEW x \in Tasks PROVE FlushInv(x)'
  BY <1>5 DEF LocksMatch, CustomersAreKept, FlushInv, CustomerIsHandled, Writable, CustomersFlushInv
<1>6. CustomersFlushInv'
  BY DEF CustomersFlushInv, FlushInv, LocksMatch
<1>7. CallInv'
  BY DEF CallInv, FlushInv, LocksMatch
<1> QED BY <1>1, <1>2, <1>3, <1>4, <1>5, <1>6, <1>7

LEMMA PutSessionStep ==
  ASSUME CompanyInv, NEW s \in Sessions, NEW c \in Customers \cup {NoCustomer}, PutSession(s, c)
  PROVE  CompanyInv'
<1> USE DEF CompanyInv, PutSession, Accept, TypeOK
<1>1. TypeOK'
  BY DEF LocksMatch
<1>2. LocksMatch'
  BY DEF LocksMatch, LocksAreHeld
<1>3. LocksAreHeld'
  BY DEF LocksMatch, LocksAreHeld
<1>4. CustomersAreKept'
  BY DEF LocksMatch, CustomersAreKept
<1>5. ASSUME NEW x \in Tasks PROVE FlushInv(x)'
  BY <1>5 DEF LocksMatch, CustomersAreKept, FlushInv, CustomerIsHandled, Writable, CustomersFlushInv
<1>6. CustomersFlushInv'
  BY DEF CustomersFlushInv, FlushInv, LocksMatch
<1>7. CallInv'
  BY DEF CallInv, FlushInv, LocksMatch
<1> QED BY <1>1, <1>2, <1>3, <1>4, <1>5, <1>6, <1>7

LEMMA VisitCustomerStep ==
  ASSUME CompanyInv, NEW t \in Tasks, NEW c \in Customers, VisitCustomer(t, c)
  PROVE  CompanyInv'
<1> USE DEF CompanyInv, VisitCustomer, Visit, recordVars, TypeOK
<1>1. TypeOK'
  BY DEF LocksMatch
<1>2. LocksMatch'
  BY DEF LocksMatch, LocksAreHeld
<1>3. LocksAreHeld'
  BY DEF LocksMatch, LocksAreHeld
<1>4. CustomersAreKept'
  BY DEF LocksMatch, CustomersAreKept
<1>5. ASSUME NEW x \in Tasks PROVE FlushInv(x)'
  BY <1>5 DEF LocksMatch, CustomersAreKept, FlushInv, CustomerIsHandled, Writable, CustomersFlushInv
<1>6. CustomersFlushInv'
  BY DEF CustomersFlushInv, FlushInv, LocksMatch
<1>7. CallInv'
  BY DEF CallInv, FlushInv, LocksMatch
<1> QED BY <1>1, <1>2, <1>3, <1>4, <1>5, <1>6, <1>7

LEMMA WriteCustomersStep ==
  ASSUME CompanyInv, NEW t \in Tasks, WriteCustomers(t)
  PROVE  CompanyInv'
<1> USE DEF CompanyInv, WriteCustomers, AfterCustomers, TypeOK
<1>1. TypeOK'
  BY DEF LocksMatch
<1>2. LocksMatch'
  BY DEF LocksMatch, LocksAreHeld
<1>3. LocksAreHeld'
  BY DEF LocksMatch, LocksAreHeld
<1>4. CustomersAreKept'
  BY DEF LocksMatch, CustomersAreKept
<1>5. ASSUME NEW x \in Tasks PROVE FlushInv(x)'
  BY <1>5 DEF LocksMatch, CustomersAreKept, FlushInv, CustomerIsHandled, Writable, CustomersFlushInv
<1>6. CustomersFlushInv'
  BY DEF CustomersFlushInv, FlushInv, LocksMatch
<1>7. CallInv'
  BY DEF CallInv, FlushInv, LocksMatch
<1> QED BY <1>1, <1>2, <1>3, <1>4, <1>5, <1>6, <1>7

LEMMA FailStep ==
  ASSUME CompanyInv, NEW t \in Tasks, Fail(t)
  PROVE  CompanyInv'
<1> USE DEF CompanyInv, Fail, EndFlush, recordVars, TypeOK
<1>1. TypeOK'
  BY DEF LocksMatch
<1>2. LocksMatch'
  BY DEF LocksMatch, LocksAreHeld
<1>3. LocksAreHeld'
  BY DEF LocksMatch, LocksAreHeld
<1>4. CustomersAreKept'
  BY DEF LocksMatch, CustomersAreKept
<1>5. ASSUME NEW x \in Tasks PROVE FlushInv(x)'
  BY <1>5 DEF LocksMatch, CustomersAreKept, FlushInv, CustomerIsHandled, Writable, CustomersFlushInv
<1>6. CustomersFlushInv'
  BY DEF CustomersFlushInv, FlushInv, LocksMatch
<1>7. CallInv'
  BY DEF CallInv, FlushInv, LocksMatch
<1> QED BY <1>1, <1>2, <1>3, <1>4, <1>5, <1>6, <1>7

LEMMA BeginFlushStep ==
  ASSUME CompanyInv, NEW t \in Monitors, NEW ks, NEW cs, BeginFlush(t, ks, cs)
  PROVE  CompanyInv'
<1> USE DEF CompanyInv, BeginFlush, Pools, Cached, recordVars, TypeOK
<1>1. TypeOK'
  BY DEF LocksMatch
<1>2. LocksMatch'
  BY DEF LocksMatch, LocksAreHeld
<1>3. LocksAreHeld'
  BY DEF LocksMatch, LocksAreHeld
<1>4. CustomersAreKept'
  BY DEF LocksMatch, CustomersAreKept
<1>5. ASSUME NEW x \in Tasks PROVE FlushInv(x)'
  BY <1>5 DEF LocksMatch, CustomersAreKept, FlushInv, CustomerIsHandled, Writable, CustomersFlushInv
<1>6. CustomersFlushInv'
  BY DEF CustomersFlushInv, FlushInv, LocksMatch
<1>7. CallInv'
  BY DEF CallInv, FlushInv, LocksMatch
<1> QED BY <1>1, <1>2, <1>3, <1>4, <1>5, <1>6, <1>7

LEMMA LookAtStep ==
  ASSUME CompanyInv, NEW t \in Tasks, NEW s \in Sessions, LookAt(t, s)
  PROVE  CompanyInv'
<1> USE DEF CompanyInv, LookAt, Visit, recordVars, TypeOK
<1>1. TypeOK'
  BY DEF LocksMatch
<1>2. LocksMatch'
  BY DEF LocksMatch, LocksAreHeld
<1>3. LocksAreHeld'
  BY DEF LocksMatch, LocksAreHeld
<1>4. CustomersAreKept'
  BY DEF LocksMatch, CustomersAreKept
<1>5. ASSUME NEW x \in Tasks PROVE FlushInv(x)'
  BY <1>5 DEF LocksMatch, CustomersAreKept, FlushInv, CustomerIsHandled, Writable, CustomersFlushInv
<1>6. CustomersFlushInv'
  BY DEF CustomersFlushInv, FlushInv, LocksMatch
<1>7. CallInv'
  BY DEF CallInv, FlushInv, LocksMatch
<1> QED BY <1>1, <1>2, <1>3, <1>4, <1>5, <1>6, <1>7

LEMMA FlushCustomersSeenStep ==
  ASSUME CompanyInv, NEW t \in Tasks, FlushCustomersSeen(t)
  PROVE  CompanyInv'
<1> USE DEF CompanyInv, FlushCustomersSeen, CustomersOf, recordVars, TypeOK
<1>1. TypeOK'
  BY DEF FlushInv
<1>2. LocksMatch'
  BY DEF LocksMatch, LocksAreHeld
<1>3. LocksAreHeld'
  BY DEF LocksMatch, LocksAreHeld
<1>4. CustomersAreKept'
  BY DEF LocksMatch, CustomersAreKept
<1>5. ASSUME NEW x \in Tasks PROVE FlushInv(x)'
  BY <1>5 DEF LocksMatch, CustomersAreKept, FlushInv, CustomerIsHandled, Writable, CustomersFlushInv
<1>6. CustomersFlushInv'
  BY DEF CustomersFlushInv, FlushInv, LocksMatch
<1>7. CallInv'
  BY DEF CallInv, FlushInv, LocksMatch
<1> QED BY <1>1, <1>2, <1>3, <1>4, <1>5, <1>6, <1>7

LEMMA ResetIteratorStep ==
  ASSUME CompanyInv, NEW t \in Tasks, ResetIterator(t)
  PROVE  CompanyInv'
<1> USE DEF CompanyInv, ResetIterator, recordVars, TypeOK
<1>1. TypeOK'
  BY DEF LocksMatch
<1>2. LocksMatch'
  BY DEF LocksMatch, LocksAreHeld
<1>3. LocksAreHeld'
  BY DEF LocksMatch, LocksAreHeld
<1>4. CustomersAreKept'
  BY DEF LocksMatch, CustomersAreKept
<1>5. ASSUME NEW x \in Tasks PROVE FlushInv(x)'
  BY <1>5 DEF LocksMatch, CustomersAreKept, FlushInv, CustomerIsHandled, Writable, CustomersFlushInv
<1>6. CustomersFlushInv'
  BY DEF CustomersFlushInv, FlushInv, LocksMatch
<1>7. CallInv'
  BY DEF CallInv, FlushInv, LocksMatch
<1> QED BY <1>1, <1>2, <1>3, <1>4, <1>5, <1>6, <1>7

LEMMA VisitDependentStep ==
  ASSUME CompanyInv, NEW t \in Tasks, NEW d \in Dependents, VisitDependent(t, d)
  PROVE  CompanyInv'
<1> USE DEF CompanyInv, VisitDependent, Visit, recordVars, TypeOK
<1>1. TypeOK'
  BY DEF LocksMatch
<1>2. LocksMatch'
  BY DEF LocksMatch, LocksAreHeld
<1>3. LocksAreHeld'
  BY DEF LocksMatch, LocksAreHeld
<1>4. CustomersAreKept'
  BY DEF LocksMatch, CustomersAreKept
<1>5. ASSUME NEW x \in Tasks PROVE FlushInv(x)'
  BY <1>5 DEF LocksMatch, CustomersAreKept, FlushInv, CustomerIsHandled, Writable, CustomersFlushInv
<1>6. CustomersFlushInv'
  BY DEF CustomersFlushInv, FlushInv, LocksMatch
<1>7. CallInv'
  BY DEF CallInv, FlushInv, LocksMatch
<1> QED BY <1>1, <1>2, <1>3, <1>4, <1>5, <1>6, <1>7

LEMMA WriteDependentsStep ==
  ASSUME CompanyInv, NEW t \in Tasks, WriteDependents(t)
  PROVE  CompanyInv'
<1> USE DEF CompanyInv, WriteDependents, EndFlush, TypeOK
<1>1. TypeOK'
  BY DEF LocksMatch
<1>2. LocksMatch'
  BY DEF LocksMatch, LocksAreHeld
<1>3. LocksAreHeld'
  BY DEF LocksMatch, LocksAreHeld
<1>4. CustomersAreKept'
  BY DEF LocksMatch, CustomersAreKept
<1>5. ASSUME NEW x \in Tasks PROVE FlushInv(x)'
  BY <1>5 DEF LocksMatch, CustomersAreKept, FlushInv, CustomerIsHandled, Writable, CustomersFlushInv
<1>6. CustomersFlushInv'
  BY DEF CustomersFlushInv, FlushInv, LocksMatch
<1>7. CallInv'
  BY DEF CallInv, FlushInv, LocksMatch
<1> QED BY <1>1, <1>2, <1>3, <1>4, <1>5, <1>6, <1>7

LEMMA RefusedStep ==
  ASSUME CompanyInv, NEW t \in Tasks, Refused(t)
  PROVE  CompanyInv'
<1> USE DEF CompanyInv, Refused, EndFlush, recordVars, TypeOK
<1>1. TypeOK'
  BY DEF LocksMatch
<1>2. LocksMatch'
  BY DEF LocksMatch, LocksAreHeld
<1>3. LocksAreHeld'
  BY DEF LocksMatch, LocksAreHeld
<1>4. CustomersAreKept'
  BY DEF LocksMatch, CustomersAreKept
<1>5. ASSUME NEW x \in Tasks PROVE FlushInv(x)'
  BY <1>5 DEF LocksMatch, CustomersAreKept, FlushInv, CustomerIsHandled, Writable, CustomersFlushInv
<1>6. CustomersFlushInv'
  BY DEF CustomersFlushInv, FlushInv, LocksMatch
<1>7. CallInv'
  BY DEF CallInv, FlushInv, LocksMatch
<1> QED BY <1>1, <1>2, <1>3, <1>4, <1>5, <1>6, <1>7

LEMMA BeginFlushOneStep ==
  ASSUME CompanyInv, NEW d \in Dependents, BeginFlushOne(d)
  PROVE  CompanyInv'
<1> USE DEF CompanyInv, BeginFlushOne, recordVars, TypeOK
<1>1. TypeOK'
  BY DEF LocksMatch
<1>2. LocksMatch'
  BY DEF LocksMatch, LocksAreHeld
<1>3. LocksAreHeld'
  BY DEF LocksMatch, LocksAreHeld
<1>4. CustomersAreKept'
  BY DEF LocksMatch, CustomersAreKept
<1>5. ASSUME NEW x \in Tasks PROVE FlushInv(x)'
  BY <1>5 DEF LocksMatch, CustomersAreKept, FlushInv, CustomerIsHandled, Writable, CustomersFlushInv
<1>6. CustomersFlushInv'
  BY DEF CustomersFlushInv, FlushInv, LocksMatch
<1>7. CallInv'
  BY DEF CallInv, FlushInv, LocksMatch
<1> QED BY <1>1, <1>2, <1>3, <1>4, <1>5, <1>6, <1>7

LEMMA LockOneStep ==
  ASSUME CompanyInv, NEW cs, LockOne(cs)
  PROVE  CompanyInv'
<1> USE DEF CompanyInv, LockOne, EndFlush, Pools, CustomersOf, recordVars, TypeOK
<1>1. TypeOK'
  BY DEF LocksMatch
<1>2. LocksMatch'
  BY DEF LocksMatch, LocksAreHeld
<1>3. LocksAreHeld'
  BY DEF LocksMatch, LocksAreHeld, FlushInv
<1>4. CustomersAreKept'
  BY DEF LocksMatch, CustomersAreKept
<1>5. ASSUME NEW x \in Tasks PROVE FlushInv(x)'
  BY <1>5 DEF LocksMatch, CustomersAreKept, FlushInv, CustomerIsHandled, Writable, CustomersFlushInv
<1>6. CustomersFlushInv'
  BY DEF CustomersFlushInv, FlushInv, LocksMatch
<1>7. CallInv'
  BY DEF CallInv, FlushInv, LocksMatch
<1> QED BY <1>1, <1>2, <1>3, <1>4, <1>5, <1>6, <1>7

LEMMA LockCustomerStep ==
  ASSUME CompanyInv, LockCustomer
  PROVE  CompanyInv'
<1> USE DEF CompanyInv, LockCustomer, recordVars, TypeOK
<1>1. TypeOK'
  BY DEF LocksMatch
<1>2. LocksMatch'
  BY DEF LocksMatch, LocksAreHeld
<1>3. LocksAreHeld'
  BY DEF LocksMatch, LocksAreHeld
<1>4. CustomersAreKept'
  BY DEF LocksMatch, CustomersAreKept
<1>5. ASSUME NEW x \in Tasks PROVE FlushInv(x)'
  BY <1>5 DEF LocksMatch, CustomersAreKept, FlushInv, CustomerIsHandled, Writable, CustomersFlushInv
<1>6. CustomersFlushInv'
  BY DEF CustomersFlushInv, FlushInv, LocksMatch
<1>7. CallInv'
  BY DEF CallInv, FlushInv, LocksMatch
<1> QED BY <1>1, <1>2, <1>3, <1>4, <1>5, <1>6, <1>7

LEMMA StutterStep ==
  ASSUME CompanyInv, UNCHANGED vars
  PROVE  CompanyInv'
BY DEF CompanyInv, TypeOK, LocksMatch, LocksAreHeld, CustomersAreKept, FlushInv, CustomerIsHandled,
       Writable, CustomersFlushInv, CallInv, vars, recordVars

\* The locks of every flush, and what each knows of the customers its orders and sessions
\* refer to, whatever the flushes of the three caches and the script do to each other.
THEOREM CompanyInvariant == Spec => []CompanyInv
<1>1. Init => CompanyInv
  BY DEF Init, CompanyInv, TypeOK, LocksMatch, LocksAreHeld, CustomersAreKept, FlushInv,
         CustomersFlushInv, CallInv
<1>2. CompanyInv /\ [Next]_vars => CompanyInv'
  <2> SUFFICES ASSUME CompanyInv, [Next]_vars PROVE CompanyInv'
    OBVIOUS
  <2>1. CASE Script
    BY <2>1, AddCustomerStep, AddOrderStep, UpdateOrderStep, PutSessionStep, BeginFlushOneStep
       DEF Script
  <2>2. CASE LockStep
    BY <2>2, LockOneStep, LockCustomerStep DEF LockStep
  <2>3. ASSUME NEW t \in Tasks, FlushStep(t) PROVE CompanyInv'
    BY <2>3, VisitCustomerStep, WriteCustomersStep, LookAtStep, FlushCustomersSeenStep,
       ResetIteratorStep, VisitDependentStep, WriteDependentsStep, RefusedStep DEF FlushStep
  <2>4. ASSUME NEW t \in Tasks, Fail(t) PROVE CompanyInv'
    BY <2>4, FailStep
  <2>5. ASSUME NEW t \in Monitors, NEW ks, NEW cs, BeginFlush(t, ks, cs) PROVE CompanyInv'
    BY <2>5, BeginFlushStep
  <2>6. CASE UNCHANGED vars
    BY <2>6, StutterStep
  <2> QED BY <2>1, <2>2, <2>3, <2>4, <2>5, <2>6 DEF Next
<1> QED BY <1>1, <1>2, PTL DEF Spec

\* A session that a call flushes by itself finds its customer written, with any number of
\* customers and sessions.
THEOREM CallsFindTheCustomer == Spec => []SessionOfCallIsWritable
<1>1. CompanyInv => SessionOfCallIsWritable
  BY DEF CompanyInv, CallInv, FlushInv, CustomerIsHandled, SessionOfCallIsWritable
<1> QED BY <1>1, CompanyInvariant, PTL

\* Nothing but a race makes the tables refuse an order or a session.
THEOREM OnlyRacesAreRefused == Spec => []RefusalsAreRaces
<1>1. CompanyInv => RefusalsAreRaces
  BY DEF CompanyInv, FlushInv, CustomerIsHandled, RefusalsAreRaces
<1> QED BY <1>1, CompanyInvariant, PTL

=============================================================================
