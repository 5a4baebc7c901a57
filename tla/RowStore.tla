------------------------------ MODULE RowStore ------------------------------
(***************************************************************************)
(* What the cache promises to those who use its rows: a store in which a   *)
(* user is given the last value of a row in one of its two lanes, a row is *)
(* modified only when it is given to nobody else, and the table takes over *)
(* last values, those of some rows at once. There is no cache in it, and   *)
(* nothing is pending. The store may give up a row for good.               *)
(***************************************************************************)

CONSTANTS Users, Rows, Value, Absent

VARIABLES
  table,    \* the rows as they are stored
  latest,   \* their last values
  given,    \* whom a row is given to, in which lane, and the value he was told
  lost      \* the rows that have been given up

vars == <<table, latest, given, lost>>

Lane == {"compute", "init"}

Init ==
  /\ table \in [Rows -> Value \cup {Absent}]
  /\ latest = table
  /\ given = {}
  /\ lost = {}

Give(u, lane, k) ==
  /\ k \notin lost
  /\ \A g \in given : g.user # u /\ ~(g.key = k /\ g.lane = lane)
  /\ given' = given \cup {[user |-> u, lane |-> lane, key |-> k, value |-> latest[k]]}
  /\ UNCHANGED <<table, latest, lost>>

\* The answer is based on a value that is still the last one, and nobody else is told a value
\* that the answer makes outdated.
Answer(g, v) ==
  /\ g.value = latest[g.key]
  /\ v = g.value \/ \A h \in given \ {g} : h.key # g.key
  /\ given' = given \ {g}
  /\ latest' = [latest EXCEPT ![g.key] = v]
  /\ UNCHANGED <<table, lost>>

\* A row that is not stored is inserted unseen.
Insert(k, v) ==
  /\ k \notin lost
  /\ table[k] = Absent
  /\ \A g \in given : g.key # k
  /\ latest' = [latest EXCEPT ![k] = v]
  /\ UNCHANGED <<table, given, lost>>

Store(ks) ==
  /\ table' = [k \in Rows |-> IF k \in ks THEN latest[k] ELSE table[k]]
  /\ UNCHANGED <<latest, given, lost>>

Lose(k) ==
  /\ lost' = lost \cup {k}
  /\ table' = [table EXCEPT ![k] = Absent]
  /\ latest' = [latest EXCEPT ![k] = Absent]
  /\ given' = {g \in given : g.key # k}

Next ==
  \/ \E u \in Users, lane \in Lane, k \in Rows : Give(u, lane, k)
  \/ \E g \in given, v \in Value \cup {Absent} : Answer(g, v)
  \/ \E k \in Rows, v \in Value : Insert(k, v)
  \/ \E ks \in SUBSET Rows : Store(ks)
  \/ \E k \in Rows : Lose(k)

Spec == Init /\ [][Next]_vars

=============================================================================
