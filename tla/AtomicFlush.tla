---------------------------- MODULE AtomicFlush -----------------------------
(***************************************************************************)
(* What write_back promises of a set of pending updates: those of some     *)
(* rows reach the table at once and stop being pending, all or none.       *)
(***************************************************************************)

CONSTANTS Rows, Updates, NoUpdate,
          Written   \* what an update makes of the row it is applied to, as a function

VARIABLES table, update

vars == <<table, update>>

\* The users' modifications decide what is pending; they do not touch the table.
Modify(k) ==
  /\ \E upd \in Updates : update' = [update EXCEPT ![k] = upd]
  /\ UNCHANGED table

WriteOut(ks) ==
  /\ table' = [k \in Rows |-> IF k \in ks THEN Written[update[k]][table[k]] ELSE table[k]]
  /\ update' = [k \in Rows |-> IF k \in ks THEN NoUpdate ELSE update[k]]

Next ==
  \/ \E k \in Rows : Modify(k)
  \/ \E ks \in SUBSET Rows : WriteOut(ks)

Spec == [][Next]_vars

=============================================================================
