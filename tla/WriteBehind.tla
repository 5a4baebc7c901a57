---------------------------- MODULE WriteBehind -----------------------------
(***************************************************************************)
(* What the cache controller promises of the writes it accepts: each is    *)
(* kept with its row until a write-back of a set of rows makes it durable, *)
(* or a later write of the row takes its place; nothing is written twice.  *)
(* A modification that fails may take what is pending for its row with it. *)
(***************************************************************************)

CONSTANTS Rows, Writes

VARIABLES
  pending,   \* per row, the accepted writes that are not in the backend yet
  durable,   \* the writes the backend has
  forsaken   \* those that went with a modification that failed

vars == <<pending, durable, forsaken>>

Init ==
  /\ pending = [r \in Rows |-> {}]
  /\ durable = {} /\ forsaken = {}

\* A modification of the row is added to what is pending for it.
Merge(r, w) ==
  /\ w \notin durable
  /\ pending' = [pending EXCEPT ![r] = @ \cup {w}]
  /\ UNCHANGED <<durable, forsaken>>

\* A new value or a deletion of the row supersedes what is pending for it.
Replace(r, w) ==
  /\ w \notin durable
  /\ pending' = [pending EXCEPT ![r] = {w}]
  /\ UNCHANGED <<durable, forsaken>>

\* All that is pending for the rows of rs becomes durable at once.
WriteBack(rs) ==
  /\ durable' = durable \cup UNION {pending[r] : r \in rs}
  /\ pending' = [r \in Rows |-> IF r \in rs THEN {} ELSE pending[r]]
  /\ UNCHANGED forsaken

\* A modification of the row fails after it has taken over what is pending for it.
Forsake(r) ==
  /\ forsaken' = forsaken \cup pending[r]
  /\ pending' = [pending EXCEPT ![r] = {}]
  /\ UNCHANGED durable

Next ==
  \/ \E r \in Rows, w \in Writes : Merge(r, w) \/ Replace(r, w)
  \/ \E r \in Rows : Forsake(r)
  \/ \E rs \in SUBSET Rows : WriteBack(rs)

Spec == Init /\ [][Next]_vars

=============================================================================
