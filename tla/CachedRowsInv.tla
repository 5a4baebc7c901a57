--------------------------- MODULE CachedRowsInv ----------------------------
(***************************************************************************)
(* The inductive invariant of CachedRows, for every data controller, and   *)
(* for the rows that are not exposed.                                      *)
(***************************************************************************)
EXTENDS CachedRows

\* A column that an update of a stored row leaves alone is as the table has it.
Known(upd, row) ==
  upd.kind = "update" =>
    \A c \in Columns : upd.am[c].state = "unchanged" => upd.am[c].val = row[c]

\* The pending update fits the table and tells the last value.
UpdateTells(k) ==
  /\ Agrees(k, Written(update[k], table[k]), latest[k])
  /\ Acceptable(update[k], table[k])
  /\ k \notin aged => Known(update[k], table[k])

\* The entry tells the last value.
EntryTells(k) == cached[k] # Absent => Agrees(k, cached[k], latest[k])

\* A call that waits for its lane will find the entry, or a table that is up to date.
LaneIsReady(k) == \A u \in Users : pc[u] = "lane" /\ key[u] = k => Ready(k)

\* A closure has been told the last value, and may insert the row if it was told none.
ClosureKnows(k) ==
  \A u \in Users :
    pc[u] = "callback" /\ key[u] = k =>
      Agrees(k, seen[u], latest[k]) /\ (seen[u] = Absent => table[k] = Absent)

RowSound(k) == UpdateTells(k) /\ EntryTells(k) /\ LaneIsReady(k) /\ ClosureKnows(k)

\* One closure runs per lane of a key.
OnePerLane ==
  \A t, u \in Users :
    pc[t] = "callback" /\ pc[u] = "callback" /\ key[t] = key[u] /\ op[t] = op[u] => t = u

\* Where changes are put into the cache no row ages.
AgedIsMutable == Immutable => aged = {}

RowsInv ==
  /\ TypeOK
  /\ OnePerLane
  /\ AgedIsMutable
  /\ \A k \in Rows \ exposed : RowSound(k)

=============================================================================
