---------------------------- MODULE MCUpdatePool ----------------------------
(***************************************************************************)
(* Instances of UpdatePool for TLC: one row that has a secondary key, or   *)
(* two rows that have none.                                                *)
(***************************************************************************)
EXTENDS UpdatePoolInv, TLC

CONSTANTS k1, k2   \* a primary key; its secondary key or another primary key

OneRowOf == k1 :> k1 @@ k2 :> k1

TwoRowsOf == k1 :> k1 @@ k2 :> k2

\* The identities of records and of writes are interchangeable, and tasks of one role are.
Symmetry ==
  UNION {Permutations(S) : S \in {States, Writes, Users, Flushers}}

=============================================================================
