---------------------------- MODULE MCCachedRows ----------------------------
(* Instances of CachedRows for TLC.                                          *)
EXTENDS CachedRowsInv, TLC

Symmetry == Permutations(Users) \cup Permutations(Columns) \cup Permutations(Vals)

=============================================================================
