-------------------------- MODULE MCSecondaryKeys ---------------------------
(* Instances of SecondaryKeys for TLC.                                       *)
EXTENDS SecondaryKeysInv, TLC

UserSymmetry == Permutations(Users)

CONSTANT e1

\* The rows of the instance are known by e1; the other keys are what they may be renamed to.
OneKeyOf == [k \in Rows |-> e1]

\* Nothing is claimed any more once all rows are exposed or have strayed.
SomeRowIsSound == Rows \ (exposed \cup strayed) # {}

=============================================================================
