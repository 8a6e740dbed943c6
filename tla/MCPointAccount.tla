--------------------------- MODULE MCPointAccount ---------------------------
(* Instances of PointAccount for TLC. *)
EXTENDS PointAccount, TLC

CONSTANTS w1, w2

AllKinds == Locking \cup Unlocked

MCAmounts == {0, 1, 2}

\* The IP synchronisation job beside the spends of the user.
SpendAndTouch == {"spend", "touch"}

Symmetry == Permutations({w1, w2})
=============================================================================
