-------------------------- MODULE MCPointExchange --------------------------
(* Instances of PointExchange for TLC. *)
EXTENDS PointExchange, TLC

CONSTANTS u1, u2, s1, a1, e1, e2, h1, h2

MCUsers == {u1}
MCTwoUsers == {u1, u2}
NoManagers == [s \in {s1} |-> {}]
OneManaged == [s \in {s1} |-> {u2}]
MCAmounts == {5000, 10000, 15000}
MCOneAmount == {10000}

Symmetry == Permutations({h1, h2}) \cup Permutations({e1, e2})
=============================================================================
