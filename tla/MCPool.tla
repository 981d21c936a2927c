------------------------------- MODULE MCPool -------------------------------
(* Instances of Pool, and of its refinement of LendingPool, for TLC. *)
EXTENDS PoolLends, TLC

CONSTANTS c1, c2, c3, p1, p2, t1, t2, k1, k2, s1, s2

CallersAndConns == Permutations(Callers) \cup Permutations(Conns)
Symmetry == CallersAndConns \cup Permutations(Tasks) \cup Permutations(Controllers)
=============================================================================
