----------------------------- MODULE MCPoolTimed -----------------------------
(* Instances of PoolTimed for TLC. *)
EXTENDS PoolTimed, TLC

CONSTANTS t1, t2, c1, c2, f1

\* Threads and addresses are interchangeable.
Symmetry == Permutations(Threads) \cup Permutations(Conns)
=============================================================================
