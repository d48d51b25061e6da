------------------------------- MODULE MCPool -------------------------------
(* Instances of Pool for TLC. *)
EXTENDS Pool

CONSTANTS t1, t2, c1, c2, c3, f1
=============================================================================
