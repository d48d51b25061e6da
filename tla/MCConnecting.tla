---------------------------- MODULE MCConnecting ----------------------------
(* Connecting with no time-out, a time-out of zero, and one of three.      *)
EXTENDS Connecting

CONSTANT never

NoneZeroAndThree == {-1, 0, 3}

(* The errors of other servers meet the attempts that wait for ever or not *)
(* at all: what they change does not depend on the length of the wait.     *)
MCInit == CInit /\ (timeout = 3 => ~others)

MCSpec == MCInit /\ [][CNext]_allvars /\ CFairness
=============================================================================
