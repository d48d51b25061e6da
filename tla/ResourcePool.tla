---------------------------- MODULE ResourcePool ----------------------------
(***************************************************************************)
(* What the connection pool promises, without stack, mutex or versions: a  *)
(* bounded set of connections, each either idle or in the hands of one     *)
(* client.  A connection may be replaced by a new one while it is idle or  *)
(* as it comes back, never while it is in use.                             *)
(***************************************************************************)
EXTENDS Integers, FiniteSets

CONSTANTS Resources, Capacity

VARIABLES idle, used

Unborn == Resources \ (idle \cup used)

Init ==
  /\ idle \in SUBSET Resources
  /\ Cardinality(idle) <= Capacity
  /\ used = {}

Create ==
  /\ Cardinality(idle) + Cardinality(used) < Capacity
  /\ \E c \in Unborn : idle' = idle \cup {c}
  /\ UNCHANGED used

Acquire ==
  \E c \in idle : idle' = idle \ {c} /\ used' = used \cup {c}

GiveBack ==
  \E c \in used : \E d \in {c} \cup Unborn :
    used' = used \ {c} /\ idle' = idle \cup {d}

Renew ==
  /\ \E c \in idle, d \in Unborn : idle' = (idle \ {c}) \cup {d}
  /\ UNCHANGED used

Close == idle' = {} /\ UNCHANGED used

Next == Create \/ Acquire \/ GiveBack \/ Renew \/ Close

Spec == Init /\ [][Next]_<<idle, used>>
=============================================================================
