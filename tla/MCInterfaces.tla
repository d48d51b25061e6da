--------------------------- MODULE MCInterfaces ----------------------------
(* Two clients and two keys, exchangeable, and one value; the counters of  *)
(* the server count modulo 4, and text read as a counter reads as 2.       *)
EXTENDS Interfaces, TLC

CONSTANTS c1, c2, k1, k2

MCClients == {c1, c2}
MCKeys == {k1, k2}
Symmetry == Permutations(MCClients) \cup Permutations(MCKeys)

(* It takes a store and two reads until an update can be lost: the last of *)
(* the commands only comes after both clients have read.                   *)
MCNext ==
    /\ commands = MaxCommands - 1 => \A c \in Clients : seen[c] # NoRead
    /\ Next

MCSpec == Init /\ [][MCNext]_vars
============================================================================
