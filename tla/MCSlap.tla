------------------------------- MODULE MCSlap -------------------------------
(* memaslap with one or two concurrencies, windows of one or two objects  *)
(* and a handful of command lines.                                         *)
EXTENDS Slap

Options == [prot |-> "ascii", mult |-> 1, socks |-> 1, rep |-> 0, reconnect |-> FALSE,
            timed |-> FALSE, nconns |-> 2, win |-> 2, get |-> 7, set |-> 3, verify |-> 10,
            overwrite |-> 0, exec |-> 3]

MCSettings ==
  {[Options EXCEPT !.nconns = 1, !.get = 5, !.set = 5, !.exec = 7],
   [Options EXCEPT !.nconns = 1, !.win = 1, !.get = 5, !.set = 5, !.overwrite = 10, !.exec = 5],
   [Options EXCEPT !.prot = "binary", !.get = 10, !.set = 0, !.exec = 1],
   [Options EXCEPT !.mult = 2, !.socks = 2],
   [Options EXCEPT !.timed = TRUE, !.exec = 2],
   [Options EXCEPT !.nconns = 1, !.reconnect = TRUE, !.exec = 5],
   [Options EXCEPT !.nconns = 1, !.rep = 1, !.reconnect = TRUE, !.timed = TRUE, !.exec = 4]}

=============================================================================
