----------------------------- MODULE MCBackoff -----------------------------
(* Backoff with two servers.                                               *)
EXTENDS Backoff

CONSTANTS s1, s2
=============================================================================
