------------------------------ MODULE Connect ------------------------------
(***************************************************************************)
(* One attempt to connect an instance, step by step: set_hostinfo,         *)
(* network_connect, unix_socket_connect and the end of _memcached_connect  *)
(* (connect.cc), with the SASL exchange (sasl.cc) and the two lists of     *)
(* errors, of the memcached_st and of the instance (error.cc).  When an    *)
(* attempt is made at all is the subject of module Backoff.                *)
(*                                                                         *)
(* Of an error list only the head is read.  The list of the memcached_st   *)
(* is emptied by every query, so it is kept as whether the current query   *)
(* has an error; the list of the instance is emptied by its next error.    *)
(***************************************************************************)
EXTENDS Integers, FiniteSets

CONSTANT MaxAddresses  \* bound: how many addresses a name may have

ASSUME ConnectAssumption == MaxAddresses \in Nat \ {0}

VARIABLES
    pc,            \* "idle", or the place in the attempt
    path,          \* of a unix domain socket; "none" for a network host
    others,        \* the memcached_st has other servers
    sasl,          \* "off", or whether the server "knows" SASL or is "without"
    fd,            \* fd # INVALID_SOCKET
    state,         \* memcached_server_state_t
    addresses,     \* length of address_info, 0 for NULL
    next,          \* address_info_next, 0 for NULL
    timeout_error, \* timeout_error_occured
    rc,            \* the result of the attempt
    root_error,    \* the current query has an error
    error,         \* rc of the instance's last error, "SUCCESS" if none
    failed         \* addresses that failed since the lookup (history)

address == << addresses, next >>
errors == << root_error, error >>
settings == << path, others, sasl >>
vars == << pc, settings, fd, state, address, timeout_error, rc, errors,
           failed >>

Init ==
    /\ pc = "idle"
    /\ path \in {"none", "short", "long"}
    /\ others \in BOOLEAN
    /\ sasl \in {"off", "knows", "without"}
    /\ fd = FALSE /\ state = "NEW"
    /\ addresses = 0 /\ next = 0
    /\ timeout_error = FALSE
    /\ rc = "none"
    /\ root_error = FALSE /\ error = "SUCCESS"
    /\ failed = {}

(* memcached_set_error and memcached_set_errno.                            *)
SetError(e) ==
    /\ root_error' = TRUE
    /\ error' = e

Finish(value) ==
    /\ pc' = "finish"
    /\ rc' = value

-----------------------------------------------------------------------------
(* _memcached_connect on an instance that has a socket.                    *)
Connected ==
    /\ pc = "idle" /\ fd
    /\ rc' = "SUCCESS"
    /\ UNCHANGED << pc, settings, fd, state, address, timeout_error, errors, failed >>

(* backoff_handling lets the attempt through; a server in time-out becomes *)
(* NEW.  A new lookup is made if there is no address left.                 *)
Begin ==
    /\ pc = "idle" /\ ~fd
    /\ state' = IF state = "IN_TIMEOUT" THEN "NEW" ELSE state
    /\ timeout_error' = FALSE
    /\ rc' = "none"
    /\ pc' = IF path # "none" THEN "unix"
             ELSE IF next = 0 THEN "lookup" ELSE "socket"
    /\ UNCHANGED << settings, fd, address, errors, failed >>

(* set_hostinfo.                                                           *)
set_hostinfo ==
    /\ pc = "lookup"
    /\ \/ /\ addresses' \in 1 .. MaxAddresses
          /\ next' = 1
          /\ state' = "ADDRINFO"
          /\ pc' = "socket"
          /\ UNCHANGED << rc, errors >>
       \/ /\ addresses' = 0 /\ next' = 0
          /\ \E e \in {"TIMEOUT", "ERRNO", "INVALID_ARGUMENTS",
                       "MEMORY_ALLOCATION_FAILURE", "HOST_LOOKUP_FAILURE"} :
               SetError(e) /\ Finish(e)
          /\ UNCHANGED state
    /\ failed' = {}
    /\ UNCHANGED << settings, fd, timeout_error >>

(* The loop over the addresses: socket and set_socket_options, which does  *)
(* not fail.                                                               *)
Socket ==
    /\ pc = "socket"
    /\ \/ fd' = TRUE /\ pc' = "connect" /\ UNCHANGED << rc, errors >>
       \/ SetError("ERRNO") /\ Finish("ERRNO") /\ UNCHANGED fd
    /\ UNCHANGED << settings, state, address, timeout_error, failed >>

NetworkConnected ==
    /\ state' = "CONNECTED"
    /\ IF sasl # "off" THEN pc' = "sasl" /\ UNCHANGED rc ELSE Finish("SUCCESS")
    /\ UNCHANGED << fd, address, failed >>

(* Fault: every other address is passed over.                              *)
NextAddressSkips ==
    /\ fd' = FALSE
    /\ next' = IF next + 2 > addresses THEN 0 ELSE next + 2
    /\ pc' = IF next' = 0 THEN "give_up" ELSE "socket"
    /\ failed' = failed \union {next}
    /\ UNCHANGED << addresses, rc >>

(* The end of the loop's body: on to the next address.                     *)
NextAddress ==
    /\ fd' = FALSE
    /\ next' = IF next = addresses THEN 0 ELSE next + 1
    /\ pc' = IF next = addresses THEN "give_up" ELSE "socket"
    /\ failed' = failed \union {next}
    /\ UNCHANGED << addresses, rc >>

(* connect: done, timed out, in progress, interrupted (the same address is *)
(* tried again), or refused.                                               *)
NetworkConnect ==
    /\ pc = "connect"
    /\ \/ NetworkConnected /\ UNCHANGED << timeout_error, errors >>
       \/ NextAddress /\ timeout_error' = TRUE /\ UNCHANGED << state, errors >>
       \/ /\ state' = "IN_PROGRESS" /\ pc' = "wait"
          /\ UNCHANGED << fd, address, timeout_error, rc, errors, failed >>
       \/ /\ \E e \in {"ERRNO", "CONNECTION_FAILURE"} : SetError(e)
          /\ NextAddress
          /\ UNCHANGED << state, timeout_error >>
    /\ UNCHANGED << settings >>

ConnectInterrupted ==
    /\ pc = "connect"
    /\ fd' = FALSE /\ pc' = "socket"
    /\ UNCHANGED << settings, state, address, timeout_error, rc, errors,
                    failed >>

(* memcached_io_poll for the connection (module IoPoll).  An error of poll *)
(* itself makes the server NEW.                                            *)
Wait ==
    /\ pc = "wait"
    /\ \/ NetworkConnected /\ UNCHANGED << timeout_error, errors >>
       \/ NextAddress /\ SetError("TIMEOUT") /\ timeout_error' = TRUE
          /\ UNCHANGED state
       \/ /\ NextAddress
          /\ \E e \in {"ERRNO", "CONNECTION_FAILURE", "INVALID_ARGUMENTS",
                       "MEMORY_ALLOCATION_FAILURE"} : SetError(e)
          /\ state' \in {state, "NEW"}
          /\ UNCHANGED timeout_error
    /\ UNCHANGED << settings >>

(* Fault: a name without a reachable address is looked up again.           *)
GiveUpRetries ==
    /\ pc = "give_up"
    /\ pc' = "lookup"
    /\ UNCHANGED << settings, fd, state, address, timeout_error, rc, errors,
                    failed >>

(* No address is left.  Whether there is an error is asked of the          *)
(* memcached_st, which error it is of the instance.                        *)
GiveUp ==
    /\ pc = "give_up"
    /\ IF root_error
         THEN Finish(error) /\ UNCHANGED errors
         ELSE \E e \in {IF timeout_error /\ state \in {"NEW", "ADDRINFO"}
                          THEN "TIMEOUT" ELSE "CONNECTION_FAILURE"} :
                SetError(e) /\ Finish(e)
    /\ UNCHANGED << settings, fd, state, address, timeout_error, failed >>

(* memcached_sasl_authenticate_connection.  A server that does not know    *)
(* the command, that refuses, or that cannot be reached makes the reader   *)
(* of the reply close the socket; after a problem on this side the caller  *)
(* does.                                                                   *)
SaslAuthenticate ==
    /\ pc = "sasl"
    /\ \/ sasl = "knows" /\ Finish("SUCCESS") /\ UNCHANGED << fd, state, errors >>
       \/ /\ sasl = "knows"
          /\ SetError("AUTH_PROBLEM") /\ Finish("AUTH_PROBLEM")
          /\ fd' = FALSE /\ UNCHANGED state
       \/ /\ \E e \in {"CONNECTION_FAILURE", "TIMEOUT",
                       IF sasl = "knows" THEN "AUTH_FAILURE"
                         ELSE "UNKNOWN_READ_FAILURE"} :
               SetError(e) /\ Finish(e)
          /\ fd' = FALSE /\ state' \in {state, "NEW"}
    /\ UNCHANGED << settings, address, timeout_error, failed >>

(* unix_socket_connect.  The loop is a do ... while (0), so what continue  *)
(* does after EINTR is to leave it.  A connection in progress counts as    *)
(* made.                                                                   *)
unix_socket_connect ==
    /\ pc = "unix"
    /\ \/ SetError("ERRNO") /\ Finish("ERRNO") /\ UNCHANGED << fd, state >>
       \/ /\ path = "long"
          /\ fd' = TRUE
          /\ SetError("FAIL_UNIX_SOCKET") /\ Finish("FAIL_UNIX_SOCKET")
          /\ UNCHANGED state
       \/ /\ path = "short"
          /\ \/ fd' = TRUE /\ state' = "CONNECTED" /\ Finish("SUCCESS")
                /\ UNCHANGED errors
             \/ SetError("ERRNO") /\ Finish("ERRNO") /\ UNCHANGED << fd, state >>
    /\ UNCHANGED << settings, address, timeout_error, failed >>

UnixInterrupted ==
    /\ pc = "unix" /\ path = "short"
    /\ state' = "CONNECTED" /\ Finish("SUCCESS")
    /\ UNCHANGED << settings, fd, address, timeout_error, errors, failed >>

(* The end of _memcached_connect.  memcached_mark_server_for_timeout puts  *)
(* the server in time-out when server_timeout_limit is reached.            *)
FinishConnect ==
    /\ pc = "finish"
    /\ pc' = "idle"
    /\ IF rc = "SUCCESS" THEN UNCHANGED << state, errors >>
       ELSE /\ IF root_error THEN UNCHANGED errors ELSE SetError(rc)
            /\ state' \in {state, "IN_TIMEOUT"}
    /\ UNCHANGED << settings, fd, address, timeout_error, rc, failed >>

-----------------------------------------------------------------------------
(* The rest of the client: the connection is closed after an error or by   *)
(* memcached_quit, another server fails, and the next query begins.        *)
Close ==
    /\ pc = "idle"
    /\ fd' = FALSE /\ state' = "NEW" /\ rc' = "none"
    /\ \/ \E e \in {"CONNECTION_FAILURE", "TIMEOUT"} : fd /\ SetError(e)
       \/ UNCHANGED errors
    /\ UNCHANGED << pc, settings, address, timeout_error, failed >>

OtherServerFails ==
    /\ pc = "idle" /\ others
    /\ root_error' = TRUE
    /\ UNCHANGED << pc, settings, fd, state, address, timeout_error, rc, error,
                    failed >>

Query ==
    /\ pc = "idle"
    /\ root_error' = FALSE
    /\ UNCHANGED << pc, settings, fd, state, address, timeout_error, rc, error, failed >>

Step == \/ set_hostinfo \/ Socket \/ NetworkConnect \/ Wait \/ GiveUp
        \/ SaslAuthenticate \/ unix_socket_connect \/ FinishConnect

Next == \/ Connected \/ Begin \/ Step \/ ConnectInterrupted
        \/ UnixInterrupted \/ Close \/ OtherServerFails \/ Query

Spec == Init /\ [][Next]_vars

-----------------------------------------------------------------------------
(* An address that has failed is not tried again before there has been a   *)
(* new lookup (connect.cc, "if address_info_next has been fully tried, we  *)
(* want to do a new lookup").                                              *)
FailedOncePerLookup == pc \in {"connect", "wait"} => next \notin failed

(* The attempt gives up only when every address of the name has failed     *)
(* since it was looked up.                                                 *)
AllAddressesTried == pc = "give_up" => failed = 1 .. addresses
=============================================================================
