----------------------------- MODULE Connecting -----------------------------
(***************************************************************************)
(* An instance that connects and is used: module Connect, in which the     *)
(* wait for a connection that is in progress is a whole call of            *)
(* memcached_io_poll (module IoPoll), and io_wait, by which a reader or a  *)
(* writer waits for the established connection.  The outcome of the poll   *)
(* decides what the attempt does next; while it lasts signals arrive and   *)
(* the clock runs.                                                         *)
(***************************************************************************)
EXTENDS Connect

CONSTANTS
    Timeouts,      \* the values of connect_timeout and poll_timeout
    Never,         \* no deadline
    MaxNow,        \* how long the clock of a wait without deadline runs
    MaxInterrupts  \* how many signals arrive during one wait

ASSUME ConnectingAssumption ==
    /\ Timeouts \subseteq Int
    /\ Never \notin Int
    /\ MaxNow \in Nat /\ MaxInterrupts \in Nat

VARIABLES
    p_pc, p_rc,    \* pc of the poll, "off" if there is none, and its result
    connecting, already, timeout, poll_timeout, now, wake, revents, open,
    conn,          \* as in IoPoll, and "none" without a socket
    so_error, data, interrupts

P == INSTANCE IoPoll WITH pc <- p_pc, rc <- p_rc

poll == << p_pc, p_rc, connecting, already, poll_timeout, now, wake, revents,
           open, data, interrupts >>
allvars == << vars, poll, timeout, conn, so_error >>

CInit ==
    /\ Init
    /\ timeout \in Timeouts /\ poll_timeout = timeout
    /\ p_pc = "off" /\ p_rc = "none" /\ connecting = FALSE /\ already = FALSE
    /\ now = 0 /\ wake = Never /\ revents = {} /\ open = TRUE
    /\ conn = "none" /\ so_error = FALSE /\ data = FALSE /\ interrupts = 0

(* The state of a poll before it begins.                                   *)
Reset ==
    /\ p_rc' = "none" /\ poll_timeout' = timeout
    /\ now' = 0 /\ wake' = Never /\ revents' = {} /\ open' = TRUE
    /\ interrupts' = 0
    /\ UNCHANGED timeout

(* memcached_io_poll is entered, for a new connection or for one on which  *)
(* there is nothing to read or no room to write.                           *)
Enter(connects) ==
    /\ p_pc' = "call"
    /\ connecting' = connects
    /\ already' \in {FALSE, connects}
    /\ data' = (conn = "reset")
    /\ Reset

(* It has returned.  The error of a socket stays until it is asked for or  *)
(* the socket is closed.                                                   *)
Leave ==
    /\ p_pc' = "off" /\ connecting' = FALSE /\ already' = FALSE
    /\ data' = FALSE
    /\ Reset

(* A step of the client outside the poll.  connect that returns 0 has made *)
(* the connection, connect that is in progress waits for it.               *)
Client ==
    /\ p_pc = "off"
    /\ \/ Connected \/ Begin \/ set_hostinfo \/ Socket \/ NetworkConnect
       \/ GiveUp \/ SaslAuthenticate \/ unix_socket_connect \/ FinishConnect
       \/ ConnectInterrupted \/ UnixInterrupted \/ Close \/ OtherServerFails
       \/ Query
    /\ IF pc' = "wait"
         THEN Enter(TRUE) /\ conn' = "pending" /\ so_error' = FALSE
         ELSE /\ conn' = IF ~fd' \/ pc' = "connect" THEN "none"
                         ELSE IF pc \in {"connect", "unix"} THEN "established"
                         ELSE conn
              /\ so_error' = (fd' /\ so_error)
              /\ UNCHANGED << poll, timeout >>

(* What memcached_io_poll records for its result: an errno is an error of  *)
(* its own or a failure of the connection.                                 *)
Recorded(value) ==
    IF value = "ERRNO" THEN {"ERRNO", "CONNECTION_FAILURE"} ELSE {value}

(* The rest of network_connect's step, with the result of the poll.        *)
ConnectWaited ==
    /\ p_pc = "done"
    /\ Wait
    /\ IF p_rc = "SUCCESS" THEN state' = "CONNECTED" /\ UNCHANGED << conn, so_error >>
       ELSE /\ error' \in Recorded(p_rc)
            /\ state' = IF open THEN state ELSE "NEW"
            /\ conn' = "none" /\ so_error' = FALSE
    /\ Leave

(* io_wait for an established connection, and its return: the poll itself  *)
(* has closed a socket with an error; the caller closes it after others    *)
(* (Close).                                                                *)
io_wait ==
    /\ pc = "idle" /\ path = "none" /\ fd /\ p_pc = "off"
    /\ Enter(FALSE)
    /\ UNCHANGED << vars, conn, so_error >>

IoWaited ==
    /\ pc = "idle" /\ p_pc = "done"
    /\ IF p_rc = "SUCCESS" THEN UNCHANGED errors
       ELSE \E e \in Recorded(p_rc) : SetError(e)
    /\ IF open THEN UNCHANGED << fd, state, conn, so_error, rc >>
       ELSE /\ fd' = FALSE /\ state' = "NEW" /\ rc' = "none"
            /\ conn' = "none" /\ so_error' = FALSE
    /\ Leave
    /\ UNCHANGED << pc, settings, address, timeout_error, failed >>

(* A step inside the poll.                                                 *)
Polling ==
    /\ \/ P!Start \/ P!Poll \/ P!PollFails \/ P!Expires \/ P!CheckExpired
       \/ P!Active \/ P!CheckActive \/ P!Tick
    /\ UNCHANGED vars

Signal == P!Interrupted /\ UNCHANGED vars

Peer ==
    /\ p_pc # "off"
    /\ P!Peer
    /\ UNCHANGED vars

CNext == \/ Client \/ ConnectWaited \/ io_wait \/ IoWaited
         \/ Polling \/ Signal \/ Peer

(* The attempt and the poll go on, the clock runs, and connect is not      *)
(* interrupted for ever.  Nothing is assumed of the other side.            *)
CFairness ==
    /\ SF_allvars(NetworkConnect /\ Client)
    /\ WF_allvars((Step /\ Client) \/ ConnectWaited \/ IoWaited \/ Polling)

CSpec == CInit /\ [][CNext]_allvars /\ CFairness

-----------------------------------------------------------------------------
(* An attempt over the network that fails leaves no socket behind, and one *)
(* that succeeds leaves a socket whose connection was really made: a       *)
(* refused connection, which makes the socket writable too, is not taken   *)
(* for one ("Ensure connect actually succeeded", io.cc).  (An error of     *)
(* another server can make a failure look like a success:                  *)
(* memcached_has_current_error asks the memcached_st and                   *)
(* memcached_instance_error_return the instance.)                          *)
ConnectedIffSuccess ==
    path = "none" /\ ~others /\ pc = "idle" /\ rc # "none"
        => /\ fd <=> rc = "SUCCESS"
           /\ fd => conn \in {"established", "reset"}

(* Every attempt ends if the time-out is not negative, unless a second     *)
(* signal arrives during one wait: what the first ones have taken off      *)
(* poll_timeout is taken off again, and it may become negative, which      *)
(* means no time-out (memcached_io_poll, network_connect).                 *)
AttemptEnds ==
    pc # "idle" /\ timeout >= 0 ~> pc = "idle" \/ interrupts > 1

(* As long as at most one signal comes, a wait with a positive time-out    *)
(* lasts no longer than that and does not give up before (io.cc, the       *)
(* subtraction from poll_timeout).                                         *)
OnTime == P!OnTime
=============================================================================
