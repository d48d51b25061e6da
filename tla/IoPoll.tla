------------------------------- MODULE IoPoll -------------------------------
(***************************************************************************)
(* memcached_io_poll (io.cc): one wait for a socket, either for a          *)
(* connection that is being made (IO_POLL_CONNECT) or for input or output  *)
(* on a connection.  Signals may interrupt poll, which is then called      *)
(* again with what the code takes to be the rest of the time.  Time is in  *)
(* milliseconds since the call; a negative time-out means none.            *)
(***************************************************************************)
EXTENDS Integers

CONSTANTS
    Timeouts,      \* the values of connect_timeout or poll_timeout
    Never,         \* no deadline
    MaxNow,        \* how long the clock runs
    MaxInterrupts  \* how many signals arrive

VARIABLES
    pc,           \* "call", "loop", "poll", "expired", "active" or "done"
    connecting,   \* events = IO_POLL_CONNECT
    already,      \* prev_errno = EALREADY
    timeout, poll_timeout,
    now,          \* elapsed
    wake,         \* when the poll in progress ends without an event
    revents,      \* pfd.revents: "BAD" is POLLERR, POLLHUP or POLLNVAL
    rc,
    open,         \* the instance still has its socket
    conn,         \* what became of the connection
    so_error,     \* the socket's pending error
    data,         \* the socket is ready for input or output
    interrupts

call == << connecting, already, timeout >>
sock == << conn, so_error, data >>
vars == << pc, call, poll_timeout, now, wake, revents, rc, open, sock,
           interrupts >>

Init ==
    /\ pc = "call"
    /\ connecting \in BOOLEAN /\ already \in BOOLEAN
    /\ timeout \in Timeouts /\ poll_timeout = timeout
    /\ now = 0 /\ wake = Never /\ revents = {} /\ rc = "none" /\ open = TRUE
    /\ conn = IF connecting THEN "pending" ELSE "established"
    /\ so_error = FALSE /\ data = FALSE
    /\ interrupts = 0

Return(value) ==
    /\ pc' = "done"
    /\ rc' = value

-----------------------------------------------------------------------------
(* The call: a time-out of zero does not wait at all.  clock_gettime may   *)
(* fail.                                                                   *)
Start ==
    /\ pc = "call"
    /\ IF timeout = 0 THEN Return("TIMEOUT")
       ELSE Return("ERRNO") \/ (pc' = "loop" /\ UNCHANGED rc)
    /\ UNCHANGED << call, poll_timeout, now, wake, revents, open, sock,
                    interrupts >>

(* poll(&pfd, 1, poll_timeout): no deadline if the time-out is negative.   *)
Poll ==
    /\ pc = "loop"
    /\ pc' = "poll"
    /\ wake' = IF poll_timeout < 0 THEN Never ELSE now + poll_timeout
    /\ UNCHANGED << call, poll_timeout, now, revents, rc, open, sock,
                    interrupts >>

(* Fault: the call is repeated with the same time-out.                     *)
InterruptedAgain ==
    /\ pc = "poll"
    /\ interrupts < MaxInterrupts
    /\ interrupts' = interrupts + 1
    /\ IF now >= timeout
         THEN Return("TIMEOUT") /\ UNCHANGED poll_timeout
         ELSE pc' = "loop" /\ UNCHANGED << poll_timeout, rc >>
    /\ UNCHANGED << call, now, wake, revents, open, sock >>

(* EINTR and ERESTART: all the time that has passed since the call is      *)
(* taken off poll_timeout.                                                 *)
Interrupted ==
    /\ pc = "poll"
    /\ interrupts < MaxInterrupts
    /\ interrupts' = interrupts + 1
    /\ IF now >= timeout
         THEN Return("TIMEOUT") /\ UNCHANGED poll_timeout
         ELSE /\ pc' = "loop"
              /\ poll_timeout' = poll_timeout - now
              /\ UNCHANGED rc
    /\ UNCHANGED << call, now, wake, revents, open, sock >>

(* The other errors of poll.  An unknown one gives up the socket of a      *)
(* connection that is being made.                                          *)
PollFails ==
    /\ pc = "poll"
    /\ \/ /\ \E e \in {"MEMORY_ALLOCATION_FAILURE", "INVALID_ARGUMENTS"} :
               Return(e)
          /\ UNCHANGED open
       \/ /\ Return("ERRNO")
          /\ open' = ~connecting
    /\ UNCHANGED << call, poll_timeout, now, wake, revents, sock, interrupts >>

(* poll returns 0.                                                         *)
Expires ==
    /\ pc = "poll"
    /\ wake # Never /\ now >= wake
    /\ conn \notin {"failed", "reset"} /\ ~data
    /\ connecting => conn = "pending"
    /\ pc' = "expired"
    /\ UNCHANGED << call, poll_timeout, now, wake, revents, rc, open, sock,
                    interrupts >>

(* io_sock_err: getsockopt(SO_ERROR) returns the pending error and clears  *)
(* it.                                                                     *)
io_sock_err == so_error /\ so_error' = FALSE

CheckExpired ==
    /\ pc = "expired"
    /\ \/ ~already /\ io_sock_err /\ Return("ERRNO")
       \/ (already \/ ~so_error) /\ Return("TIMEOUT") /\ UNCHANGED so_error
    /\ UNCHANGED << call, poll_timeout, now, wake, revents, open, conn, data,
                    interrupts >>

(* poll returns 1.                                                         *)
Active ==
    LET bad == IF conn \in {"failed", "reset"} THEN {"BAD"} ELSE {}
        ready == IF IF connecting THEN conn # "pending" ELSE data
                   THEN {"READY"} ELSE {}
    IN  /\ pc = "poll"
        /\ revents' = bad \union ready
        /\ revents' # {}
        /\ pc' = "active"
        /\ UNCHANGED << call, poll_timeout, now, wake, rc, open, sock,
                        interrupts >>

(* Fault: a socket that became writable is taken for a connected one.      *)
CheckActiveUnverified ==
    /\ pc = "active"
    /\ \/ "READY" \in revents /\ Return("SUCCESS")
       \/ "READY" \notin revents /\ pc' = "loop" /\ UNCHANGED rc
    /\ revents' = {}
    /\ UNCHANGED << call, poll_timeout, now, wake, open, sock, interrupts >>

(* A pending error is returned; on an established connection it closes the *)
(* socket (memcached_quit_server).  For a new connection POLLOUT is not    *)
(* enough: its error is asked for once more.                               *)
CheckActive ==
    LET asked == "BAD" \in revents \/ connecting
    IN  /\ pc = "active"
        /\ \/ asked /\ io_sock_err /\ Return("ERRNO")
              /\ open' = connecting
           \/ /\ ~asked \/ ~so_error
              /\ UNCHANGED << so_error, open >>
              /\ \/ "READY" \in revents /\ Return("SUCCESS")
                 \/ "READY" \notin revents /\ pc' = "loop" /\ UNCHANGED rc
        /\ revents' = {}
        /\ UNCHANGED << call, poll_timeout, now, wake, conn, data, interrupts >>

-----------------------------------------------------------------------------
(* The environment: the other side, and the clock, which moves while the   *)
(* process sleeps and does not pass the end of the sleep.                  *)
Peer ==
    /\ pc # "done"
    /\ \/ /\ conn = "pending" /\ conn' = "established"
          /\ UNCHANGED << so_error, data >>
       \/ /\ conn = "pending" /\ conn' = "failed" /\ so_error' = TRUE
          /\ UNCHANGED data
       \/ /\ conn = "established" /\ conn' = "reset" /\ so_error' = TRUE
          /\ data' = TRUE
       \/ /\ conn = "established" /\ ~data /\ data' = TRUE
          /\ UNCHANGED << conn, so_error >>
    /\ UNCHANGED << pc, call, poll_timeout, now, wake, revents, rc, open,
                    interrupts >>

Tick ==
    /\ pc = "poll"
    /\ now < IF wake = Never THEN MaxNow ELSE wake
    /\ now' = now + 1
    /\ UNCHANGED << pc, call, poll_timeout, wake, revents, rc, open, sock,
                    interrupts >>

Next == \/ Start \/ Poll \/ Interrupted \/ PollFails \/ Expires
        \/ CheckExpired \/ Active \/ CheckActive \/ Peer \/ Tick

Spec == Init /\ [][Next]_vars

-----------------------------------------------------------------------------
(* As long as at most one signal comes, a call with a positive time-out    *)
(* lasts no longer than that and does not give up before (io.cc, the       *)
(* subtraction from poll_timeout).                                         *)
OnTime ==
    timeout > 0 /\ interrupts <= 1 =>
       /\ now <= timeout
       /\ rc = "TIMEOUT" => now = timeout
=============================================================================
