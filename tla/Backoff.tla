------------------------------ MODULE Backoff ------------------------------
(***************************************************************************)
(* When a memcached_st tries to connect to its servers, when it leaves     *)
(* them alone, and when it takes them out of the distribution:             *)
(* _memcached_connect and backoff_handling (connect.cc),                   *)
(* memcached_mark_server_for_timeout (server.hpp), update_continuum        *)
(* (hosts.cc), _regen_for_auto_eject (hash.cc) and memcached_quit_server   *)
(* (quit.cc).  How one attempt walks through the addresses of a host is    *)
(* left to module Connect: here an attempt succeeds or fails.              *)
(*                                                                         *)
(* The code compares times only with the clock, so a time is kept as its   *)
(* distance from now, in seconds, and -1 stands for every time that has    *)
(* passed (next_retry = 0 and next_retry = 1 too).  Counters are only      *)
(* compared with their limits, so they stop there.  A query id is only     *)
(* compared with the current one, so a server keeps whether its last       *)
(* failure was counted in the current query.                               *)
(***************************************************************************)
EXTENDS Integers, FiniteSets, FiniteSetsExt

CONSTANTS
    Servers,       \* the instances of one memcached_st
    NULL,          \* no server, no rebuild
    FailureLimit,  \* server_failure_limit
    TimeoutLimit,  \* server_timeout_limit
    RetryTimeout,  \* retry_timeout, in seconds
    DeadTimeout,   \* dead_timeout, in seconds; 0: dead servers stay dead
    AutoEject,     \* flags.auto_eject_hosts
    Consistent,    \* the distribution is one of the ketama ones
    UseUdp         \* flags.use_udp

(* memcached_behavior_set refuses a failure limit of zero.                 *)
ASSUME BackoffAssumption ==
    /\ IsFiniteSet(Servers) /\ Servers # {}
    /\ NULL \notin Servers /\ NULL \notin Int
    /\ FailureLimit \in Nat \ {0}
    /\ TimeoutLimit \in Nat
    /\ RetryTimeout \in Nat
    /\ DeadTimeout \in Nat
    /\ AutoEject \in BOOLEAN /\ Consistent \in BOOLEAN /\ UseUdp \in BOOLEAN

VARIABLES
    fd,               \* the instance has a socket
    state,            \* memcached_server_state_t
    timeout_counter,  \* server_timeout_counter
    failure_counter,  \* server_failure_counter
    timeout_counted,  \* server_timeout_counter_query_id = query_id
    failure_counted,  \* server_failure_counter_query_id = query_id
    next_retry,       \* next_retry - now, -1 when it has passed
    continuum,        \* the servers that have points on the continuum
    rebuild,          \* next_distribution_rebuild - now, NULL for 0
    last_disconnected,\* last_disconnected_server
    connecting,       \* the attempt in progress, NULL if none
    ret,              \* the result of the last memcached_connect
    up,               \* the server accepts connections
    quiet,            \* seconds since the last failed attempt (history)
    fails,            \* failures since the last success (history)
    dead_left,        \* what is left of dead_timeout (history)
    raised            \* s failed in the current query (history)

instance == << fd, state, timeout_counter, failure_counter,
               timeout_counted, failure_counted, next_retry >>
distribution == << continuum, rebuild >>
history == << quiet, fails, dead_left, raised >>
vars == << instance, distribution, last_disconnected, connecting, ret, up,
           history >>

States == {"NEW", "ADDRINFO", "IN_PROGRESS", "CONNECTED", "IN_TIMEOUT"}
Results == {"SUCCESS", "FAILURE", "TEMPORARILY_DISABLED", "MARKED_DEAD"}

Longest == IF RetryTimeout < DeadTimeout THEN DeadTimeout ELSE RetryTimeout

(* ++counter, for a counter that is only compared with limit.              *)
Count(counter, limit) == IF counter < limit THEN counter + 1 ELSE counter

(* A time that comes one second nearer.                                    *)
Nearer(time) == IF time < 0 THEN time ELSE time - 1

-----------------------------------------------------------------------------
(* _server_init and the run_distribution that follows the last push.       *)
Init ==
    /\ fd = [s \in Servers |-> FALSE]
    /\ state = [s \in Servers |-> "NEW"]
    /\ timeout_counter = [s \in Servers |-> 0]
    /\ failure_counter = [s \in Servers |-> 0]
    /\ timeout_counted = [s \in Servers |-> FALSE]
    /\ failure_counted = [s \in Servers |-> FALSE]
    /\ next_retry = [s \in Servers |-> -1]
    /\ continuum = Servers
    /\ rebuild = NULL
    /\ last_disconnected = NULL
    /\ connecting = NULL
    /\ ret = [server |-> NULL, rc |-> "SUCCESS"]
    /\ up \in [Servers -> BOOLEAN]
    /\ quiet = [s \in Servers |-> RetryTimeout + 1]
    /\ fails = [s \in Servers |-> 0]
    /\ dead_left = [s \in Servers |-> 0]
    /\ raised = [s \in Servers |-> FALSE]

-----------------------------------------------------------------------------
(* Fault: the live servers are counted, but the time of the next rebuild   *)
(* is left at zero.                                                        *)
update_continuum_unscheduled(points, retry) ==
    LET live == {s \in Servers : AutoEject => retry[s] <= 0}
    IN  [continuum |-> IF live = {} THEN points.continuum ELSE live,
         rebuild |-> NULL]

(* The servers that are live get points; with none left the old continuum  *)
(* stays.  The next rebuild is due when the first ejected server may be    *)
(* tried again.  The array is large enough since the last push, so the     *)
(* allocation that could fail does not happen here.                        *)
update_continuum(points, retry) ==
    LET live == {s \in Servers : AutoEject => retry[s] <= 0}
    IN  [continuum |-> IF live = {} THEN points.continuum ELSE live,
         rebuild |-> IF ~AutoEject THEN points.rebuild
                     ELSE IF live = Servers THEN NULL
                     ELSE Min({retry[s] : s \in Servers \ live})]

run_distribution(points, retry) ==
    IF Consistent THEN update_continuum(points, retry) ELSE points

Points == [continuum |-> continuum, rebuild |-> rebuild]

_regen_for_auto_eject ==
    IF AutoEject /\ rebuild # NULL /\ rebuild < 0
      THEN run_distribution(Points, next_retry)
      ELSE Points

(* The servers that dispatch_host can return for some key.                 *)
dispatch_host(points) == IF Consistent THEN points.continuum ELSE Servers

Redistribute(points) ==
    /\ continuum' = points.continuum
    /\ rebuild' = points.rebuild

-----------------------------------------------------------------------------

(* memcached_mark_server_for_timeout on a server in state st, which is not *)
(* IN_TIMEOUT.  A query counts at most once against a server.              *)
memcached_mark_server_for_timeout(s, st) ==
    LET tc == IF timeout_counted[s] THEN timeout_counter[s]
                ELSE Count(timeout_counter[s], TimeoutLimit)
        out == tc >= TimeoutLimit
    IN  /\ timeout_counter' = [timeout_counter EXCEPT ![s] = tc]
        /\ timeout_counted' = [timeout_counted EXCEPT ![s] = TRUE]
        /\ state' = [state EXCEPT ![s] = IF out THEN "IN_TIMEOUT" ELSE st]
        /\ next_retry' = [next_retry EXCEPT ![s] =
                            IF out THEN RetryTimeout ELSE @]
        /\ failure_counter' = [failure_counter EXCEPT ![s] =
             IF out /\ ~failure_counted[s] THEN Count(@, FailureLimit) ELSE @]
        /\ failure_counted' = [failure_counted EXCEPT ![s] = @ \/ out]

(* What the history records of a failure of s.                             *)
Failed(s) ==
    /\ quiet' = [quiet EXCEPT ![s] = 0]
    /\ fails' = [fails EXCEPT ![s] = Count(@, FailureLimit)]
    /\ raised' = [raised EXCEPT ![s] = TRUE]
    /\ UNCHANGED dead_left

(* What it records of an ejection of s: the claim that s gets no more keys *)
(* is made when there is another server to give them to.                   *)
Ejected(s) ==
    /\ dead_left' = [dead_left EXCEPT ![s] =
                       IF \E t \in Servers \ {s} : next_retry[t] <= 0
                         THEN DeadTimeout ELSE @]
    /\ UNCHANGED << quiet, fails, raised >>

-----------------------------------------------------------------------------
OverLimit(s) == failure_counter[s] >= FailureLimit

(* _memcached_connect: there is a socket already.                          *)
Connected(s, points) ==
    /\ fd[s]
    /\ Redistribute(points)
    /\ ret' = [server |-> s, rc |-> "SUCCESS"]
    /\ UNCHANGED << instance, last_disconnected, connecting, up, history >>

(* Fault: dead_timeout does not put off the next attempt.                  *)
EjectAtOnce(s, points) ==
    /\ ~fd[s] /\ OverLimit(s) /\ AutoEject
    /\ failure_counter' = [failure_counter EXCEPT ![s] =
                             IF DeadTimeout > 0 THEN FailureLimit - 1 ELSE @]
    /\ Redistribute(run_distribution(points, next_retry))
    /\ last_disconnected' = s
    /\ ret' = [server |-> s, rc |-> "MARKED_DEAD"]
    /\ Ejected(s)
    /\ UNCHANGED << fd, state, timeout_counter, timeout_counted,
                    failure_counted, next_retry, connecting, up >>

(* Fault: a dead server keeps its full failure count.                      *)
EjectForGood(s, points) ==
    LET retry == IF DeadTimeout > 0
                   THEN [next_retry EXCEPT ![s] = DeadTimeout]
                   ELSE next_retry
    IN  /\ ~fd[s] /\ OverLimit(s) /\ AutoEject
        /\ next_retry' = retry
        /\ Redistribute(run_distribution(points, retry))
        /\ last_disconnected' = s
        /\ ret' = [server |-> s, rc |-> "MARKED_DEAD"]
        /\ Ejected(s)
        /\ UNCHANGED << fd, state, timeout_counter, timeout_counted,
                        failure_counter, failure_counted, connecting, up >>

(* backoff_handling: too many failures, and hosts are to be ejected.       *)
Eject(s, points) ==
    LET retry == IF DeadTimeout > 0
                   THEN [next_retry EXCEPT ![s] = DeadTimeout]
                   ELSE next_retry
    IN  /\ ~fd[s] /\ OverLimit(s) /\ AutoEject
        /\ next_retry' = retry
        /\ failure_counter' = [failure_counter EXCEPT ![s] =
                                 IF DeadTimeout > 0 THEN FailureLimit - 1
                                                    ELSE @]
        /\ Redistribute(run_distribution(points, retry))
        /\ last_disconnected' = s
        /\ ret' = [server |-> s, rc |-> "MARKED_DEAD"]
        /\ Ejected(s)
        /\ UNCHANGED << fd, state, timeout_counter, timeout_counted,
                        failure_counted, connecting, up >>

(* The server is to be left alone: it is in time-out, or over its limit.   *)
InTimeout(s) == state[s] = "IN_TIMEOUT" \/ (OverLimit(s) /\ ~AutoEject)

(* backoff_handling: not yet.                                              *)
Disabled(s, points) ==
    /\ ~fd[s] /\ ~(OverLimit(s) /\ AutoEject)
    /\ InTimeout(s)
    /\ next_retry[s] >= 0
    /\ state' = [state EXCEPT ![s] = "IN_TIMEOUT"]
    /\ Redistribute(points)
    /\ last_disconnected' = s
    /\ ret' = [server |-> s, rc |-> "TEMPORARILY_DISABLED"]
    /\ UNCHANGED << fd, timeout_counter, failure_counter, timeout_counted,
                    failure_counted, next_retry, connecting, up, history >>

(* Fault: a server is tried again in the second in which its retry is due. *)
AttemptEarly(s, points) ==
    /\ ~fd[s] /\ ~(OverLimit(s) /\ AutoEject)
    /\ InTimeout(s) => next_retry[s] <= 0
    /\ connecting' = [server |-> s, in_timeout |-> InTimeout(s)]
    /\ IF InTimeout(s)
         THEN /\ state' = [state EXCEPT ![s] = "NEW"]
              /\ timeout_counter' = [timeout_counter EXCEPT ![s] = 0]
         ELSE UNCHANGED << state, timeout_counter >>
    /\ Redistribute(points)
    /\ dead_left' = [dead_left EXCEPT ![s] = 0]
    /\ UNCHANGED << fd, failure_counter, timeout_counted, failure_counted,
                    next_retry, last_disconnected, ret, up, quiet, fails,
                    raised >>

(* backoff_handling lets the attempt through.                              *)
Attempt(s, points) ==
    /\ ~fd[s] /\ ~(OverLimit(s) /\ AutoEject)
    /\ InTimeout(s) => next_retry[s] < 0
    /\ connecting' = [server |-> s, in_timeout |-> InTimeout(s)]
    /\ IF InTimeout(s)
         THEN /\ state' = [state EXCEPT ![s] = "NEW"]
              /\ timeout_counter' = [timeout_counter EXCEPT ![s] = 0]
         ELSE UNCHANGED << state, timeout_counter >>
    /\ Redistribute(points)
    /\ dead_left' = [dead_left EXCEPT ![s] = 0]
    /\ UNCHANGED << fd, failure_counter, timeout_counted, failure_counted,
                    next_retry, last_disconnected, ret, up, quiet, fails,
                    raised >>

memcached_connect(s, points) ==
    \/ Connected(s, points)
    \/ Eject(s, points)
    \/ Disabled(s, points)
    \/ Attempt(s, points)

(* A request for a key that is found on s.                                 *)
Keyed(s) ==
    /\ connecting = NULL
    /\ s \in dispatch_host(_regen_for_auto_eject)
    /\ memcached_connect(s, _regen_for_auto_eject)

(* A request that is sent to every server: flush, stat, version.           *)
Broadcast(s) ==
    /\ connecting = NULL
    /\ memcached_connect(s, Points)

-----------------------------------------------------------------------------

(* The rest of _memcached_connect, after an attempt that may have taken    *)
(* some time.  A new socket is marked clean.  memcached_version_instance   *)
(* sends nothing: the version of a new connection is not known.            *)
ConnectSucceeds ==
    /\ connecting # NULL
    /\ LET s == connecting.server
       IN  /\ up[s] \/ UseUdp
           /\ fd' = [fd EXCEPT ![s] = TRUE]
           /\ state' = [state EXCEPT ![s] = "CONNECTED"]
           /\ timeout_counter' = [timeout_counter EXCEPT ![s] = 0]
           /\ failure_counter' = [failure_counter EXCEPT ![s] = 0]
           /\ next_retry' = [next_retry EXCEPT ![s] = -1]
           /\ ret' = [server |-> s, rc |-> "SUCCESS"]
           /\ fails' = [fails EXCEPT ![s] = 0]
    /\ connecting' = NULL
    /\ UNCHANGED << timeout_counted, failure_counted, distribution,
                    last_disconnected, up, quiet, dead_left, raised >>

(* A failed attempt leaves the state it reached: the lookup of the name,   *)
(* the first address, or the wait for the connection.                      *)
ConnectFails ==
    /\ connecting # NULL
    /\ LET s == connecting.server
       IN  /\ ~up[s]
           /\ \E st \in {state[s], "ADDRINFO", "IN_PROGRESS"} :
                memcached_mark_server_for_timeout(s, st)
           /\ last_disconnected' = s
           /\ ret' = [server |-> s,
                      rc |-> IF connecting.in_timeout
                               THEN "TEMPORARILY_DISABLED" ELSE "FAILURE"]
           /\ Failed(s)
    /\ connecting' = NULL
    /\ UNCHANGED << fd, distribution, up >>

(* memcached_quit_server after an input or output error: close_socket, and *)
(* with UDP the server is marked as after a failed attempt.                *)
IoDeath(s) ==
    /\ connecting = NULL
    /\ fd[s]
    /\ fd' = [fd EXCEPT ![s] = FALSE]
    /\ IF UseUdp
         THEN /\ memcached_mark_server_for_timeout(s, "NEW")
              /\ IF state'[s] = "IN_TIMEOUT" THEN last_disconnected' = s
                                            ELSE UNCHANGED last_disconnected
              /\ Failed(s)
         ELSE /\ state' = [state EXCEPT ![s] = "NEW"]
              /\ UNCHANGED << timeout_counter, failure_counter,
                              timeout_counted, failure_counted, next_retry,
                              last_disconnected, history >>
    /\ UNCHANGED << distribution, connecting, ret, up >>

(* initialize_query: the next query.                                       *)
initialize_query ==
    /\ timeout_counted' = [s \in Servers |-> FALSE]
    /\ failure_counted' = [s \in Servers |-> FALSE]
    /\ raised' = [s \in Servers |-> FALSE]

Query ==
    /\ connecting = NULL
    /\ initialize_query
    /\ UNCHANGED << fd, state, timeout_counter, failure_counter, next_retry,
                    distribution, last_disconnected, connecting, ret, up,
                    quiet, fails, dead_left >>

(* memcached_quit: every server is closed.  drain_instance forgives a      *)
(* server that was connected; close_socket makes every one NEW.  What the  *)
(* application asked for counts as a new beginning.                        *)
memcached_quit ==
    /\ connecting = NULL
    /\ initialize_query
    /\ failure_counter' = [s \in Servers |->
         IF fd[s] /\ ~UseUdp THEN 0 ELSE failure_counter[s]]
    /\ timeout_counter' = [s \in Servers |->
         IF fd[s] /\ ~UseUdp THEN 0 ELSE timeout_counter[s]]
    /\ fd' = [s \in Servers |-> FALSE]
    /\ state' = [s \in Servers |-> "NEW"]
    /\ quiet' = [s \in Servers |-> RetryTimeout + 1]
    /\ UNCHANGED << next_retry, distribution, last_disconnected, connecting,
                    ret, up, fails, dead_left >>

(* A second passes.                                                        *)
Tick ==
    /\ next_retry' = [s \in Servers |-> Nearer(next_retry[s])]
    /\ rebuild' = IF rebuild = NULL THEN NULL ELSE Nearer(rebuild)
    /\ quiet' = [s \in Servers |-> Count(quiet[s], RetryTimeout + 1)]
    /\ dead_left' = [s \in Servers |-> IF dead_left[s] = 0 THEN 0
                                        ELSE dead_left[s] - 1]
    /\ UNCHANGED << fd, state, timeout_counter, failure_counter,
                    timeout_counted, failure_counted, continuum,
                    last_disconnected, connecting, ret, up, fails, raised >>

(* The environment: a server stops or starts.                              *)
StopOrStart(s) ==
    /\ up' = [up EXCEPT ![s] = ~@]
    /\ UNCHANGED << instance, distribution, last_disconnected, connecting,
                    ret, history >>

Next ==
    \/ \E s \in Servers : Keyed(s) \/ Broadcast(s) \/ IoDeath(s)
                          \/ StopOrStart(s)
    \/ ConnectSucceeds \/ ConnectFails
    \/ Query \/ memcached_quit \/ Tick

Spec == Init /\ [][Next]_vars

(* The application keeps asking for keys of every server, time passes, and *)
(* an attempt to connect ends (connect_timeout).                           *)
Fairness ==
    /\ \A s \in Servers : SF_vars(Keyed(s))
    /\ WF_vars(ConnectSucceeds \/ ConnectFails)
    /\ WF_vars(Tick)

FairSpec == Spec /\ Fairness

-----------------------------------------------------------------------------
Times == -1 .. Longest

TypeOK ==
    /\ fd \in [Servers -> BOOLEAN]
    /\ state \in [Servers -> States]
    /\ timeout_counter \in [Servers -> 0 .. TimeoutLimit]
    /\ failure_counter \in [Servers -> 0 .. FailureLimit]
    /\ timeout_counted \in [Servers -> BOOLEAN]
    /\ failure_counted \in [Servers -> BOOLEAN]
    /\ next_retry \in [Servers -> Times]
    /\ continuum \in (SUBSET Servers) \ {{}}
    /\ rebuild \in Times \union {NULL}
    /\ last_disconnected \in Servers \union {NULL}
    /\ connecting \in [server : Servers, in_timeout : BOOLEAN] \union {NULL}
    /\ ret \in [server : Servers, rc : Results]
               \union {[server |-> NULL, rc |-> "SUCCESS"]}
    /\ up \in [Servers -> BOOLEAN]
    /\ quiet \in [Servers -> 0 .. RetryTimeout + 1]
    /\ fails \in [Servers -> 0 .. FailureLimit]
    /\ dead_left \in [Servers -> 0 .. DeadTimeout]
    /\ raised \in [Servers -> BOOLEAN]

(* A server that has no points on the continuum is not forgotten: the time *)
(* of a rebuild is set (hosts.cc, next_distribution_rebuild), and by then  *)
(* it may be live again unless it has failed once more.                    *)
RebuildScheduled ==
    \A s \in Servers \ continuum : rebuild # NULL

(* While dead_timeout runs, an ejected server gets no keys, neither from   *)
(* the continuum as it is nor after the rebuild that the next key makes,   *)
(* until it is tried again (connect.cc, hosts.cc, hash.cc).                *)
EjectedGetsNoKeys ==
    \A s \in Servers :
       Consistent /\ dead_left[s] > 0 => s \notin dispatch_host(_regen_for_auto_eject)

(* SERVER_MARKED_DEAD is returned only for a server that has failed        *)
(* server_failure_limit times since it was last connected.                 *)
DeadMeansFailed ==
    ret.rc = "MARKED_DEAD" => fails[ret.server] = FailureLimit

(* A query counts at most once against a server, however often it tries    *)
(* it (server.hpp, the two query ids).                                     *)
OncePerQuery ==
    [][\A s \in Servers : raised[s] =>
          /\ timeout_counter'[s] <= timeout_counter[s]
          /\ failure_counter'[s] <= failure_counter[s]]_vars

Starts(s) == connecting = NULL /\ connecting' # NULL /\ connecting'.server = s

(* The shortest time for which a server is left alone.                     *)
Pause == IF AutoEject /\ DeadTimeout > 0 /\ DeadTimeout < RetryTimeout
           THEN DeadTimeout ELSE RetryTimeout

(* With the default server_timeout_limit a server whose connection failed  *)
(* is not tried again for retry_timeout seconds, unless the application    *)
(* closes the connections in between (connect.cc, backoff_handling).       *)
BacksOff ==
    [][TimeoutLimit = 0 => \A s \in Servers : Starts(s) => quiet[s] > Pause]_vars

(* A server that stays up is connected again and again, as long as its     *)
(* keys are asked for: neither a time-out nor an ejection is for ever.     *)
RecoveredIsUsed ==
    \A s \in Servers : <>[]up[s] => []<>fd[s]
=============================================================================
