------------------------------ MODULE PoolTimed ------------------------------
(***************************************************************************)
(* The time-out of memcached_pool_fetch.  Pool says that a sleep may end;  *)
(* here a clock says when.  The clock counts ticks, TicksPerSecond to the  *)
(* second, so that the whole seconds of time(NULL), from which fetch       *)
(* computes the absolute deadline of pthread_cond_timedwait, differ from   *)
(* the clock that the deadline is compared with.                           *)
(***************************************************************************)
EXTENDS Pool

CONSTANTS TicksPerSecond,
          RelativeTime,    \* relative_time in ticks
          MaxTime          \* bound on the clock

ASSUME TimeAssumption ==
  /\ TicksPerSecond \in Nat \ {0}
  /\ RelativeTime \in Nat \ {0}
  /\ MaxTime \in Nat

VARIABLES now,        \* CLOCK_REALTIME
          blocked,    \* blocked[t]: when t's fetch first waited, or Never
          deadline    \* deadline[t]: time_to_wait of t's last wait

Never == -1

timedVars == <<vars, now, blocked, deadline>>

\* Fault: the whole seconds are counted from the start of the second before.
WholeSecondsLess(n) == n - (n % TicksPerSecond) - TicksPerSecond

\* time(NULL), in ticks.
WholeSeconds(n) == n - (n % TicksPerSecond)

TimedFetchLock(t) ==
  /\ FetchLock(t)
  /\ blocked' = [blocked EXCEPT ![t] = Never]
  /\ UNCHANGED <<now, deadline>>

\* time_to_wait is computed anew each time the loop of fetch comes round.
TimedFetchWait(t) ==
  /\ FetchWait(t)
  /\ deadline' = [deadline EXCEPT ![t] = WholeSeconds(now) + RelativeTime]
  /\ blocked' = [blocked EXCEPT ![t] = IF @ = Never THEN now ELSE @]
  /\ UNCHANGED now

\* ETIMEDOUT is returned once the clock has reached the deadline.
TimedSleepEnds(t) ==
  /\ FetchSleepEnds(t)
  /\ pc'[t] = "expired" => now >= deadline[t]
  /\ UNCHANGED <<now, blocked, deadline>>

\* The other steps take no time.
Untimed ==
  /\ \/ \E t \in Threads :
          \/ FetchPop(t) \/ FetchNotFound(t) \/ FetchReacquire(t)
          \/ FetchExpired(t) \/ FetchGrow(t) \/ ReleaseLock(t) \/ Release(t)
          \/ BehaviorSet(t)
     \/ Destroy
  /\ UNCHANGED <<now, blocked, deadline>>

Tick ==
  /\ now < MaxTime
  /\ now' = now + 1
  /\ UNCHANGED <<vars, blocked, deadline>>

TimeEnds == now = MaxTime /\ UNCHANGED timedVars

TimedInit ==
  /\ Init
  /\ now \in 0 .. TicksPerSecond - 1
  /\ blocked = [t \in Threads |-> Never]
  /\ deadline = [t \in Threads |-> 0]

TimedNext ==
  \/ \E t \in Threads :
       TimedFetchLock(t) \/ TimedFetchWait(t) \/ TimedSleepEnds(t)
  \/ Untimed \/ Tick \/ TimeEnds

TimedSpec == TimedInit /\ [][TimedNext]_timedVars
-----------------------------------------------------------------------------
\* However often the wait is started over, a fetch that times out has waited
\* for its relative_time less at most one second, the part of the current
\* second that time(NULL) drops.
EarlyByLessThanASecond ==
  \A t \in Threads :
    pc[t] = "expired" => now + TicksPerSecond > blocked[t] + RelativeTime
=============================================================================
