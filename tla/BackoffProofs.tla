--------------------------- MODULE BackoffProofs ---------------------------
(***************************************************************************)
(* The theorems about Backoff, for any set of servers and any limits, and  *)
(* the lemmas they rest on: about the distribution, backoff_handling and   *)
(* memcached_mark_server_for_timeout.                                      *)
(*                                                                         *)
(* IInv is the inductive invariant.  The invariants of Backoff are not     *)
(* inductive by themselves: what the counters, next_retry and the state of *)
(* a server say about its past failures has to be carried along.           *)
(***************************************************************************)
EXTENDS Backoff, WellFoundedInduction, TLAPS

(* The server of an attempt in progress was let through backoff_handling,  *)
(* and its time as a dead server is over.                                  *)
AttemptInv ==
    connecting # NULL =>
      /\ ~fd[connecting.server]
      /\ state[connecting.server] # "IN_TIMEOUT"
      /\ dead_left[connecting.server] = 0
      /\ TimeoutLimit = 0 => quiet[connecting.server] > Pause

(* The failure counter never runs ahead of the failures.                   *)
CountInv == \A s \in Servers : failure_counter[s] <= fails[s]

(* While dead_timeout runs, next_retry keeps the server off the continuum. *)
DeadInv ==
    \A s \in Servers : dead_left[s] > 0 =>
      /\ AutoEject /\ ~fd[s]
      /\ dead_left[s] <= next_retry[s]
      /\ Consistent => s \notin continuum

(* After its first failure in a query a server is not counted again.       *)
QueryInv ==
    \A s \in Servers : raised[s] =>
      /\ timeout_counted[s]
      /\ failure_counted[s] \/ timeout_counter[s] < TimeoutLimit

(* A server that failed a short while ago is in time-out for the rest of   *)
(* the pause.                                                              *)
PauseInv ==
    TimeoutLimit = 0 => \A s \in Servers : quiet[s] <= Pause =>
      /\ ~fd[s] /\ state[s] = "IN_TIMEOUT"
      /\ Pause - quiet[s] <= next_retry[s]

IInv == /\ TypeOK /\ AttemptInv /\ RebuildScheduled /\ CountInv /\ DeadInv
        /\ DeadMeansFailed /\ QueryInv /\ PauseInv

(* What every value of the distribution satisfies.                         *)
GoodPoints(p) ==
    /\ p \in [continuum : (SUBSET Servers) \ {{}}, rebuild : Times \union {NULL}]
    /\ \A s \in Servers \ p.continuum : p.rebuild # NULL
    /\ Consistent => \A s \in Servers : dead_left[s] > 0 => s \notin p.continuum
-----------------------------------------------------------------------------
(* A non-empty set of natural numbers has a least element, which is Min.   *)
LEMMA MinOfNaturals ==
  ASSUME NEW S \in SUBSET Nat, S # {}
  PROVE  Min(S) \in S
<1> DEFINE R == {ss \in Nat \X Nat : ss[1] < ss[2]}
<1>1. IsWellFoundedOn(R, Nat)
  BY NatLessThanWellFounded DEF OpToRel
<1>2. \E x \in S : \A y \in S : <<y, x>> \notin R
  <2> HIDE DEF R
  <2> QED BY <1>1, WFMin, Zenon
<1>3. PICK x \in S : \A y \in S : <<y, x>> \notin R
  BY <1>2
<1>4. ASSUME NEW y \in S PROVE x =< y
  <2>1. <<y, x>> \in Nat \X Nat /\ ~(<<y, x>>[1] < <<y, x>>[2])
    BY <1>3
  <2> QED BY <2>1
<1> QED
  BY <1>4, Zenon DEF Min

(* run_distribution keeps the shape of the distribution, schedules the     *)
(* return of every server that it leaves out, and leaves out those whose   *)
(* retry is in the future, if they were out already or another one is      *)
(* live.                                                                   *)
LEMMA DistributeGood ==
  ASSUME NEW p, p \in [continuum : (SUBSET Servers) \ {{}},
                       rebuild : Times \union {NULL}],
         \A s \in Servers \ p.continuum : p.rebuild # NULL,
         NEW retry \in [Servers -> Times],
         NEW q, q = run_distribution(p, retry)
  PROVE  /\ q \in [continuum : (SUBSET Servers) \ {{}},
                   rebuild : Times \union {NULL}]
         /\ \A s \in Servers \ q.continuum : q.rebuild # NULL
         /\ Consistent /\ AutoEject =>
              \A s \in Servers :
                retry[s] > 0 /\ (s \notin p.continuum
                                 \/ \E t \in Servers : retry[t] <= 0)
                  => s \notin q.continuum
<1> USE BackoffAssumption
<1>1. CASE ~Consistent
  BY <1>1 DEF run_distribution
<1>2. CASE Consistent
  <2> DEFINE live == {s \in Servers : AutoEject => retry[s] <= 0}
             late == {retry[s] : s \in Servers \ live}
  <2>1. q = [continuum |-> IF live = {} THEN p.continuum ELSE live,
             rebuild |-> IF ~AutoEject THEN p.rebuild
                         ELSE IF live = Servers THEN NULL ELSE Min(late)]
    BY <1>2 DEF run_distribution, update_continuum
  <2>2. ASSUME AutoEject, live # Servers PROVE Min(late) \in Times /\ Min(late) # NULL
    <3>1. late # {}
      BY <2>2
    <3>2. late \in SUBSET Nat /\ late \in SUBSET Times
      BY <2>2 DEF Times
    <3>3. Min(late) \in late
      BY <3>1, <3>2, MinOfNaturals, Zenon
    <3> QED
      BY <3>2, <3>3
  <2>3. ~AutoEject => live = Servers
    OBVIOUS
  <2> HIDE DEF late
  <2>4. q.continuum \in (SUBSET Servers) \ {{}} /\ q.rebuild \in Times \union {NULL}
    <3>1. q.continuum = IF live = {} THEN p.continuum ELSE live
      BY <2>1
    <3>2. q.rebuild = IF ~AutoEject THEN p.rebuild
                      ELSE IF live = Servers THEN NULL ELSE Min(late)
      BY <2>1
    <3>3. q.continuum \in (SUBSET Servers) \ {{}}
      BY <3>1
    <3>4. q.rebuild \in Times \union {NULL}
      <4> HIDE DEF live
      <4> QED BY <2>2, <3>2
    <3> QED BY <3>3, <3>4
  <2>5. \A s \in Servers \ q.continuum : q.rebuild # NULL
    <3>1. CASE AutoEject
      <4>1. CASE live = Servers
        BY <2>1, <4>1
      <4>2. CASE live # Servers
        BY <2>1, <2>2, <3>1, <4>2
      <4> QED BY <4>1, <4>2
    <3>2. CASE ~AutoEject
      BY <2>1, <2>3, <3>2
    <3> QED BY <3>1, <3>2
  <2>6. q \in [continuum : (SUBSET Servers) \ {{}}, rebuild : Times \union {NULL}]
    BY <2>1, <2>4
  <2>7. AutoEject => \A s \in Servers :
           retry[s] > 0 /\ (s \notin p.continuum
                            \/ \E t \in Servers : retry[t] <= 0)
             => s \notin q.continuum
    BY <2>1 DEF Times
  <2> QED
    BY <2>5, <2>6, <2>7
<1> QED BY <1>1, <1>2

LEMMA PointsGood == IInv => GoodPoints(Points)
BY DEF IInv, TypeOK, RebuildScheduled, DeadInv, GoodPoints, Points

LEMMA RegenGood == IInv => GoodPoints(_regen_for_auto_eject)
<1> SUFFICES ASSUME IInv PROVE GoodPoints(_regen_for_auto_eject)
  OBVIOUS
<1>1. GoodPoints(Points)
  BY PointsGood
<1>2. CASE _regen_for_auto_eject = Points
  BY <1>1, <1>2
<1>3. CASE /\ AutoEject
           /\ _regen_for_auto_eject = run_distribution(Points, next_retry)
  <2>1. next_retry \in [Servers -> Times]
    BY DEF IInv, TypeOK
  <2>2. \A s \in Servers : dead_left[s] > 0 => next_retry[s] > 0
    BY BackoffAssumption DEF IInv, TypeOK, DeadInv, Times
  <2>3. /\ _regen_for_auto_eject \in [continuum : (SUBSET Servers) \ {{}},
                                      rebuild : Times \union {NULL}]
        /\ \A s \in Servers \ _regen_for_auto_eject.continuum :
              _regen_for_auto_eject.rebuild # NULL
        /\ Consistent => \A s \in Servers :
              next_retry[s] > 0 /\ s \notin Points.continuum
                => s \notin _regen_for_auto_eject.continuum
    BY <1>1, <1>3, <2>1, DistributeGood DEF GoodPoints
  <2> QED
    BY <1>1, <2>2, <2>3 DEF GoodPoints
<1> QED
  BY <1>2, <1>3 DEF _regen_for_auto_eject

-----------------------------------------------------------------------------
(* A new object: nothing has failed and every server has points.           *)
LEMMA InitIInv == Init => IInv
<1> SUFFICES ASSUME Init PROVE IInv
  OBVIOUS
<1> USE BackoffAssumption DEF Init
<1>1. TypeOK
  BY DEF TypeOK, States, Results, Times, Longest
<1>2. AttemptInv /\ RebuildScheduled /\ CountInv /\ DeadInv /\ DeadMeansFailed
  BY DEF AttemptInv, RebuildScheduled, CountInv, DeadInv, DeadMeansFailed
<1>3. QueryInv /\ PauseInv
  BY DEF QueryInv, PauseInv, Pause
<1> QED BY <1>1, <1>2, <1>3 DEF IInv

(* The distribution after Redistribute is good with respect to dead_left.  *)
LEMMA RedistributeGood ==
  ASSUME NEW p, GoodPoints(p), Redistribute(p)
  PROVE  /\ continuum' \in (SUBSET Servers) \ {{}}
         /\ rebuild' \in Times \union {NULL}
         /\ RebuildScheduled'
         /\ Consistent => \A s \in Servers :
              dead_left[s] > 0 => s \notin continuum'
BY DEF GoodPoints, Redistribute, RebuildScheduled

(* Connected changes only the distribution and the result.                 *)
LEMMA ConnectedStep ==
  ASSUME IInv, NEW s \in Servers, NEW p, GoodPoints(p), Connected(s, p)
  PROVE  IInv'
<1> USE BackoffAssumption DEF IInv, Connected, instance, history
<1>0. /\ continuum' \in (SUBSET Servers) \ {{}}
      /\ rebuild' \in Times \union {NULL}
      /\ RebuildScheduled'
      /\ Consistent => \A u \in Servers : dead_left[u] > 0 => u \notin continuum'
  BY RedistributeGood
<1>1. TypeOK'
  BY <1>0 DEF TypeOK, Results
<1>2. AttemptInv'
  BY DEF AttemptInv, Pause
<1>3. RebuildScheduled'
  BY <1>0
<1>4. CountInv'
  BY DEF CountInv
<1>5. DeadInv'
  BY <1>0 DEF DeadInv
<1>6. DeadMeansFailed'
  BY DEF DeadMeansFailed
<1>7. QueryInv'
  BY DEF QueryInv
<1>8. PauseInv'
  BY DEF PauseInv, Pause
<1> QED BY <1>1, <1>2, <1>3, <1>4, <1>5, <1>6, <1>7, <1>8

(* Disabled only puts the server in the state it is treated by.            *)
LEMMA DisabledStep ==
  ASSUME IInv, NEW s \in Servers, NEW p, GoodPoints(p), Disabled(s, p), connecting = NULL
  PROVE  IInv'
<1> USE BackoffAssumption DEF IInv, Disabled, history
<1>0. /\ continuum' \in (SUBSET Servers) \ {{}}
      /\ rebuild' \in Times \union {NULL}
      /\ RebuildScheduled'
      /\ Consistent => \A u \in Servers : dead_left[u] > 0 => u \notin continuum'
  BY RedistributeGood
<1>1. TypeOK'
  BY <1>0 DEF TypeOK, Results, States
<1>2. AttemptInv'
  BY DEF AttemptInv
<1>3. RebuildScheduled'
  BY <1>0
<1>4. CountInv'
  BY DEF CountInv
<1>5. DeadInv'
  BY <1>0 DEF DeadInv
<1>6. DeadMeansFailed'
  BY DEF DeadMeansFailed
<1>7. QueryInv'
  BY DEF QueryInv
<1>8. PauseInv'
  BY DEF TypeOK, PauseInv, Pause
<1> QED BY <1>1, <1>2, <1>3, <1>4, <1>5, <1>6, <1>7, <1>8

(* Attempt is taken only when the pause is over.                           *)
LEMMA AttemptStep ==
  ASSUME IInv, NEW s \in Servers, NEW p, GoodPoints(p), Attempt(s, p), connecting = NULL
  PROVE  IInv'
<1> USE BackoffAssumption DEF IInv, Attempt
<1>0. /\ continuum' \in (SUBSET Servers) \ {{}}
      /\ rebuild' \in Times \union {NULL}
      /\ RebuildScheduled'
      /\ Consistent => \A u \in Servers : dead_left[u] > 0 => u \notin continuum'
  BY RedistributeGood
<1>9. TimeoutLimit = 0 => quiet[s] > Pause
  BY DEF TypeOK, PauseInv, Pause, InTimeout, Times
<1>10. connecting' \in [server : Servers, in_timeout : BOOLEAN]
  <2>1. InTimeout(s) \in BOOLEAN
    BY Zenon DEF InTimeout
  <2> QED BY <2>1
<1>1. TypeOK'
  BY <1>0, <1>10 DEF TypeOK, States
<1>2. AttemptInv'
  BY <1>9 DEF TypeOK, AttemptInv, Pause, InTimeout
<1>3. RebuildScheduled'
  BY <1>0
<1>4. CountInv'
  BY DEF CountInv
<1>5. DeadInv'
  BY <1>0 DEF TypeOK, DeadInv
<1>6. DeadMeansFailed'
  BY DEF DeadMeansFailed
<1>7. QueryInv'
  BY DEF TypeOK, QueryInv
<1>8. PauseInv'
  BY <1>9 DEF TypeOK, PauseInv, Pause
<1> QED BY <1>1, <1>2, <1>3, <1>4, <1>5, <1>6, <1>7, <1>8

(* Eject puts off the next attempt by dead_timeout and takes the server    *)
(* off the continuum if another one is live.                               *)
LEMMA EjectStep ==
  ASSUME IInv, NEW s \in Servers, NEW p, GoodPoints(p), Eject(s, p),
         connecting = NULL
  PROVE  IInv'
<1> DEFINE retry == IF DeadTimeout > 0 THEN [next_retry EXCEPT ![s] = DeadTimeout]
                                       ELSE next_retry
           q == run_distribution(p, retry)
<1> USE BackoffAssumption DEF IInv, Eject
<1>9. retry \in [Servers -> Times]
  BY DEF TypeOK, Times, Longest
<1>10. next_retry' = retry /\ Redistribute(q) /\ Ejected(s)
  BY Zenon
<1>11. /\ q \in [continuum : (SUBSET Servers) \ {{}}, rebuild : Times \union {NULL}]
       /\ \A u \in Servers \ q.continuum : q.rebuild # NULL
       /\ Consistent /\ AutoEject => \A u \in Servers :
            retry[u] > 0 /\ (u \notin p.continuum
                             \/ \E v \in Servers : retry[v] <= 0)
              => u \notin q.continuum
  <2> HIDE DEF retry
  <2> QED BY <1>9, DistributeGood DEF GoodPoints
<1>12. continuum' = q.continuum /\ rebuild' = q.rebuild
  BY <1>10 DEF Redistribute
<1>13. \A u \in Servers : dead_left[u] > 0 => retry[u] > 0 /\ dead_left[u] <= retry[u]
  BY DEF DeadInv, TypeOK, Times
<1>14. \A u \in Servers : dead_left'[u] > 0 =>
         retry[u] > 0 /\ dead_left'[u] <= retry[u]
  BY <1>10, <1>13 DEF Ejected, TypeOK
<1>15. Consistent => \A u \in Servers : dead_left'[u] > 0 => u \notin continuum'
  <2> SUFFICES ASSUME Consistent, NEW u \in Servers, dead_left'[u] > 0
               PROVE  u \notin continuum'
    OBVIOUS
  <2> HIDE DEF retry, q
  <2>1. CASE dead_left'[u] = dead_left[u]
    BY <1>11, <1>12, <1>14, <2>1 DEF GoodPoints
  <2>2. CASE dead_left'[u] # dead_left[u]
    <3>1. \E v \in Servers : retry[v] <= 0
      BY <1>10, <2>2 DEF Ejected, TypeOK
    <3> QED BY <1>11, <1>12, <1>14, <3>1
  <2> QED BY <2>1, <2>2
<1>16. next_retry' \in [Servers -> Times]
  BY <1>9, <1>10
<1>17. /\ continuum' \in (SUBSET Servers) \ {{}}
       /\ rebuild' \in Times \union {NULL}
       /\ RebuildScheduled'
  <2> HIDE DEF q
  <2> QED BY <1>11, <1>12 DEF RebuildScheduled
<1> HIDE DEF q
<1>18. /\ failure_counter' \in [Servers -> 0 .. FailureLimit]
       /\ last_disconnected' \in Servers \union {NULL}
  BY DEF TypeOK
<1>19. dead_left' \in [Servers -> 0 .. DeadTimeout]
  BY <1>10 DEF TypeOK, Ejected
<1>20. ret' \in [server : Servers, rc : Results]
  <2> HIDE DEF IInv
  <2> QED BY DEF Results
<1>21. UNCHANGED << fd, state, timeout_counter, timeout_counted,
                    failure_counted, connecting, up, quiet, fails, raised >>
  BY <1>10 DEF Ejected
<1>1. TypeOK'
  BY <1>16, <1>17, <1>18, <1>19, <1>20, <1>21 DEF TypeOK
<1>2. AttemptInv'
  BY DEF AttemptInv
<1>3. RebuildScheduled'
  BY <1>17
<1>4. CountInv'
  BY DEF CountInv, TypeOK, Ejected, OverLimit
<1>5. DeadInv'
  <2>1. \A u \in Servers : dead_left'[u] > 0 => AutoEject /\ ~fd'[u]
    BY DEF DeadInv, Ejected, TypeOK
  <2> HIDE DEF retry
  <2> QED BY <1>10, <1>14, <1>15, <2>1, Zenon DEF DeadInv
<1>6. DeadMeansFailed'
  <2>1. failure_counter[s] <= fails[s] /\ fails[s] \in 0 .. FailureLimit
    BY DEF CountInv, TypeOK
  <2>2. fails[s] = FailureLimit
    <3>1. /\ failure_counter[s] >= FailureLimit
          /\ failure_counter[s] \in 0 .. FailureLimit
      BY DEF TypeOK, OverLimit
    <3> QED BY ONLY <2>1, <3>1, FailureLimit \in Nat
  <2>3. ret'.server = s /\ fails' = fails
    BY <1>21
  <2> QED BY <2>2, <2>3 DEF DeadMeansFailed
<1>7. QueryInv'
  BY DEF QueryInv, Ejected
<1>8. PauseInv'
  BY DEF PauseInv, TypeOK, Pause, Ejected, Times
<1> QED BY <1>1, <1>2, <1>3, <1>4, <1>5, <1>6, <1>7, <1>8

(* What memcached_mark_server_for_timeout does to s, and that it leaves    *)
(* the other servers alone.                                                *)
LEMMA MarkEffect ==
  ASSUME TypeOK, NEW s \in Servers, NEW st \in States,
         memcached_mark_server_for_timeout(s, st)
  PROVE  /\ timeout_counter' \in [Servers -> 0 .. TimeoutLimit]
         /\ failure_counter' \in [Servers -> 0 .. FailureLimit]
         /\ state' \in [Servers -> States]
         /\ next_retry' \in [Servers -> Times]
         /\ timeout_counted' \in [Servers -> BOOLEAN]
         /\ failure_counted' \in [Servers -> BOOLEAN]
         /\ \A u \in Servers \ {s} :
              /\ timeout_counter'[u] = timeout_counter[u]
              /\ failure_counter'[u] = failure_counter[u]
              /\ timeout_counted'[u] = timeout_counted[u]
              /\ failure_counted'[u] = failure_counted[u]
              /\ state'[u] = state[u] /\ next_retry'[u] = next_retry[u]
         /\ timeout_counted'[s]
         /\ timeout_counted[s] => timeout_counter'[s] = timeout_counter[s]
         /\ \/ /\ timeout_counter'[s] >= TimeoutLimit
               /\ state'[s] = "IN_TIMEOUT" /\ next_retry'[s] = RetryTimeout
               /\ failure_counted'[s]
               /\ failure_counter'[s] = IF failure_counted[s]
                    THEN failure_counter[s]
                    ELSE Count(failure_counter[s], FailureLimit)
            \/ /\ timeout_counter'[s] < TimeoutLimit
               /\ state'[s] = st /\ next_retry'[s] = next_retry[s]
               /\ failure_counter'[s] = failure_counter[s]
               /\ failure_counted'[s] = failure_counted[s]
<1> DEFINE tc == IF timeout_counted[s] THEN timeout_counter[s]
                   ELSE Count(timeout_counter[s], TimeoutLimit)
           out == tc >= TimeoutLimit
<1> USE BackoffAssumption
<1>1. tc \in 0 .. TimeoutLimit
  BY DEF TypeOK, Count
<1>2. Count(failure_counter[s], FailureLimit) \in 0 .. FailureLimit
  BY DEF TypeOK, Count
<1>3. /\ timeout_counter' = [timeout_counter EXCEPT ![s] = tc]
      /\ timeout_counted' = [timeout_counted EXCEPT ![s] = TRUE]
      /\ state' = [state EXCEPT ![s] = IF out THEN "IN_TIMEOUT" ELSE st]
      /\ next_retry' = [next_retry EXCEPT ![s] = IF out THEN RetryTimeout ELSE @]
      /\ failure_counter' = [failure_counter EXCEPT ![s] =
            IF out /\ ~failure_counted[s] THEN Count(@, FailureLimit) ELSE @]
      /\ failure_counted' = [failure_counted EXCEPT ![s] = @ \/ out]
  BY Zenon DEF memcached_mark_server_for_timeout
<1>4. /\ RetryTimeout \in Times /\ "IN_TIMEOUT" \in States
      /\ timeout_counter \in [Servers -> 0 .. TimeoutLimit]
      /\ failure_counter \in [Servers -> 0 .. FailureLimit]
      /\ state \in [Servers -> States]
      /\ next_retry \in [Servers -> Times]
      /\ timeout_counted \in [Servers -> BOOLEAN]
      /\ failure_counted \in [Servers -> BOOLEAN]
  BY DEF TypeOK, Times, Longest, States
<1>5. timeout_counted[s] => tc = timeout_counter[s]
  OBVIOUS
<1>6. CASE out
  <2>1. failure_counted' = [failure_counted EXCEPT ![s] = TRUE]
    <3>1. (failure_counted[s] \/ out) = TRUE
      BY <1>6
    <3> HIDE DEF out
    <3> QED BY <1>3, <3>1, Zenon
  <2>2. /\ state' = [state EXCEPT ![s] = "IN_TIMEOUT"]
        /\ next_retry' = [next_retry EXCEPT ![s] = RetryTimeout]
        /\ failure_counter' = [failure_counter EXCEPT ![s] =
              IF failure_counted[s] THEN @ ELSE Count(@, FailureLimit)]
    BY <1>3, <1>6, Zenon
  <2>3. tc >= TimeoutLimit
    BY <1>6
  <2> HIDE DEF tc, out
  <2> QED BY <1>1, <1>2, <1>3, <1>4, <1>5, <2>1, <2>2, <2>3
<1>7. CASE ~out
  <2>1. failure_counted' = [failure_counted EXCEPT ![s] = @]
    <3>1. (failure_counted[s] \/ out) = failure_counted[s]
      BY <1>4, <1>7
    <3> HIDE DEF out
    <3> QED BY <1>3, <3>1, Zenon
  <2>2. /\ state' = [state EXCEPT ![s] = st]
        /\ next_retry' = [next_retry EXCEPT ![s] = @]
        /\ failure_counter' = [failure_counter EXCEPT ![s] = @]
    BY <1>3, <1>7, Zenon
  <2>3. tc < TimeoutLimit
    BY <1>1, <1>7
  <2> HIDE DEF tc, out
  <2> QED BY <1>1, <1>3, <1>4, <1>5, <2>1, <2>2, <2>3, SMTT(30)
<1> QED BY <1>6, <1>7

-----------------------------------------------------------------------------
(* Every step keeps IInv.                                                  *)
(* A failure of s that is marked: the counters move together with the      *)
(* history, and without a time-out limit s is in time-out at once.         *)
LEMMA MarkStep ==
  ASSUME IInv, NEW s \in Servers, NEW st \in States, st # "IN_TIMEOUT",
         memcached_mark_server_for_timeout(s, st), Failed(s),
         dead_left[s] = 0, fd' = [fd EXCEPT ![s] = FALSE],
         connecting' = NULL, UNCHANGED << distribution, up >>,
         last_disconnected' \in {last_disconnected, s},
         ret' = ret \/ ret' \in [server : {s}, rc : {"FAILURE", "TEMPORARILY_DISABLED"}]
  PROVE  IInv'
<1> USE BackoffAssumption DEF distribution
<1>9. TypeOK /\ CountInv /\ DeadInv /\ DeadMeansFailed /\ QueryInv /\ PauseInv
      /\ RebuildScheduled
  BY DEF IInv
<1>10. /\ timeout_counter' \in [Servers -> 0 .. TimeoutLimit]
       /\ failure_counter' \in [Servers -> 0 .. FailureLimit]
       /\ state' \in [Servers -> States]
       /\ next_retry' \in [Servers -> Times]
       /\ timeout_counted' \in [Servers -> BOOLEAN]
       /\ failure_counted' \in [Servers -> BOOLEAN]
  BY <1>9, MarkEffect
<1>11. \A u \in Servers \ {s} :
         /\ timeout_counter'[u] = timeout_counter[u]
         /\ failure_counter'[u] = failure_counter[u]
         /\ timeout_counted'[u] = timeout_counted[u]
         /\ failure_counted'[u] = failure_counted[u]
         /\ state'[u] = state[u] /\ next_retry'[u] = next_retry[u]
  BY <1>9, MarkEffect
<1>12. /\ timeout_counted'[s]
       /\ failure_counted'[s] \/ timeout_counter'[s] < TimeoutLimit
       /\ failure_counter'[s] <= Count(failure_counter[s], FailureLimit)
       /\ TimeoutLimit = 0 =>
            state'[s] = "IN_TIMEOUT" /\ next_retry'[s] = RetryTimeout
  <2>1. failure_counter[s] \in 0 .. FailureLimit /\ timeout_counter'[s] \in 0 .. TimeoutLimit
    BY <1>9, <1>10 DEF TypeOK
  <2>2. failure_counter[s] <= Count(failure_counter[s], FailureLimit)
    BY <2>1 DEF Count
  <2>3. Count(failure_counter[s], FailureLimit) \in Int
    BY <2>1 DEF Count
  <2> QED BY <1>9, <2>1, <2>2, <2>3, MarkEffect
<1>13. /\ quiet' = [quiet EXCEPT ![s] = 0]
       /\ fails' = [fails EXCEPT ![s] = Count(@, FailureLimit)]
       /\ raised' = [raised EXCEPT ![s] = TRUE]
       /\ dead_left' = dead_left
  BY DEF Failed
<1>14. fails' \in [Servers -> 0 .. FailureLimit]
  BY <1>9, <1>13 DEF TypeOK, Count
<1>15. /\ quiet' \in [Servers -> 0 .. RetryTimeout + 1]
       /\ raised' \in [Servers -> BOOLEAN]
  BY <1>9, <1>13 DEF TypeOK
<1>17. ret' \in [server : Servers, rc : Results]
                \union {[server |-> NULL, rc |-> "SUCCESS"]}
  BY <1>9 DEF TypeOK, Results
<1>1. TypeOK'
  BY <1>9, <1>10, <1>13, <1>14, <1>15, <1>17 DEF TypeOK
<1>2. AttemptInv'
  BY DEF AttemptInv
<1>3. RebuildScheduled'
  BY <1>9 DEF RebuildScheduled
<1>4. CountInv'
  <2>1. failure_counter[s] \in 0 .. FailureLimit /\ fails[s] \in 0 .. FailureLimit
    BY <1>9 DEF TypeOK
  <2>2. Count(failure_counter[s], FailureLimit) <= Count(fails[s], FailureLimit)
    BY <1>9, <2>1 DEF CountInv, Count
  <2>3. Count(failure_counter[s], FailureLimit) \in Int /\ Count(fails[s], FailureLimit) \in Int
    BY <2>1 DEF Count
  <2>4. fails'[s] = Count(fails[s], FailureLimit) /\ failure_counter'[s] \in Int
    BY <1>9, <1>10, <1>13 DEF TypeOK
  <2>5. failure_counter'[s] <= fails'[s]
    BY <1>12, <2>2, <2>3, <2>4
  <2>6. \A u \in Servers \ {s} : fails'[u] = fails[u]
    BY <1>9, <1>13 DEF TypeOK
  <2> QED BY <1>9, <1>11, <2>5, <2>6 DEF CountInv
<1>5. DeadInv'
  <2>1. \A u \in Servers : fd'[u] => fd[u]
    BY <1>9 DEF TypeOK
  <2>2. ~(dead_left[s] > 0)
    OBVIOUS
  <2> QED BY <1>9, <1>11, <1>13, <2>1, <2>2 DEF DeadInv
<1>6. DeadMeansFailed'
  <2>1. \A u \in Servers : fails[u] = FailureLimit => fails'[u] = FailureLimit
    BY <1>9, <1>13 DEF TypeOK, Count
  <2>2. ret'.rc = "MARKED_DEAD" => ret' = ret
    OBVIOUS
  <2>3. ret.rc = "MARKED_DEAD" => ret.server \in Servers
    BY <1>9 DEF DeadMeansFailed, TypeOK
  <2> QED BY <1>9, <2>1, <2>2, <2>3 DEF DeadMeansFailed
<1>7. QueryInv'
  <2>1. \A u \in Servers \ {s} : raised'[u] = raised[u]
    BY <1>9, <1>13 DEF TypeOK
  <2> QED BY <1>9, <1>11, <1>12, <2>1 DEF QueryInv
<1>8. PauseInv'
  <2>1. \A u \in Servers \ {s} : quiet'[u] = quiet[u] /\ fd'[u] = fd[u]
    BY <1>9, <1>13 DEF TypeOK
  <2>2. quiet'[s] = 0 /\ ~fd'[s]
    BY <1>9, <1>13 DEF TypeOK
  <2>3. Pause - 0 <= RetryTimeout
    BY DEF Pause
  <2> QED BY <1>9, <1>11, <1>12, <2>1, <2>2, <2>3 DEF PauseInv, Pause
<1> QED BY <1>1, <1>2, <1>3, <1>4, <1>5, <1>6, <1>7, <1>8 DEF IInv

LEMMA ConnectFailsStep == ASSUME IInv, ConnectFails PROVE IInv'
<1> USE BackoffAssumption DEF IInv
<1>1. PICK s \in Servers : connecting # NULL /\ s = connecting.server
  BY DEF ConnectFails, TypeOK
<1>2. PICK st \in {state[s], "ADDRINFO", "IN_PROGRESS"} :
        memcached_mark_server_for_timeout(s, st)
  BY <1>1 DEF ConnectFails
<1>3. st \in States /\ st # "IN_TIMEOUT" /\ dead_left[s] = 0 /\ ~fd[s]
  BY <1>1 DEF AttemptInv, TypeOK, States
<1>4. fd' = [fd EXCEPT ![s] = FALSE]
  BY <1>3 DEF ConnectFails, TypeOK
<1>5. /\ Failed(s) /\ connecting' = NULL /\ UNCHANGED << distribution, up >>
      /\ last_disconnected' = s
      /\ ret' \in [server : {s}, rc : {"FAILURE", "TEMPORARILY_DISABLED"}]
  BY <1>1 DEF ConnectFails
<1> QED
  BY <1>2, <1>3, <1>4, <1>5, MarkStep, Zenon

LEMMA IoDeathStep == ASSUME IInv, NEW s \in Servers, IoDeath(s) PROVE IInv'
<1> USE BackoffAssumption DEF IInv
<1>1. dead_left[s] = 0 /\ fd[s] /\ connecting = NULL /\ connecting' = NULL
  BY DEF IoDeath, DeadInv, TypeOK
<1>2. CASE UseUdp
  <2>1. /\ memcached_mark_server_for_timeout(s, "NEW") /\ Failed(s)
        /\ last_disconnected' \in {last_disconnected, s}
        /\ UNCHANGED << distribution, up >> /\ ret' = ret
        /\ fd' = [fd EXCEPT ![s] = FALSE]
    BY <1>2 DEF IoDeath
  <2>2. "NEW" \in States /\ "NEW" # "IN_TIMEOUT"
    BY DEF States
  <2> QED BY <1>1, <2>1, <2>2, MarkStep, Zenon
<1>3. CASE ~UseUdp
  <2> USE <1>1, <1>3 DEF IoDeath, history, distribution
  <2>1. TypeOK'
    BY DEF TypeOK, States
  <2>2. AttemptInv' /\ RebuildScheduled' /\ CountInv' /\ DeadMeansFailed' /\ QueryInv'
    BY DEF AttemptInv, RebuildScheduled, CountInv, DeadMeansFailed, QueryInv
  <2>3. DeadInv'
    BY DEF DeadInv, TypeOK
  <2>4. PauseInv'
    BY DEF PauseInv, TypeOK, Pause
  <2> QED BY <2>1, <2>2, <2>3, <2>4
<1> QED BY <1>2, <1>3

LEMMA ConnectSucceedsStep == ASSUME IInv, ConnectSucceeds PROVE IInv'
<1> USE BackoffAssumption DEF IInv
<1>9. PICK s \in Servers : connecting # NULL /\ s = connecting.server
  BY DEF ConnectSucceeds, TypeOK
<1> USE <1>9 DEF ConnectSucceeds, distribution
<1>1. TypeOK'
  BY DEF TypeOK, States, Results, Times, Longest
<1>2. AttemptInv'
  BY DEF AttemptInv
<1>3. RebuildScheduled'
  BY DEF RebuildScheduled
<1>4. CountInv'
  BY DEF CountInv, TypeOK
<1>5. DeadInv'
  BY DEF DeadInv, AttemptInv, TypeOK
<1>6. DeadMeansFailed'
  BY DEF DeadMeansFailed, TypeOK
<1>7. QueryInv'
  BY DEF QueryInv, TypeOK
<1>8. PauseInv'
  BY DEF PauseInv, AttemptInv, TypeOK, Pause
<1> QED BY <1>1, <1>2, <1>3, <1>4, <1>5, <1>6, <1>7, <1>8

(* A new query forgets what was counted in the old one.                    *)
LEMMA QueryStep ==
  ASSUME IInv, Query
  PROVE  IInv'
<1> USE BackoffAssumption DEF IInv, Query, initialize_query, distribution
<1>1. TypeOK'
  BY DEF TypeOK
<1>2. AttemptInv'
  BY DEF AttemptInv
<1>3. RebuildScheduled'
  BY DEF RebuildScheduled
<1>4. CountInv'
  BY DEF CountInv
<1>5. DeadInv'
  BY DEF DeadInv
<1>6. DeadMeansFailed'
  BY DEF DeadMeansFailed
<1>7. QueryInv'
  BY DEF QueryInv
<1>8. PauseInv'
  BY DEF PauseInv, Pause
<1> QED BY <1>1, <1>2, <1>3, <1>4, <1>5, <1>6, <1>7, <1>8

(* memcached_quit makes every server NEW and ends every pause.             *)
LEMMA QuitStep ==
  ASSUME IInv, memcached_quit
  PROVE  IInv'
<1> USE BackoffAssumption DEF IInv, memcached_quit, initialize_query, distribution
<1>1. TypeOK'
  BY SMTT(30) DEF TypeOK, States
<1>2. AttemptInv'
  BY DEF AttemptInv
<1>3. RebuildScheduled'
  BY DEF RebuildScheduled
<1>4. CountInv'
  BY SMTT(30) DEF CountInv, TypeOK
<1>5. DeadInv'
  BY DEF DeadInv
<1>6. DeadMeansFailed'
  BY DEF DeadMeansFailed
<1>7. QueryInv'
  BY DEF QueryInv
<1>8. PauseInv'
  BY DEF PauseInv, TypeOK, Pause
<1> QED BY <1>1, <1>2, <1>3, <1>4, <1>5, <1>6, <1>7, <1>8

(* Time brings next_retry, rebuild and the end of a pause nearer.          *)
LEMMA TickStep ==
  ASSUME IInv, Tick
  PROVE  IInv'
<1> USE BackoffAssumption
<1>9. TypeOK /\ AttemptInv /\ RebuildScheduled /\ CountInv /\ DeadInv
      /\ DeadMeansFailed /\ QueryInv /\ PauseInv
  BY DEF IInv
<1>10. \A u \in Servers :
         /\ next_retry[u] \in Times /\ quiet[u] \in 0 .. RetryTimeout + 1
         /\ dead_left[u] \in 0 .. DeadTimeout
  BY <1>9 DEF TypeOK
<1>11. /\ next_retry' = [u \in Servers |-> Nearer(next_retry[u])]
       /\ \A u \in Servers : Nearer(next_retry[u]) \in Times
  <2>1. Longest \in Nat
    BY DEF Longest
  <2>2. ASSUME NEW n \in -1 .. Longest PROVE Nearer(n) \in -1 .. Longest
    BY <2>1, <2>2 DEF Nearer
  <2>3. \A u \in Servers : Nearer(next_retry[u]) \in Times
    BY <1>10, <2>2 DEF Times
  <2> QED BY <2>3 DEF Tick
<1>12. /\ quiet' = [u \in Servers |-> Count(quiet[u], RetryTimeout + 1)]
       /\ \A u \in Servers : Count(quiet[u], RetryTimeout + 1) \in 0 .. RetryTimeout + 1
  BY <1>10 DEF Tick, Count
<1>13. /\ dead_left' \in [Servers -> 0 .. DeadTimeout]
       /\ \A u \in Servers : dead_left'[u] > 0 => dead_left'[u] = dead_left[u] - 1
       /\ \A u \in Servers : dead_left[u] = 0 => dead_left'[u] = 0
  BY <1>10 DEF Tick
<1>14. /\ rebuild' \in Times \union {NULL}
       /\ rebuild # NULL => rebuild' # NULL
  BY <1>9, SMTT(30) DEF Tick, TypeOK, Nearer, Times, Longest
<1>1. TypeOK'
  <2>1. next_retry' \in [Servers -> Times]
    BY <1>11
  <2>2. quiet' \in [Servers -> 0 .. RetryTimeout + 1]
    BY <1>12
  <2>3. UNCHANGED << fd, state, timeout_counter, failure_counter,
                     timeout_counted, failure_counted, continuum,
                     last_disconnected, connecting, ret, up, fails, raised >>
    BY DEF Tick
  <2> QED BY <1>9, <1>13, <1>14, <2>1, <2>2, <2>3 DEF TypeOK
<1>2. AttemptInv'
  <2>1. connecting # NULL => connecting.server \in Servers
    BY <1>9 DEF TypeOK
  <2>2. \A u \in Servers : quiet[u] > Pause => Count(quiet[u], RetryTimeout + 1) > Pause
    BY <1>10 DEF Pause, Count
  <2> QED BY <1>9, <1>12, <1>13, <2>1, <2>2 DEF AttemptInv, Tick, Pause
<1>3. RebuildScheduled'
  BY <1>9, <1>14 DEF RebuildScheduled, Tick
<1>4. CountInv' /\ DeadMeansFailed' /\ QueryInv'
  BY <1>9 DEF CountInv, DeadMeansFailed, QueryInv, Tick
<1>5. DeadInv'
  <2> SUFFICES ASSUME NEW u \in Servers, dead_left'[u] > 0
               PROVE  /\ AutoEject /\ ~fd'[u]
                      /\ dead_left'[u] <= next_retry'[u]
                      /\ Consistent => u \notin continuum'
    BY DEF DeadInv
  <2>1. dead_left[u] > 0 /\ dead_left'[u] = dead_left[u] - 1
    BY <1>10, <1>13
  <2>2. dead_left'[u] <= next_retry'[u]
    BY <1>9, <1>10, <1>11, <2>1 DEF DeadInv, Nearer, Times
  <2> QED BY <1>9, <2>1, <2>2 DEF DeadInv, Tick
<1>6. PauseInv'
  <2> SUFFICES ASSUME TimeoutLimit = 0, NEW u \in Servers, quiet'[u] <= Pause
               PROVE  /\ ~fd'[u] /\ state'[u] = "IN_TIMEOUT"
                      /\ Pause - quiet'[u] <= next_retry'[u]
    BY DEF PauseInv, Pause
  <2>1. quiet'[u] = quiet[u] + 1
    BY <1>10, <1>12 DEF Pause, Count
  <2>2. quiet[u] <= Pause
    BY <1>10, <2>1 DEF Pause
  <2>3. Pause - quiet'[u] <= next_retry'[u]
    BY <1>9, <1>10, <1>11, <2>1, <2>2 DEF PauseInv, Pause, Nearer, Times
  <2> QED BY <1>9, <2>2, <2>3 DEF PauseInv, Tick
<1> QED BY <1>1, <1>2, <1>3, <1>4, <1>5, <1>6 DEF IInv

(* What the servers do by themselves is not seen.                          *)
LEMMA StopOrStartStep ==
  ASSUME IInv, NEW s \in Servers, StopOrStart(s)
  PROVE  IInv'
<1> USE BackoffAssumption DEF IInv, StopOrStart, instance, distribution, history
<1>1. TypeOK'
  BY DEF TypeOK
<1>2. AttemptInv'
  BY DEF AttemptInv, Pause
<1>3. RebuildScheduled'
  BY DEF RebuildScheduled
<1>4. CountInv'
  BY DEF CountInv
<1>5. DeadInv'
  BY DEF DeadInv
<1>6. DeadMeansFailed'
  BY DEF DeadMeansFailed
<1>7. QueryInv'
  BY DEF QueryInv
<1>8. PauseInv'
  BY DEF PauseInv, Pause
<1> QED BY <1>1, <1>2, <1>3, <1>4, <1>5, <1>6, <1>7, <1>8

(* A request to s, through the distribution p.                             *)
LEMMA ConnectStep ==
  ASSUME IInv, NEW s \in Servers, NEW p, GoodPoints(p), connecting = NULL,
         memcached_connect(s, p)
  PROVE  IInv'
BY ConnectedStep, EjectStep, DisabledStep, AttemptStep DEF memcached_connect

LEMMA NextIInv == IInv /\ [Next]_vars => IInv'
<1> SUFFICES ASSUME IInv, [Next]_vars PROVE IInv'
  OBVIOUS
<1>1. ASSUME NEW s \in Servers, Keyed(s) PROVE IInv'
  BY <1>1, RegenGood, ConnectStep DEF Keyed
<1>2. ASSUME NEW s \in Servers, Broadcast(s) PROVE IInv'
  BY <1>2, PointsGood, ConnectStep DEF Broadcast
<1>3. CASE UNCHANGED vars
  BY <1>3 DEF vars, instance, distribution, history, IInv, TypeOK, AttemptInv,
     RebuildScheduled, CountInv, DeadInv, DeadMeansFailed, QueryInv, PauseInv,
     Pause
<1> QED
  BY <1>1, <1>2, <1>3, IoDeathStep, StopOrStartStep, ConnectSucceedsStep,
     ConnectFailsStep, QueryStep, QuitStep, TickStep DEF Next

(* IInv holds in every reachable state.                                    *)
THEOREM BackoffIInv == Spec => []IInv
<1>1. Init => IInv
  BY InitIInv
<1>2. IInv /\ [Next]_vars => IInv'
  BY NextIInv
<1> QED BY <1>1, <1>2, PTL DEF Spec
-----------------------------------------------------------------------------
(* Every variable keeps its type; the continuum is never empty.            *)
THEOREM BackoffTypeOK == Spec => []TypeOK
<1>1. IInv => TypeOK
  BY DEF IInv
<1> QED BY <1>1, BackoffIInv, PTL

(* A server without points always has a rebuild to wait for.               *)
THEOREM BackoffRebuildScheduled == Spec => []RebuildScheduled
<1>1. IInv => RebuildScheduled
  BY DEF IInv
<1> QED BY <1>1, BackoffIInv, PTL

(* An ejected server gets no keys while dead_timeout runs.                 *)
THEOREM BackoffEjectedGetsNoKeys == Spec => []EjectedGetsNoKeys
<1>1. IInv => EjectedGetsNoKeys
  <2> SUFFICES ASSUME IInv, NEW s \in Servers, Consistent, dead_left[s] > 0
               PROVE  s \notin dispatch_host(_regen_for_auto_eject)
    BY DEF EjectedGetsNoKeys
  <2>1. s \notin _regen_for_auto_eject.continuum
    BY RegenGood DEF GoodPoints
  <2> QED BY <2>1 DEF dispatch_host
<1> QED BY <1>1, BackoffIInv, PTL

(* A server is marked dead only after server_failure_limit failures.       *)
THEOREM BackoffDeadMeansFailed == Spec => []DeadMeansFailed
<1>1. IInv => DeadMeansFailed
  BY DEF IInv
<1> QED BY <1>1, BackoffIInv, PTL
-----------------------------------------------------------------------------
(* No step raises a counter of a server that has failed in this query.     *)
THEOREM BackoffOncePerQuery == Spec => OncePerQuery
<1> DEFINE Once == \A s \in Servers : raised[s] =>
                     /\ timeout_counter'[s] <= timeout_counter[s]
                     /\ failure_counter'[s] <= failure_counter[s]
<1>0. ASSUME IInv, UNCHANGED << timeout_counter, failure_counter >> PROVE Once
  BY <1>0, BackoffAssumption DEF IInv, TypeOK
<1>9. IInv => /\ timeout_counter \in [Servers -> 0 .. TimeoutLimit]
             /\ failure_counter \in [Servers -> 0 .. FailureLimit]
             /\ TimeoutLimit \in Nat /\ FailureLimit \in Nat
  BY BackoffAssumption DEF IInv, TypeOK
<1>1. ASSUME IInv, NEW s \in Servers, NEW p, memcached_connect(s, p) PROVE Once
  <2>1. CASE Connected(s, p)
    BY <1>0, <1>1, <2>1 DEF Connected, instance
  <2>2. CASE Eject(s, p)
    <3>1. /\ timeout_counter' = timeout_counter
          /\ failure_counter' =
               [failure_counter EXCEPT ![s] =
                  IF DeadTimeout > 0 THEN FailureLimit - 1
                                     ELSE failure_counter[s]]
          /\ failure_counter[s] >= FailureLimit
      BY <2>2 DEF Eject, OverLimit
    <3> QED BY <1>1, <1>9, <3>1
  <2>3. CASE Disabled(s, p)
    BY <1>0, <1>1, <2>3 DEF Disabled
  <2>4. CASE Attempt(s, p)
    <3>1. /\ failure_counter' = failure_counter
          /\ \/ timeout_counter' = timeout_counter
             \/ timeout_counter' = [timeout_counter EXCEPT ![s] = 0]
      BY <2>4 DEF Attempt
    <3> QED BY <1>1, <1>9, <3>1
  <2> QED BY <1>1, <2>1, <2>2, <2>3, <2>4 DEF memcached_connect
<1>2. ASSUME IInv, NEW s \in Servers, NEW st \in States,
             memcached_mark_server_for_timeout(s, st)
      PROVE  Once
  <2> SUFFICES ASSUME NEW u \in Servers, raised[u]
               PROVE  /\ timeout_counter'[u] <= timeout_counter[u]
                      /\ failure_counter'[u] <= failure_counter[u]
    OBVIOUS
  <2>1. TypeOK /\ QueryInv
    BY <1>2 DEF IInv
  <2>2. /\ timeout_counter[u] \in Int /\ failure_counter[u] \in Int
    BY <2>1, BackoffAssumption DEF TypeOK
  <2>3. CASE u # s
    <3>1. /\ timeout_counter'[u] = timeout_counter[u]
          /\ failure_counter'[u] = failure_counter[u]
      BY <1>2, <2>1, <2>3, MarkEffect
    <3> QED BY <2>2, <3>1
  <2>4. CASE u = s
    <3>1. timeout_counted[s] /\ (failure_counted[s] \/ timeout_counter[s] < TimeoutLimit)
      BY <2>1, <2>4 DEF QueryInv
    <3>2. timeout_counter'[s] = timeout_counter[s]
      BY <1>2, <2>1, <3>1, MarkEffect
    <3>3. failure_counter'[s] = failure_counter[s]
      BY <1>2, <2>1, <2>2, <2>4, <3>1, <3>2, MarkEffect, BackoffAssumption, SMTT(30)
    <3> QED BY <2>2, <2>4, <3>2, <3>3
  <2> QED BY <2>3, <2>4
<1>3. ASSUME IInv, ConnectSucceeds PROVE Once
  <2>1. PICK s \in Servers :
          /\ timeout_counter' = [timeout_counter EXCEPT ![s] = 0]
          /\ failure_counter' = [failure_counter EXCEPT ![s] = 0]
    BY <1>3, Zenon DEF ConnectSucceeds, IInv, TypeOK
  <2> QED BY <1>3, <1>9, <2>1
<1>4. ASSUME IInv, ConnectFails PROVE Once
  <2>1. PICK s \in Servers : connecting # NULL /\ s = connecting.server
    BY <1>4 DEF ConnectFails, IInv, TypeOK
  <2>2. \E st \in States : memcached_mark_server_for_timeout(s, st)
    BY <1>4, <2>1 DEF ConnectFails, IInv, TypeOK, States
  <2> QED BY <1>2, <1>4, <2>2
<1>5. ASSUME IInv, NEW s \in Servers, IoDeath(s) PROVE Once
  <2>1. CASE UseUdp
    BY <1>2, <1>5, <2>1 DEF IoDeath, States
  <2>2. CASE ~UseUdp
    BY <1>0, <1>5, <2>2 DEF IoDeath
  <2> QED BY <2>1, <2>2
<1>6. ASSUME IInv, memcached_quit PROVE Once
  BY <1>6, BackoffAssumption, SMTT(30) DEF memcached_quit, IInv, TypeOK
<1>7. ASSUME IInv, [Next]_vars PROVE Once
  <2>1. ASSUME NEW s \in Servers, Keyed(s) \/ Broadcast(s) PROVE Once
    BY <1>1, <1>7, <2>1 DEF Keyed, Broadcast
  <2>2. ASSUME NEW s \in Servers, StopOrStart(s) PROVE Once
    BY <1>0, <1>7, <2>2 DEF StopOrStart, instance
  <2>3. CASE Query \/ Tick
    BY <1>0, <1>7, <2>3 DEF Query, Tick
  <2>4. CASE UNCHANGED vars
    BY <1>0, <1>7, <2>4 DEF vars, instance
  <2> HIDE DEF Once
  <2> QED
    BY <1>3, <1>4, <1>5, <1>6, <1>7, <2>1, <2>2, <2>3, <2>4 DEF Next
<1>8. IInv /\ [Next]_vars => [Once]_vars
  BY <1>7
<1> QED BY <1>8, BackoffIInv, PTL DEF Spec, OncePerQuery

(* With the default server_timeout_limit no attempt starts in the pause    *)
(* after a failure.                                                        *)
THEOREM BackoffBacksOff == Spec => BacksOff
<1> DEFINE Late == TimeoutLimit = 0 =>
                     \A s \in Servers : Starts(s) => quiet[s] > Pause
<1>1. ASSUME IInv, NEW s \in Servers, NEW p, memcached_connect(s, p),
             connecting = NULL
      PROVE  Late
  <2>1. CASE Attempt(s, p)
    <3>0. next_retry[s] \in Int /\ quiet[s] \in Int /\ Pause \in Int
      BY <1>1, BackoffAssumption DEF IInv, TypeOK, Times, Longest, Pause
    <3>1. TimeoutLimit = 0 => quiet[s] > Pause
      <4> SUFFICES ASSUME TimeoutLimit = 0, quiet[s] <= Pause PROVE FALSE
        BY <3>0
      <4>1. state[s] = "IN_TIMEOUT" /\ Pause - quiet[s] <= next_retry[s]
        BY <1>1 DEF IInv, PauseInv
      <4>2. next_retry[s] < 0
        BY <2>1, <4>1 DEF Attempt, InTimeout
      <4> HIDE DEF Pause
      <4> QED BY <3>0, <4>1, <4>2
    <3>2. \A u \in Servers : Starts(u) => u = s
      BY <2>1 DEF Attempt, Starts
    <3> QED BY <3>1, <3>2
  <2>2. CASE connecting' = connecting
    BY <1>1, <2>2 DEF Starts
  <2> QED
    BY <1>1, <2>1, <2>2 DEF memcached_connect, Connected, Eject, Disabled
<1>2. ASSUME connecting' = connecting \/ connecting' = NULL PROVE Late
  BY <1>2 DEF Starts
<1>3. ASSUME IInv, [Next]_vars PROVE Late
  <2>1. ASSUME NEW s \in Servers, Keyed(s) \/ Broadcast(s) PROVE Late
    BY <1>1, <1>3, <2>1 DEF Keyed, Broadcast
  <2>2. ASSUME \/ \E s \in Servers : StopOrStart(s) \/ IoDeath(s)
               \/ ConnectSucceeds \/ ConnectFails \/ Query \/ memcached_quit
               \/ Tick \/ UNCHANGED vars
        PROVE  connecting' = connecting \/ connecting' = NULL
    BY <2>2 DEF StopOrStart, IoDeath, ConnectSucceeds, ConnectFails, Query,
       memcached_quit, Tick, vars
  <2> HIDE DEF Late
  <2> QED BY <1>2, <1>3, <2>1, <2>2 DEF Next
<1>4. IInv /\ [Next]_vars => [Late]_vars
  BY <1>3
<1> QED BY <1>4, BackoffIInv, PTL DEF Spec, BacksOff
=============================================================================
