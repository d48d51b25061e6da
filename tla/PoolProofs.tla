----------------------------- MODULE PoolProofs -----------------------------
(***************************************************************************)
(* Proofs about Pool, for any number of threads and any size.              *)
(*                                                                         *)
(* IInv is the inductive invariant.  To the invariants of Pool it adds     *)
(* what makes them inductive: the connection being released is still       *)
(* counted as handed out, the loop of behavior_set stays within the stack, *)
(* and no thread is inside a pool that has been destroyed.  PoolTimed      *)
(* implements Pool; TimedInv says how its deadlines follow from the clock. *)
(* From IInv follow that idle connections carry the master's behaviours,   *)
(* by ConfInv, and that the pool implements ResourcePool.                  *)
(***************************************************************************)
EXTENDS PoolTimed, FiniteSetTheorems, TLAPS

CallsConsistent ==
  /\ \A t \in Threads : pc[t] = "release" => released[t] \in out
  /\ \A t \in Threads : pc[t] = "behavior_set" =>
       setting.flag \in Flags /\ setting.xx <= firstfree + 1
  /\ life # "up" => \A t \in Threads : pc[t] = "idle"

IInv ==
  /\ TypeOK /\ NoSharing /\ Accounting /\ NoLostWakeup /\ MutexHeldInside
  /\ CallsConsistent
-----------------------------------------------------------------------------
\* The connections in use are finitely many, and handing one out or taking
\* one back changes their number by one.
LEMMA OutCardinality ==
  ASSUME NEW S \in SUBSET Conns
  PROVE  /\ Cardinality(S) \in Nat
         /\ \A c \in Conns \ S : Cardinality(S \cup {c}) = Cardinality(S) + 1
         /\ \A c \in S : Cardinality(S \ {c}) = Cardinality(S) - 1
<1>1. IsFiniteSet(S)
  BY PoolAssumption, FS_Subset
<1>2. Cardinality(S) \in Nat
  BY <1>1, FS_CardinalityType
<1>3. \A c \in Conns \ S : Cardinality(S \cup {c}) = Cardinality(S) + 1
  BY <1>1, FS_AddElement
<1>4. \A c \in S : Cardinality(S \ {c}) = Cardinality(S) - 1
  BY <1>1, FS_RemoveElement
<1> QED
  BY <1>2, <1>3, <1>4

\* The pool starts with its clones on the stack and nothing handed out.
LEMMA InitIInv == Init => IInv
<1> SUFFICES ASSUME Init PROVE IInv
  OBVIOUS
<1> USE PoolAssumption
<1>0. PICK n \in 0 .. Initial : \E stack \in [0 .. n - 1 -> Conns] :
        /\ \A i, j \in 0 .. n - 1 : stack[i] = stack[j] => i = j
        /\ server_pool = [i \in 0 .. Size - 1 |->
                            IF i < n THEN stack[i] ELSE NULL]
        /\ firstfree = n - 1
        /\ current_size = n
  BY Zenon DEF Init
<1>1. PICK stack \in [0 .. n - 1 -> Conns] :
        /\ \A i, j \in 0 .. n - 1 : stack[i] = stack[j] => i = j
        /\ server_pool = [i \in 0 .. Size - 1 |->
                            IF i < n THEN stack[i] ELSE NULL]
        /\ firstfree = n - 1
        /\ current_size = n
  BY <1>0
<1>2. /\ mutex = NULL
      /\ pc = [t \in Threads |-> "idle"]
      /\ timed = [t \in Threads |-> FALSE]
      /\ released = [t \in Threads |-> NULL]
      /\ out = {}
      /\ master = [version |-> -1, behavior |-> [f \in Flags |-> 0]]
      /\ conn = [c \in Conns |-> master]
      /\ setting = NoSetting
      /\ ret = [t \in Threads |-> None]
      /\ life = "up"
  BY DEF Init
<1>3. Cardinality(out) = 0
  BY <1>2, FS_EmptySet
<1>4. server_pool \in [0 .. Size - 1 -> Conns \cup {NULL}]
  BY <1>1
<1>5. TypeOK
  BY <1>1, <1>2, <1>4 DEF TypeOK, Config, Locations, NoSetting, None
<1>6. NoSharing
  BY <1>1, <1>2 DEF NoSharing
<1>7. Accounting /\ NoLostWakeup /\ MutexHeldInside /\ CallsConsistent
  BY <1>1, <1>2, <1>3
  DEF Accounting, NoLostWakeup, MutexHeldInside, CallsConsistent
<1> QED
  BY <1>5, <1>6, <1>7 DEF IInv
-----------------------------------------------------------------------------
\* Entering a method touches nothing but the mutex and the caller.
LEMMA EnterStep ==
  ASSUME IInv, NEW t \in Threads,
         FetchLock(t) \/ FetchLockFails(t) \/ ReleaseLock(t)
         \/ \E f \in Flags, v \in Data : BehaviorSetMaster(t, f, v)
  PROVE  IInv'
<1> USE PoolAssumption DEF IInv, Enter, Goto, Lock, threadVars, poolVars
<1>1. CASE FetchLock(t)
  <2>1. TypeOK'
    BY <1>1 DEF TypeOK, FetchLock, Locations, None
  <2>2. NoSharing' /\ Accounting' /\ CallsConsistent'
    BY <1>1 DEF FetchLock, TypeOK, NoSharing, Accounting, CallsConsistent
  <2>3. NoLostWakeup' /\ MutexHeldInside'
    BY <1>1 DEF FetchLock, TypeOK, NoLostWakeup, MutexHeldInside
  <2> QED
    BY <2>1, <2>2, <2>3
<1>2. CASE FetchLockFails(t)
  <2>1. TypeOK'
    BY <1>2 DEF TypeOK, FetchLockFails, Return, ReturnCode
  <2>2. NoSharing' /\ Accounting' /\ CallsConsistent'
    BY <1>2 DEF FetchLockFails, NoSharing, Accounting, CallsConsistent
  <2>3. NoLostWakeup' /\ MutexHeldInside'
    BY <1>2 DEF FetchLockFails, NoLostWakeup, MutexHeldInside
  <2> QED
    BY <2>1, <2>2, <2>3
<1>3. CASE ReleaseLock(t)
  <2>1. TypeOK'
    BY <1>3 DEF TypeOK, ReleaseLock, Locations, None
  <2>2. NoSharing' /\ Accounting' /\ CallsConsistent'
    BY <1>3 DEF ReleaseLock, TypeOK, NoSharing, Accounting, CallsConsistent,
                MutexHeldInside
  <2>3. NoLostWakeup' /\ MutexHeldInside'
    BY <1>3 DEF ReleaseLock, TypeOK, NoLostWakeup, MutexHeldInside
  <2> QED
    BY <2>1, <2>2, <2>3
<1>4. ASSUME NEW f \in Flags, NEW v \in Data, BehaviorSetMaster(t, f, v)
      PROVE  IInv'
  <2> USE <1>4 DEF BehaviorSetMaster
  <2>1. TypeOK'
    <3>1. master' \in Config
      BY DEF TypeOK, Config
    <3>2. setting' \in [flag : Flags \cup {NULL}, data : Data, xx : 0 .. Size]
      OBVIOUS
    <3> QED
      BY <3>1, <3>2 DEF TypeOK, Locations, None
  <2>2. NoSharing' /\ Accounting' /\ CallsConsistent'
    BY DEF TypeOK, NoSharing, Accounting, CallsConsistent, MutexHeldInside
  <2>3. NoLostWakeup' /\ MutexHeldInside'
    BY DEF TypeOK, NoLostWakeup, MutexHeldInside
  <2> QED
    BY <2>1, <2>2, <2>3
<1> QED
  BY <1>1, <1>2, <1>3, <1>4
-----------------------------------------------------------------------------
\* fetch takes the top of the stack: it leaves the stack and is handed out.
LEMMA PopStep ==
  ASSUME IInv, NEW t \in Threads, FetchPop(t)
  PROVE  IInv'
<1> USE PoolAssumption DEF IInv, Leave, Unlock, Goto, threadVars, FetchPop
<1> DEFINE c == server_pool[firstfree]
<1>1. firstfree \in 0 .. Size - 1 /\ firstfree' = firstfree - 1
  BY DEF TypeOK
<1>2. c \in Conns \ out
  BY <1>1 DEF NoSharing
<1>3. TypeOK'
  BY <1>1, <1>2 DEF TypeOK, Locations, Return, ReturnCode
<1>4. NoSharing'
  <2>1. \A i \in 0 .. firstfree' : i \in 0 .. firstfree /\ i # firstfree
    BY <1>1
  <2>2. \A i \in 0 .. firstfree' : server_pool[i] # c
    BY <1>1, <2>1 DEF NoSharing
  <2> QED
    BY <2>1, <2>2 DEF NoSharing
<1>5. Accounting'
  <2>1. Cardinality(out \cup {c}) = Cardinality(out) + 1 /\ Cardinality(out) \in Nat
    BY <1>2, OutCardinality DEF TypeOK
  <2> QED
    BY <1>1, <2>1 DEF Accounting, TypeOK
<1>6. NoLostWakeup' /\ MutexHeldInside' /\ CallsConsistent'
  BY <1>1 DEF TypeOK, NoLostWakeup, MutexHeldInside, CallsConsistent
<1> QED
  BY <1>3, <1>4, <1>5, <1>6

\* fetch grows the stack: the clone is new, and there is room for it.
LEMMA GrowStep ==
  ASSUME IInv, NEW t \in Threads, FetchGrow(t)
  PROVE  IInv'
<1> USE PoolAssumption DEF IInv, threadVars, FetchGrow
<1>1. PICK c \in Conns : grow_pool(c)
  OBVIOUS
<1>2. /\ firstfree = -1 /\ firstfree' = 0
      /\ server_pool' = [server_pool EXCEPT ![0] = c]
      /\ conn' = [conn EXCEPT ![c] = master]
      /\ current_size' = current_size + 1
      /\ current_size \in 0 .. Size - 1
      /\ c \in Conns \ out
  <2>1. firstfree = -1 /\ firstfree + 1 = 0
    OBVIOUS
  <2>2. current_size \in 0 .. Size - 1
    BY DEF TypeOK
  <2> QED
    BY <1>1, <2>1, <2>2, Zenon DEF grow_pool, Fresh, Clone
<1>3. 0 \in 0 .. Size - 1
  BY <1>2
<1>4. TypeOK'
  BY <1>2, <1>3 DEF TypeOK
<1>5. NoSharing'
  BY <1>2, <1>3 DEF NoSharing, TypeOK
<1>6. Accounting'
  <2>1. Cardinality(out) \in Nat
    BY OutCardinality DEF TypeOK
  <2>2. UNCHANGED <<life, out>>
    OBVIOUS
  <2> QED
    BY <1>2, <2>1, <2>2 DEF Accounting
<1>7. NoLostWakeup'
  BY <1>2 DEF NoLostWakeup
<1>8. MutexHeldInside' /\ CallsConsistent'
  BY <1>2 DEF MutexHeldInside, CallsConsistent
<1> QED
  BY <1>4, <1>5, <1>6, <1>7, <1>8

\* The other steps of fetch move the caller and leave the stack alone.  Only
\* FetchWait puts a thread to sleep, and it has just seen an exhausted pool.
LEMMA OtherFetchStep ==
  ASSUME IInv, NEW t \in Threads,
         FetchNotFound(t) \/ FetchWait(t) \/ FetchSleepEnds(t)
         \/ FetchReacquire(t) \/ FetchExpired(t) \/ FetchGrowFails(t)
  PROVE  IInv'
<1> USE PoolAssumption
    DEF IInv, Leave, Lock, Unlock, Goto, threadVars, poolVars, FetchNotFound,
        FetchWait, FetchSleepEnds, FetchReacquire, FetchExpired,
        FetchGrowFails
<1>1. TypeOK'
  <2>0. \/ ret' = ret
        \/ \E rc \in ReturnCode :
             ret' = [ret EXCEPT ![t] = [memc |-> NULL, rc |-> rc]]
    BY Zenon DEF Return, ReturnCode
  <2>1. ret' \in [Threads -> [memc : Conns \cup {NULL},
                              rc : ReturnCode \cup {"NONE"}]]
    <3>1. ret \in [Threads -> [memc : Conns \cup {NULL},
                              rc : ReturnCode \cup {"NONE"}]]
      BY DEF TypeOK
    <3> HIDE DEF IInv, FetchNotFound, FetchWait, FetchSleepEnds,
                 FetchReacquire, FetchExpired, FetchGrowFails
    <3> QED
      BY <2>0, <3>1
  <2>2. \E l \in Locations : pc' = [pc EXCEPT ![t] = l]
    BY DEF Locations
  <2>3. pc' \in [Threads -> Locations]
    BY <2>2 DEF TypeOK
  <2>4. mutex' \in Threads \cup {NULL}
    BY DEF TypeOK
  <2> QED
    BY <2>1, <2>3, <2>4 DEF TypeOK
<1>2. NoSharing' /\ Accounting'
  BY DEF NoSharing, Accounting
<1>3. PICK l \in Locations \ {"release", "behavior_set"} :
        /\ pc' = [pc EXCEPT ![t] = l]
        /\ mutex' = IF l = "fetch" THEN t
                    ELSE IF mutex = t THEN NULL ELSE mutex
  BY DEF Locations, MutexHeldInside
<1>4. NoLostWakeup'
  BY <1>3 DEF TypeOK, NoLostWakeup
<1>5. MutexHeldInside'
  <2>1. l = "fetch" => mutex = NULL \/ mutex = t
    BY <1>3, Zenon
  <2>2. pc \in [Threads -> Locations] /\ MutexHeldInside
    BY DEF TypeOK
  <2> HIDE DEF IInv, FetchNotFound, FetchWait, FetchSleepEnds,
               FetchReacquire, FetchExpired, FetchGrowFails
  <2> QED
    BY <1>3, <2>1, <2>2 DEF MutexHeldInside
<1>6. CallsConsistent'
  BY <1>3 DEF TypeOK, CallsConsistent
<1> QED
  BY <1>1, <1>2, <1>4, <1>5, <1>6
-----------------------------------------------------------------------------
\* release pushes the connection, or a clone that replaces it.  There is
\* room because the connection was counted, and the broadcast wakes whoever
\* sleeps because a sleeper implies an empty stack and a full pool.
LEMMA ReleaseStep ==
  ASSUME IInv, NEW t \in Threads, Release(t)
  PROVE  IInv'
<1> USE PoolAssumption DEF IInv, Release, LeaveWaking, Unlock
<1> DEFINE r == released[t]
<1>1. r \in out /\ r \in Conns /\ life = "up"
  BY DEF CallsConsistent, TypeOK
<1>2. PICK d \in Conns :
        /\ Replacement(r, d)
        /\ server_pool' = [server_pool EXCEPT ![firstfree + 1] = d]
  OBVIOUS
<1>3. d = r \/ d \in Fresh
  BY <1>2 DEF Replacement
<1>4. /\ Cardinality(out \ {r}) = Cardinality(out) - 1
      /\ Cardinality(out \ {r}) \in Nat /\ Cardinality(out) \in Nat
  BY <1>1, OutCardinality DEF TypeOK
<1>5. firstfree + 1 \in 0 .. Size - 1
  BY <1>1, <1>4 DEF Accounting, TypeOK
<1>6. conn' \in [Conns -> Config]
  BY <1>2 DEF Replacement, Clone, TypeOK
<1>7. pc' \in [Threads -> Locations]
  BY DEF TypeOK, Locations
<1>8. TypeOK'
  BY <1>2, <1>5, <1>6, <1>7 DEF TypeOK
<1>9. NoSharing'
  <2>1. \A i \in 0 .. firstfree : server_pool[i] # d
    BY <1>1, <1>3 DEF NoSharing, Fresh, Idle
  <2>2. d \notin out'
    BY <1>3 DEF Fresh
  <2>3. \A i \in 0 .. firstfree' : i = firstfree + 1 \/ i \in 0 .. firstfree
    BY <1>5 DEF TypeOK
  <2>4. \A i \in 0 .. firstfree : server_pool'[i] = server_pool[i]
    BY <1>2, <1>5 DEF TypeOK
  <2>5. server_pool'[firstfree + 1] = d
    BY <1>2, <1>5 DEF TypeOK
  <2> QED
    BY <2>1, <2>2, <2>3, <2>4, <2>5 DEF NoSharing
<1>10. Accounting'
  BY <1>1, <1>4 DEF Accounting, TypeOK
<1>11. NoLostWakeup'
  <2> SUFFICES ASSUME NEW s \in Threads, pc'[s] = "wait" PROVE FALSE
    BY DEF NoLostWakeup
  <2>1. pc[s] = "wait" /\ ~WakeWaiters
    OBVIOUS
  <2>2. firstfree = -1 /\ current_size = Size
    BY <2>1 DEF NoLostWakeup
  <2> HIDE DEF Release, LeaveWaking
  <2> QED
    BY <2>1, <2>2 DEF WakeWaiters
<1>12. MutexHeldInside'
  BY DEF MutexHeldInside
<1>13. CallsConsistent'
  BY <1>1 DEF CallsConsistent, MutexHeldInside
<1> QED
  BY <1>8, <1>9, <1>10, <1>11, <1>12, <1>13
-----------------------------------------------------------------------------
\* One iteration of behavior_set writes one slot of the stack or one object
\* lying in it, and never leaves the stack.
LEMMA BehaviorSetNextStep ==
  ASSUME IInv, NEW t \in Threads, BehaviorSetNext(t)
  PROVE  IInv'
<1> USE PoolAssumption DEF IInv, BehaviorSetNext, LastIdle, threadVars
<1> DEFINE x == setting.xx
<1>1. /\ setting.flag \in Flags /\ setting.data \in Data
      /\ x \in 0 .. firstfree /\ x \in 0 .. Size - 1 /\ x + 1 \in 0 .. Size
      /\ server_pool[x] \in Conns
  BY DEF CallsConsistent, TypeOK, NoSharing
<1>2. setting' \in [flag : Flags \cup {NULL}, data : Data, xx : 0 .. Size]
  BY <1>1, Zenon DEF TypeOK
<1>3. CASE SetBehavior(server_pool[x]) /\ UNCHANGED server_pool
  <2>1. conn' \in [Conns -> Config]
    BY <1>1, <1>3 DEF SetBehavior, TypeOK, Config
  <2>2. TypeOK'
    BY <1>2, <1>3, <2>1 DEF TypeOK
  <2>3. NoSharing'
    BY <1>3 DEF NoSharing
  <2> QED
    BY <1>1, <2>2, <2>3 DEF Accounting, NoLostWakeup, MutexHeldInside,
                            CallsConsistent, TypeOK
<1>4. CASE \E d \in Fresh :
             /\ Clone(d)
             /\ server_pool' = [server_pool EXCEPT ![x] = d]
  <2>1. PICK d \in Fresh :
          /\ Clone(d)
          /\ server_pool' = [server_pool EXCEPT ![x] = d]
    BY <1>4, Zenon
  <2>2. d \in Conns \ out /\ \A i \in 0 .. firstfree : server_pool[i] # d
    BY DEF Fresh, Idle
  <2>3. TypeOK'
    BY <1>1, <1>2, <2>1, <2>2 DEF TypeOK, Clone
  <2>4. NoSharing'
    BY <1>1, <2>1, <2>2, SMTT(30) DEF NoSharing, TypeOK
  <2> QED
    BY <1>1, <2>3, <2>4 DEF Accounting, NoLostWakeup, MutexHeldInside,
                            CallsConsistent, TypeOK
<1>5. CASE UNCHANGED <<conn, server_pool>>
  <2>1. TypeOK'
    BY <1>2, <1>5 DEF TypeOK
  <2>2. NoSharing'
    BY <1>5 DEF NoSharing
  <2> QED
    BY <1>1, <2>1, <2>2 DEF Accounting, NoLostWakeup, MutexHeldInside,
                            CallsConsistent, TypeOK
<1> QED
  BY <1>3, <1>4, <1>5

LEMMA LeaveStep ==
  ASSUME IInv,
         (\E t \in Threads : BehaviorSetDone(t)) \/ Destroy
         \/ UNCHANGED vars
  PROVE  IInv'
<1> USE PoolAssumption DEF IInv, threadVars, poolVars
<1>1. ASSUME NEW t \in Threads, BehaviorSetDone(t) PROVE IInv'
  <2> USE <1>1 DEF BehaviorSetDone, LastIdle, Leave, Unlock, Goto
  <2>0. pc' \in [Threads -> Locations]
    BY DEF TypeOK, Locations
  <2>1. TypeOK'
    <3>1. setting' \in [flag : Flags \cup {NULL}, data : Data, xx : 0 .. Size]
      BY DEF NoSetting
    <3> QED
      BY <2>0, <3>1 DEF TypeOK
  <2>2. NoSharing' /\ Accounting'
    BY Zenon DEF NoSharing, Accounting
  <2>3. NoLostWakeup' /\ MutexHeldInside' /\ CallsConsistent'
    BY DEF TypeOK, NoLostWakeup, MutexHeldInside, CallsConsistent
  <2> QED
    BY <2>1, <2>2, <2>3
<1>2. CASE Destroy
  <2> USE <1>2 DEF Destroy
  <2>1. TypeOK'
    BY DEF TypeOK
  <2>2. NoSharing' /\ Accounting'
    <3>1. firstfree' = -1 /\ life' # "up" /\ 0 .. -1 = {}
      OBVIOUS
    <3> QED
      BY <3>1, Zenon DEF NoSharing, Accounting
  <2>3. NoLostWakeup' /\ MutexHeldInside' /\ CallsConsistent'
    BY DEF TypeOK, NoLostWakeup, MutexHeldInside, CallsConsistent
  <2> QED
    BY <2>1, <2>2, <2>3
<1>3. CASE UNCHANGED vars
  BY <1>3 DEF vars, TypeOK, NoSharing, Accounting, NoLostWakeup,
              MutexHeldInside, CallsConsistent
<1> QED
  BY <1>1, <1>2, <1>3

\* IInv is an invariant of the pool.
THEOREM PoolIInv == Spec => []IInv
<1>1. Init => IInv
  BY InitIInv
<1>2. IInv /\ [Next]_vars => IInv'
  <2> SUFFICES ASSUME IInv, [Next]_vars PROVE IInv'
    OBVIOUS
  <2>1. ASSUME NEW t \in Threads, Fetch(t) PROVE IInv'
    BY <2>1, EnterStep, PopStep, GrowStep, OtherFetchStep DEF Fetch
  <2>2. ASSUME NEW t \in Threads, ReleaseLock(t) \/ Release(t) PROVE IInv'
    BY <2>2, EnterStep, ReleaseStep
  <2>3. ASSUME NEW t \in Threads, BehaviorSet(t) PROVE IInv'
    BY <2>3, EnterStep, BehaviorSetNextStep, LeaveStep DEF BehaviorSet
  <2>4. CASE Destroy \/ Destroyed \/ UNCHANGED vars
    BY <2>4, LeaveStep DEF Destroyed
  <2> QED
    BY <2>1, <2>2, <2>3, <2>4 DEF Next
<1> QED
  BY <1>1, <1>2, PTL DEF Spec

\* A connection is never on the stack twice, nor on the stack and in use.
THEOREM PoolNoSharing == Spec => []NoSharing
BY PoolIInv, PTL DEF IInv

\* Every connection created is on the stack or in use, so a pool of max
\* size connections never overflows its array.
THEOREM PoolAccounting == Spec => []Accounting
BY PoolIInv, PTL DEF IInv

\* No thread sleeps while a connection is free or could be created.
THEOREM PoolNoLostWakeup == Spec => []NoLostWakeup
BY PoolIInv, PTL DEF IInv

\* The mutex is held by the thread inside a method, and by nobody else.
THEOREM PoolMutex == Spec => []MutexHeldInside
BY PoolIInv, PTL DEF IInv
-----------------------------------------------------------------------------
\* behavior_set never writes a connection that is in use.
THEOREM PoolUsedConnsUntouched == Spec => UsedConnsUntouched
<1> DEFINE A == \A c \in out : c \in out' => conn'[c] = conn[c]
<1>1. IInv /\ [Next]_vars => [A]_vars
  <2> SUFFICES ASSUME IInv, Next PROVE A
    BY DEF vars
  <2> USE DEF IInv, TypeOK
  <2>1. ASSUME NEW t \in Threads, Fetch(t) PROVE A
    BY <2>1, Zenon DEF Fetch, FetchLock, FetchLockFails, FetchPop, FetchNotFound,
                FetchWait, FetchSleepEnds, FetchReacquire, FetchExpired,
                FetchGrow, FetchGrowFails, grow_pool, Clone, Fresh
  <2>2. ASSUME NEW t \in Threads, ReleaseLock(t) \/ Release(t) PROVE A
    BY <2>2 DEF ReleaseLock, Release, Replacement, Clone, Fresh
  <2>3. ASSUME NEW t \in Threads, BehaviorSetNext(t) PROVE A
    <3>1. server_pool[setting.xx] \notin out
      BY <2>3 DEF BehaviorSetNext, LastIdle, NoSharing
    <3> QED
      BY <2>3, <3>1 DEF BehaviorSetNext, LastIdle, SetBehavior, Clone, Fresh
  <2>4. ASSUME NEW t \in Threads, BehaviorSet(t), ~BehaviorSetNext(t) PROVE A
    BY <2>4, Zenon DEF BehaviorSet, BehaviorSetMaster, BehaviorSetDone
  <2>5. CASE Destroy \/ Destroyed
    BY <2>5 DEF Destroy, Destroyed, vars
  <2> QED
    BY <2>1, <2>2, <2>3, <2>4, <2>5 DEF Next
<1> QED
  BY <1>1, PoolIInv, PTL DEF Spec, UsedConnsUntouched
-----------------------------------------------------------------------------
\* fetch answers NOTFOUND only when all size connections are in use.
THEOREM PoolNotFound == Spec => NotFoundMeansAllOut
<1> DEFINE A == \A t \in Threads :
                  ret'[t] # ret[t] /\ ret'[t].rc = "NOTFOUND"
                    => Cardinality(out) = Size
<1>1. IInv /\ [Next]_vars => [A]_vars
  <2> SUFFICES ASSUME IInv, Next, NEW t \in Threads,
                      ret'[t] # ret[t], ret'[t].rc = "NOTFOUND"
               PROVE  Cardinality(out) = Size
    BY DEF vars
  <2>1. ASSUME NEW s \in Threads, Fetch(s), ~FetchNotFound(s) PROVE FALSE
    <3>1. \/ UNCHANGED ret
          \/ \E m : \E rc \in {"NONE", "SUCCESS", "IN_PROGRESS", "TIMEOUT",
                               "ERRNO"} :
               ret' = [ret EXCEPT ![s] = [memc |-> m, rc |-> rc]]
      BY <2>1, Zenon DEF Fetch, FetchLock, FetchLockFails, FetchPop, FetchWait,
                  FetchSleepEnds, FetchReacquire, FetchExpired, FetchGrow,
                  FetchGrowFails, Enter, Return, None
    <3>2. ret \in [Threads -> [memc : Conns \cup {NULL},
                              rc : ReturnCode \cup {"NONE"}]]
      BY Zenon DEF IInv, TypeOK
    <3> QED
      BY <3>1, <3>2
  <2>2. ASSUME NEW s \in Threads, FetchNotFound(s)
        PROVE  Cardinality(out) = Size
    <3>1. firstfree = -1 /\ current_size = Size /\ life = "up"
      BY <2>2 DEF FetchNotFound, IInv, CallsConsistent
    <3>2. out \in SUBSET Conns /\ Accounting
      BY DEF IInv, TypeOK
    <3>3. Cardinality(out) \in Nat
      BY <3>2, OutCardinality
    <3>4. current_size = Cardinality(out) + firstfree + 1
      BY <3>1, <3>2, Zenon DEF Accounting
    <3> QED
      BY <3>1, <3>3, <3>4
  <2>3. ASSUME NEW s \in Threads,
               ReleaseLock(s) \/ Release(s) \/ BehaviorSet(s)
        PROVE  FALSE
    BY <2>3 DEF ReleaseLock, Release, BehaviorSet, BehaviorSetMaster,
                BehaviorSetNext, BehaviorSetDone, Enter, None, IInv, TypeOK
  <2>4. CASE Destroy \/ Destroyed
    BY <2>4 DEF Destroy, Destroyed, vars
  <2> QED
    BY <2>1, <2>2, <2>3, <2>4, Zenon DEF Next
<1> QED
  BY <1>1, PoolIInv, PTL DEF Spec, NotFoundMeansAllOut
-----------------------------------------------------------------------------
\* What EarlyByLessThanASecond needs: a deadline counts from the start of
\* the second in which the fetch went to sleep, or of a later one.
TimedInv ==
  /\ now \in Nat
  /\ blocked \in [Threads -> Int] /\ deadline \in [Threads -> Int]
  /\ \A t \in Threads :
       /\ blocked[t] <= now
       /\ pc[t] = "wait" =>
            deadline[t] + TicksPerSecond > blocked[t] + RelativeTime
  /\ EarlyByLessThanASecond

\* time(NULL) is less than a second behind the clock.
LEMMA WholeSecondsBehind ==
  ASSUME NEW n \in Nat
  PROVE  /\ WholeSeconds(n) \in Int
         /\ n < WholeSeconds(n) + TicksPerSecond
BY TimeAssumption DEF WholeSeconds

\* The other steps of a thread put no thread to sleep.
LEMMA UntimedStep ==
  ASSUME IInv, Untimed, NEW t \in Threads
  PROVE  pc'[t] = pc[t] \/ pc'[t] \notin {"wait", "expired"}
<1> USE DEF IInv, TypeOK
<1>1. ASSUME NEW s \in Threads,
             FetchPop(s) \/ FetchNotFound(s) \/ FetchReacquire(s)
             \/ FetchExpired(s) \/ FetchGrow(s) \/ ReleaseLock(s)
      PROVE  pc'[t] = pc[t] \/ pc'[t] \notin {"wait", "expired"}
  BY <1>1 DEF FetchPop, FetchNotFound, FetchReacquire, FetchExpired, FetchGrow,
              ReleaseLock, Enter, Leave, Goto
<1>2. ASSUME NEW s \in Threads, Release(s) \/ BehaviorSet(s)
      PROVE  pc'[t] = pc[t] \/ pc'[t] \notin {"wait", "expired"}
  BY <1>2 DEF Release, LeaveWaking, BehaviorSet, BehaviorSetMaster,
              BehaviorSetNext, BehaviorSetDone, Enter, Leave, Goto
<1> QED
  BY <1>1, <1>2 DEF Untimed, Destroy

LEMMA TimedStep ==
  ASSUME IInv, TimedInv, TimedNext
  PROVE  TimedInv'
<1> USE TimeAssumption DEF TimedInv, EarlyByLessThanASecond, Never
<1>0. pc \in [Threads -> Locations]
  BY DEF IInv, TypeOK
<1>1. ASSUME NEW s \in Threads, TimedFetchLock(s) PROVE TimedInv'
  <2>1. /\ pc' = [pc EXCEPT ![s] = "fetch"]
        /\ blocked' = [blocked EXCEPT ![s] = -1]
        /\ UNCHANGED <<now, deadline>>
    BY <1>1 DEF TimedFetchLock, FetchLock, Enter, Goto
  <2> QED
    BY <1>0, <2>1
<1>2. ASSUME NEW s \in Threads, TimedFetchWait(s) PROVE TimedInv'
  <2>1. /\ pc' = [pc EXCEPT ![s] = "wait"]
        /\ deadline' = [deadline EXCEPT ![s] = WholeSeconds(now) + RelativeTime]
        /\ blocked' = [blocked EXCEPT ![s] = IF @ = -1 THEN now ELSE @]
        /\ now' = now
    BY <1>2 DEF TimedFetchWait, FetchWait, Goto
  <2>2. WholeSeconds(now) \in Int /\ now < WholeSeconds(now) + TicksPerSecond
    BY WholeSecondsBehind
  <2>3. \A t \in Threads : blocked'[t] \in Int /\ blocked'[t] <= now
    BY <2>1
  <2> QED
    BY <1>0, <2>1, <2>2, <2>3
<1>3. ASSUME NEW s \in Threads, TimedSleepEnds(s) PROVE TimedInv'
  BY <1>0, <1>3 DEF TimedSleepEnds, FetchSleepEnds, Goto
<1>4. CASE Untimed
  <2>1. UNCHANGED <<now, blocked, deadline>>
    BY <1>4 DEF Untimed
  <2>2. \A t \in Threads : pc'[t] = pc[t] \/ pc'[t] \notin {"wait", "expired"}
    BY <1>4, UntimedStep
  <2> QED
    BY <2>1, <2>2
<1>5. CASE Tick
  BY <1>5 DEF Tick, vars
<1>6. CASE TimeEnds
  BY <1>6 DEF TimeEnds, timedVars, vars
<1> QED
  BY <1>1, <1>2, <1>3, <1>4, <1>5, <1>6, Zenon DEF TimedNext

\* With the clock the pool does nothing that it does not do without: what
\* is proved of Pool holds of PoolTimed.
THEOREM PoolTimedImplementsPool == TimedSpec => Spec
<1>1. TimedInit => Init
  BY DEF TimedInit
<1>2. [TimedNext]_timedVars => [Next]_vars
  <2> SUFFICES ASSUME TimedNext PROVE Next \/ UNCHANGED vars
    BY DEF timedVars
  <2>1. ASSUME NEW t \in Threads,
               TimedFetchLock(t) \/ TimedFetchWait(t) \/ TimedSleepEnds(t)
        PROVE  Next
    BY <2>1, Zenon DEF TimedFetchLock, TimedFetchWait, TimedSleepEnds, Next, Fetch
  <2>2. CASE Untimed
    BY <2>2 DEF Untimed, Next, Fetch
  <2>3. CASE Tick \/ TimeEnds
    BY <2>3 DEF Tick, TimeEnds, timedVars
  <2> QED
    BY <2>1, <2>2, <2>3 DEF TimedNext
<1> QED
  BY <1>1, <1>2, PTL DEF TimedSpec, Spec

\* However often it is woken up, a fetch that times out has waited for its
\* relative_time, less the part of a second that time(NULL) drops.
THEOREM PoolEarlyByLessThanASecond == TimedSpec => []EarlyByLessThanASecond
<1>1. TimedInit => TimedInv
  BY TimeAssumption
  DEF TimedInit, Init, TimedInv, EarlyByLessThanASecond, Never
<1>2. IInv /\ TimedInv /\ [TimedNext]_timedVars => TimedInv'
  <2>1. CASE UNCHANGED timedVars
    BY <2>1 DEF timedVars, vars, TimedInv, EarlyByLessThanASecond
  <2> QED
    BY <2>1, TimedStep
<1>3. TimedInv => EarlyByLessThanASecond
  BY DEF TimedInv
<1> QED
  BY <1>1, <1>2, <1>3, PoolTimedImplementsPool, PoolIInv, PTL DEF TimedSpec
-----------------------------------------------------------------------------
\* What IdleConnsCurrent needs: when nothing fails, a connection in use that
\* carries the master's version has the master's configuration, and in the
\* middle of behavior_set the rest of the stack lacks only the new setting.
UsedConf ==
  \A c \in out : /\ conn[c].version <= master.version
                 /\ compare_version(c) => conn[c] = master

IdleConf ==
  (\A t \in Threads : pc[t] # "behavior_set") =>
    \A i \in 0 .. firstfree : conn[server_pool[i]] = master

SettingConf ==
  \A t \in Threads : pc[t] = "behavior_set" =>
    \A i \in 0 .. firstfree :
      IF i < setting.xx
      THEN conn[server_pool[i]] = master
      ELSE [conn[server_pool[i]].behavior EXCEPT
              ![setting.flag] = setting.data] = master.behavior

ConfInv == ~MayFail => UsedConf /\ IdleConf /\ SettingConf
-----------------------------------------------------------------------------
\* At most one thread is inside behavior_set, and then nobody else is awake.
LEMMA OneInside ==
  ASSUME IInv, NEW s \in Threads, NEW t \in Threads,
         pc[s] \in {"fetch", "release", "behavior_set"},
         pc[t] \in {"fetch", "release", "behavior_set"}
  PROVE  s = t
BY DEF IInv, MutexHeldInside

LEMMA NobodyInside ==
  ASSUME IInv, mutex = NULL
  PROVE  \A s \in Threads : pc[s] \notin {"fetch", "release", "behavior_set"}
BY PoolAssumption DEF IInv, MutexHeldInside

\* A step of a thread that neither starts nor ends behavior_set, and leaves
\* the connections where they are.
LEMMA ConfUnchanged ==
  ASSUME UsedConf, IdleConf, SettingConf,
         UNCHANGED <<conn, master, out, server_pool, firstfree, setting>>,
         \A s \in Threads :
           (pc'[s] = "behavior_set") <=> (pc[s] = "behavior_set")
  PROVE  UsedConf' /\ IdleConf' /\ SettingConf'
<1>1. UsedConf'
  BY DEF UsedConf, compare_version
<1>2. IdleConf'
  BY DEF IdleConf
<1>3. SettingConf'
  BY DEF SettingConf
<1> QED
  BY <1>1, <1>2, <1>3

\* A step outside behavior_set: only the connections count.
LEMMA ConfOutside ==
  ASSUME \A s \in Threads : pc'[s] # "behavior_set", UsedConf',
         \A i \in 0 .. firstfree' : conn'[server_pool'[i]] = master'
  PROVE  UsedConf' /\ IdleConf' /\ SettingConf'
<1>1. IdleConf'
  BY DEF IdleConf
<1>2. SettingConf'
  BY DEF SettingConf
<1> QED
  BY <1>1, <1>2

LEMMA ConfInvStep ==
  ASSUME IInv, ConfInv, [Next]_vars
  PROVE  ConfInv'
<1> SUFFICES ASSUME ~MayFail, UsedConf, IdleConf, SettingConf
             PROVE  UsedConf' /\ IdleConf' /\ SettingConf'
  BY DEF ConfInv
<1> USE PoolAssumption
<1> DEFINE Goal == UsedConf' /\ IdleConf' /\ SettingConf'
<1>2. ASSUME NEW t \in Threads, Fetch(t), ~FetchPop(t), ~FetchGrow(t)
      PROVE  Goal
  <2>1. UNCHANGED <<conn, master, out, server_pool, firstfree, setting>>
    BY <1>2, Zenon DEF Fetch, FetchLock, FetchLockFails, FetchNotFound, FetchWait,
                FetchSleepEnds, FetchReacquire, FetchExpired, FetchGrowFails,
                poolVars
  <2>2. \/ UNCHANGED pc
        \/ /\ pc[t] # "behavior_set"
           /\ \E l \in Locations \ {"behavior_set"} :
                pc' = [pc EXCEPT ![t] = l]
    BY <1>2, Zenon DEF Fetch, FetchLock, FetchLockFails, FetchNotFound, FetchWait,
                FetchSleepEnds, FetchReacquire, FetchExpired, FetchGrowFails,
                Enter, Leave, Goto, Locations
  <2>3. \A s \in Threads :
          (pc'[s] = "behavior_set") <=> (pc[s] = "behavior_set")
    BY <2>2 DEF IInv, TypeOK
  <2> QED
    BY <2>1, <2>3, ConfUnchanged
<1>3. ASSUME NEW t \in Threads, FetchPop(t) PROVE Goal
  <2>1. \A s \in Threads : pc[s] # "behavior_set" /\ pc'[s] # "behavior_set"
    BY <1>3, OneInside DEF FetchPop, Leave, Goto, IInv, TypeOK
  <2>2. firstfree \in 0 .. Size - 1 /\ firstfree' = firstfree - 1
    BY <1>3 DEF FetchPop, IInv, TypeOK
  <2>3. \A i \in 0 .. firstfree : conn[server_pool[i]] = master
    BY <2>1, Zenon DEF IdleConf
  <2>4. out' = out \cup {server_pool[firstfree]}
        /\ UNCHANGED <<conn, master, server_pool>>
    BY <1>3 DEF FetchPop
  <2>5. master.version \in Int
    BY DEF IInv, TypeOK, Config
  <2>6. conn[server_pool[firstfree]] = master
    BY <2>2, <2>3
  <2>7. UsedConf'
    BY <2>4, <2>5, <2>6 DEF UsedConf, compare_version
  <2>8. \A i \in 0 .. firstfree' : conn'[server_pool'[i]] = master'
    BY <2>2, <2>3, <2>4
  <2> QED
    BY <2>1, <2>7, <2>8, ConfOutside
<1>4. ASSUME NEW t \in Threads, FetchGrow(t) PROVE Goal
  <2>1. \A s \in Threads : pc'[s] # "behavior_set"
    BY <1>4, OneInside DEF FetchGrow
  <2>2. PICK c \in Conns : grow_pool(c)
    BY <1>4 DEF FetchGrow
  <2>3. /\ firstfree = -1 /\ firstfree + 1 = 0 /\ 0 \in 0 .. Size - 1
        /\ UNCHANGED <<out, master>>
    BY <1>4 DEF FetchGrow, IInv, TypeOK
  <2>4. firstfree' = 0 /\ server_pool'[0] = c /\ conn'[c] = master
    BY <2>2, <2>3 DEF grow_pool, Clone, IInv, TypeOK
  <2>5. \A b \in out : conn'[b] = conn[b]
    BY <2>2 DEF grow_pool, Clone, Fresh, IInv, TypeOK
  <2>6. UsedConf'
    BY <2>3, <2>5 DEF UsedConf, compare_version
  <2>7. \A i \in 0 .. firstfree' : conn'[server_pool'[i]] = master'
    BY <2>3, <2>4
  <2> QED
    BY <2>1, <2>6, <2>7, ConfOutside
<1>5. ASSUME NEW t \in Threads, ReleaseLock(t) PROVE Goal
  <2>1. \A s \in Threads :
          (pc'[s] = "behavior_set") <=> (pc[s] = "behavior_set")
    BY <1>5 DEF ReleaseLock, Enter, Goto, IInv, TypeOK
  <2>2. UNCHANGED <<conn, master, out, server_pool, firstfree, setting>>
    BY <1>5 DEF ReleaseLock, poolVars
  <2> QED
    BY <2>1, <2>2, ConfUnchanged
<1>6. ASSUME NEW t \in Threads, Release(t) PROVE Goal
  <2> DEFINE r == released[t]
  <2>1. \A s \in Threads : pc[s] # "behavior_set" /\ pc'[s] # "behavior_set"
    BY <1>6, OneInside, Zenon DEF Release, LeaveWaking
  <2>2. PICK d \in Conns :
          /\ Replacement(r, d)
          /\ server_pool' = [server_pool EXCEPT ![firstfree + 1] = d]
    BY <1>6, Zenon DEF Release
  <2>3. r \in out
    BY <1>6 DEF Release, IInv, CallsConsistent
  <2>4. conn'[d] = master
    BY <2>2, <2>3 DEF Replacement, Clone, UsedConf, IInv, TypeOK
  <2>5. \A b \in out : b # r => conn'[b] = conn[b]
    BY <2>2 DEF Replacement, Clone, Fresh, IInv, TypeOK
  <2>6. /\ out' = out \ {r} /\ firstfree' = firstfree + 1
        /\ UNCHANGED master
    BY <1>6, Zenon DEF Release
  <2>7. UsedConf'
    BY <2>5, <2>6 DEF UsedConf, compare_version
  <2>8. firstfree + 1 \in 0 .. Size - 1
    <3>1. IInv'
      BY <1>6, ReleaseStep
    <3> QED
      BY <2>6, <3>1 DEF IInv, TypeOK
  <2>9. ASSUME NEW i \in 0 .. firstfree' PROVE conn'[server_pool'[i]] = master'
    <3>1. CASE i = firstfree + 1
      BY <2>2, <2>4, <2>6, <2>8, <3>1, Zenon DEF IInv, TypeOK
    <3>2. CASE i # firstfree + 1
      <4>1. i \in 0 .. firstfree
        BY <2>6, <2>8, <3>2 DEF IInv, TypeOK
      <4>2. server_pool'[i] = server_pool[i]
        BY <2>2, <2>8, <3>2 DEF IInv, TypeOK
      <4>3. server_pool[i] \in Conns /\ server_pool[i] \notin Fresh
        BY <4>1, Zenon DEF Fresh, Idle, IInv, NoSharing
      <4>4. conn'[server_pool[i]] = conn[server_pool[i]]
        BY <2>2, <4>3 DEF Replacement, Clone, IInv, TypeOK
      <4>5. conn[server_pool[i]] = master
        BY <2>1, <4>1, Zenon DEF IdleConf
      <4> QED
        BY <2>6, <4>2, <4>4, <4>5, Zenon
    <3> QED
      BY <3>1, <3>2
  <2> QED
    BY <2>1, <2>7, <2>9, ConfOutside, Zenon
<1>7. ASSUME NEW t \in Threads, NEW f \in Flags, NEW v \in Data,
             BehaviorSetMaster(t, f, v)
      PROVE  Goal
  <2>1. \A s \in Threads : pc[s] # "behavior_set"
    BY <1>7, NobodyInside, Zenon DEF BehaviorSetMaster, Enter, Lock
  <2>2. /\ UNCHANGED <<conn, out, server_pool, firstfree>>
        /\ master'.version = master.version + 1
        /\ master'.behavior = [master.behavior EXCEPT ![f] = v]
        /\ setting'.flag = f /\ setting'.data = v /\ setting'.xx = 0
    BY <1>7, Zenon DEF BehaviorSetMaster, poolVars
  <2>3. pc'[t] = "behavior_set"
    BY <1>7, Zenon DEF BehaviorSetMaster, Enter, Goto, IInv, TypeOK
  <2>4. master.version \in Int /\ \A c \in out : conn[c].version \in Int
    BY DEF IInv, TypeOK, Config
  <2>5. UsedConf'
    <3> SUFFICES ASSUME NEW c \in out
                 PROVE  /\ conn[c].version <= master.version + 1
                        /\ conn[c].version # master.version + 1
      BY <2>2, Zenon DEF UsedConf, compare_version
    <3>1. conn[c].version <= master.version
      BY DEF UsedConf
    <3> QED
      BY <2>4, <3>1
  <2>6. IdleConf'
    BY <2>3 DEF IdleConf
  <2>7. \A i \in 0 .. firstfree :
          /\ ~(i < 0)
          /\ conn[server_pool[i]].behavior = master.behavior
    BY <2>1 DEF IdleConf
  <2>8. SettingConf'
    BY <2>2, <2>7 DEF SettingConf
  <2> QED
    BY <2>5, <2>6, <2>8
<1>8. ASSUME NEW t \in Threads, BehaviorSetNext(t) PROVE Goal
  <2> DEFINE x == setting.xx
             b == server_pool[x]
  <2>1. /\ x \in 0 .. firstfree /\ b \in Conns \ out /\ x \in Nat
        /\ \A i \in 0 .. firstfree : server_pool[i] \in Conns
        /\ \A i \in 0 .. firstfree : i # x => server_pool[i] # b
    BY <1>8 DEF BehaviorSetNext, LastIdle, IInv, TypeOK, NoSharing
  <2>2. /\ SetBehavior(b) /\ UNCHANGED server_pool
        /\ pc[t] = "behavior_set"
    BY <1>8 DEF BehaviorSetNext
  <2>3. /\ UNCHANGED <<pc, firstfree, out, master>>
        /\ setting'.flag = setting.flag /\ setting'.data = setting.data
        /\ setting'.xx = x + 1
    BY <1>8 DEF BehaviorSetNext, IInv, TypeOK
  <2>4. conn'[b] = [version |-> master.version, behavior |->
                      [conn[b].behavior EXCEPT ![setting.flag] = setting.data]]
    BY <2>1, <2>2, Zenon DEF SetBehavior, IInv, TypeOK
  <2>5. [conn[b].behavior EXCEPT ![setting.flag] = setting.data]
          = master.behavior
    <3>1. x \in 0 .. firstfree /\ ~(x < setting.xx)
      BY <2>1
    <3> QED
      BY <2>2, <3>1, Zenon DEF SettingConf
  <2>6. conn'[b] = master
    BY <2>4, <2>5, Zenon DEF IInv, TypeOK, Config
  <2>7. \A c \in Conns : c # b => conn'[c] = conn[c]
    BY <2>2 DEF SetBehavior, IInv, TypeOK
  <2>8. \A c \in out : conn'[c] = conn[c]
    BY <2>1, <2>7, Zenon DEF IInv, TypeOK
  <2>9. UsedConf'
    BY <2>3, <2>8 DEF UsedConf, compare_version
  <2>10. IdleConf'
    BY <2>2, <2>3, Zenon DEF IdleConf
  <2>11. ASSUME NEW i \in 0 .. firstfree
         PROVE  IF i < x + 1
                THEN conn'[server_pool[i]] = master
                ELSE [conn'[server_pool[i]].behavior EXCEPT
                        ![setting.flag] = setting.data] = master.behavior
    <3>1. CASE i = x
      <4>1. i < x + 1
        BY <3>1, <2>1
      <4> QED
        BY <3>1, <2>6, <4>1
    <3>2. CASE i # x
      <4>1. (i < x + 1) <=> (i < x)
        BY <3>2, <2>1
      <4>2. conn'[server_pool[i]] = conn[server_pool[i]]
        BY <3>2, <2>1, <2>7
      <4> QED
        BY <4>1, <4>2, <2>2 DEF SettingConf
    <3> QED
      BY <3>1, <3>2, Zenon
  <2>12. SettingConf'
    BY <2>2, <2>3, <2>11, Zenon DEF SettingConf
  <2> QED
    BY <2>9, <2>10, <2>12
<1>9. ASSUME NEW t \in Threads, BehaviorSetDone(t) PROVE Goal
  <2>1. /\ pc[t] = "behavior_set" /\ setting.xx > firstfree
        /\ UNCHANGED <<conn, master, out, server_pool, firstfree>>
    BY <1>9, Zenon DEF BehaviorSetDone, LastIdle, poolVars
  <2>2. \A s \in Threads : pc'[s] # "behavior_set"
    BY <1>9, OneInside DEF BehaviorSetDone, Leave, Goto, IInv, TypeOK
  <2>3. \A i \in 0 .. firstfree : i < setting.xx
    BY <2>1 DEF IInv, TypeOK
  <2>4. \A i \in 0 .. firstfree : conn[server_pool[i]] = master
    <3>1. \A i \in 0 .. firstfree :
            i < setting.xx => conn[server_pool[i]] = master
      BY <2>1, Zenon DEF SettingConf
    <3> QED
      BY <2>3, <3>1, Zenon
  <2>5. UsedConf'
    BY <2>1, Zenon DEF UsedConf, compare_version
  <2> QED
    BY <2>1, <2>2, <2>4, <2>5, ConfOutside, Zenon
<1>10. CASE Destroy
  <2>0. firstfree' = -1
    BY <1>10, Zenon DEF Destroy
  <2>1. /\ \A s \in Threads : pc'[s] # "behavior_set"
        /\ UNCHANGED <<conn, master, out>>
    BY <1>10 DEF Destroy
  <2>2. UsedConf'
    BY <2>1 DEF UsedConf, compare_version
  <2>3. \A i \in 0 .. firstfree' : FALSE
    BY <2>0
  <2>4. \A i \in 0 .. firstfree' : conn'[server_pool'[i]] = master'
    BY <2>3
  <2> QED
    BY <2>1, <2>2, <2>4, ConfOutside, Zenon
<1>11. CASE Destroyed \/ UNCHANGED vars
  BY <1>11, ConfUnchanged, Zenon DEF Destroyed, vars
<1> QED
  BY <1>2, <1>3, <1>4, <1>5, <1>6, <1>7, <1>8, <1>9, <1>10, <1>11
  DEF Next, BehaviorSet

\* When nothing fails, an idle connection has the master's behaviours and
\* version whenever behavior_set is not running.
THEOREM PoolIdleConnsCurrent == Spec => []IdleConnsCurrent
<1>1. Init => ConfInv
  <2> SUFFICES ASSUME Init PROVE ConfInv
    OBVIOUS
  <2>1. IInv
    BY InitIInv
  <2>2. /\ out = {} /\ conn = [c \in Conns |-> master]
        /\ pc = [t \in Threads |-> "idle"]
    BY DEF Init
  <2> QED
    BY <2>1, <2>2, Zenon DEF ConfInv, UsedConf, IdleConf, SettingConf, IInv, NoSharing
<1>2. IInv /\ ConfInv /\ [Next]_vars => ConfInv'
  BY ConfInvStep
<1>3. ConfInv => IdleConnsCurrent
  BY DEF ConfInv, IdleConf, IdleConnsCurrent
<1> QED
  BY <1>1, <1>2, <1>3, PoolIInv, PTL DEF Spec
-----------------------------------------------------------------------------
\* The stack holds as many connections as it is high.
LEMMA IdleCardinality ==
  ASSUME IInv
  PROVE  Cardinality(Idle) = firstfree + 1 /\ Idle \in SUBSET Conns
<1> DEFINE f == [i \in 0 .. firstfree |-> server_pool[i]]
<1>1. firstfree \in Int /\ firstfree >= -1
  BY PoolAssumption DEF IInv, TypeOK
<1>2. f \in [0 .. firstfree -> Idle]
  BY DEF Idle
<1>3. \A i, j \in 0 .. firstfree : f[i] = f[j] => i = j
  BY DEF IInv, NoSharing
<1>4. \A c \in Idle : \E i \in 0 .. firstfree : f[i] = c
  BY DEF Idle
<1>5. f \in Bijection(0 .. firstfree, Idle)
  BY <1>2, <1>3, <1>4 DEF Bijection, Injection, Surjection, IsInjective
<1>6. ExistsBijection(0 .. firstfree, Idle)
  BY <1>5 DEF ExistsBijection
<1>7. /\ IsFiniteSet(0 .. firstfree)
      /\ Cardinality(0 .. firstfree) = firstfree + 1
  BY <1>1, FS_Interval
<1>8. Cardinality(Idle) = firstfree + 1
  BY <1>6, <1>7, FS_Bijection
<1> QED
  BY <1>8 DEF Idle, IInv, NoSharing

\* What popping does to the set of entries.
LEMMA StackPop ==
  ASSUME NEW n \in Nat, NEW f,
         \A i, j \in 0 .. n : f[i] = f[j] => i = j
  PROVE  /\ f[n] \in {f[i] : i \in 0 .. n}
         /\ {f[i] : i \in 0 .. n - 1} = {f[i] : i \in 0 .. n} \ {f[n]}
<1>1. n \in 0 .. n /\ \A i \in 0 .. n : i \in 0 .. n - 1 <=> i # n
  OBVIOUS
<1>2. \A i \in 0 .. n - 1 : i \in 0 .. n
  OBVIOUS
<1> QED
  BY <1>1, <1>2

\* The Cardinality that ResourcePool extends is the one used here.
LEMMA SameCardinality ==
  ASSUME NEW S
  PROVE  Promise!Cardinality(S) = Cardinality(S)
BY DEF Cardinality, Promise!Cardinality

\* The pool implements a bounded set of connections, each of them idle or in
\* the hands of one client.
THEOREM PoolImplementsResourcePool == Spec => ImplementsResourcePool
<1>1. Init => Promise!Init
  <2> SUFFICES ASSUME Init PROVE Promise!Init
    OBVIOUS
  <2>1. IInv /\ out = {}
    BY InitIInv DEF Init
  <2>2. firstfree + 1 <= Size
    BY <2>1, PoolAssumption DEF IInv, TypeOK
  <2> QED
    BY <2>1, <2>2, IdleCardinality, SameCardinality DEF Promise!Init
<1>2. IInv /\ [Next]_vars => [Promise!Next]_<<Idle, out>>
  <2> SUFFICES ASSUME IInv, [Next]_vars,
                      ~UNCHANGED <<Idle, out>>
               PROVE  Promise!Next
    OBVIOUS
  <2> USE PoolAssumption
  <2>1. ASSUME NEW t \in Threads, FetchPop(t) PROVE Promise!Acquire
    <3>1. firstfree \in 0 .. Size - 1 /\ firstfree' = firstfree - 1
      BY <2>1 DEF FetchPop, IInv, TypeOK
    <3>2. server_pool[firstfree] \in Idle
      <4>1. firstfree \in 0 .. firstfree
        BY <3>1
      <4> QED
        BY <4>1, Zenon DEF Idle
    <3>3. Idle' = Idle \ {server_pool[firstfree]}
      <4>1. server_pool' = server_pool
        BY <2>1, Zenon DEF FetchPop
      <4>2. firstfree \in Nat
        BY <3>1
      <4>3. \A i, j \in 0 .. firstfree :
              server_pool[i] = server_pool[j] => i = j
        BY Zenon DEF IInv, NoSharing
      <4>4. {server_pool[i] : i \in 0 .. firstfree - 1}
              = {server_pool[i] : i \in 0 .. firstfree}
                  \ {server_pool[firstfree]}
        BY <4>2, <4>3, StackPop, Zenon
      <4> QED
        BY <3>1, <4>1, <4>4, Zenon DEF Idle
    <3> QED
      BY <2>1, <3>2, <3>3 DEF FetchPop, Promise!Acquire
  <2>2. ASSUME NEW t \in Threads, FetchGrow(t) PROVE Promise!Create
    <3>1. PICK c \in Conns : grow_pool(c)
      BY <2>2 DEF FetchGrow
    <3>2. /\ firstfree = -1 /\ firstfree + 1 = 0 /\ 0 \in 0 .. Size - 1
          /\ current_size < Size /\ life = "up"
      BY <2>2, SMTT(30) DEF FetchGrow, IInv, TypeOK, CallsConsistent
    <3>3. Idle = {} /\ Idle' = {c} /\ c \in Promise!Unborn
      BY <3>1, <3>2 DEF grow_pool, Idle, Fresh, Promise!Unborn, IInv, TypeOK
    <3>4. Cardinality(Idle) + Cardinality(out) < Size
      <4>1. Cardinality(out) \in Nat
        BY OutCardinality DEF IInv, TypeOK
      <4>2. current_size = Cardinality(out)
        BY <3>2, <4>1 DEF IInv, Accounting
      <4>3. Cardinality(Idle) = 0
        BY <3>2, IdleCardinality
      <4> QED
        BY <3>2, <4>1, <4>2, <4>3
    <3> QED
      BY <2>2, <3>3, <3>4, SameCardinality, Zenon DEF FetchGrow, Promise!Create
  <2>3. ASSUME NEW t \in Threads, Release(t) PROVE Promise!GiveBack
    <3> DEFINE r == released[t]
    <3>1. PICK d \in Conns :
            /\ Replacement(r, d)
            /\ server_pool' = [server_pool EXCEPT ![firstfree + 1] = d]
      BY <2>3, Zenon DEF Release
    <3>2. r \in out /\ (d = r \/ d \in Promise!Unborn)
      BY <2>3, <3>1, Zenon DEF Release, IInv, CallsConsistent, Replacement, Fresh,
                        Promise!Unborn
    <3>3. /\ firstfree' = firstfree + 1 /\ out' = out \ {r}
          /\ firstfree \in Int /\ firstfree >= -1
      BY <2>3 DEF Release, IInv, TypeOK
    <3>4. firstfree + 1 \in 0 .. Size - 1
      <4>1. IInv'
        BY <2>3, ReleaseStep
      <4>2. firstfree' \in -1 .. Size - 1
        BY <4>1, Zenon DEF IInv, TypeOK
      <4> QED
        BY <3>3, <4>2
    <3>5. /\ \A i \in 0 .. firstfree : server_pool'[i] = server_pool[i]
          /\ server_pool'[firstfree + 1] = d
      BY <3>1, <3>3, <3>4 DEF IInv, TypeOK
    <3>6. Idle' = Idle \cup {d}
      <4>0. \A i : i \in 0 .. firstfree + 1
                     <=> i \in 0 .. firstfree \/ i = firstfree + 1
        BY <3>3
      <4>1. {server_pool'[i] : i \in 0 .. firstfree + 1}
              = {server_pool[i] : i \in 0 .. firstfree} \cup {d}
        BY <3>5, <4>0, Zenon
      <4>2. Idle' = {server_pool'[i] : i \in 0 .. firstfree + 1}
        BY <3>3 DEF Idle
      <4> QED
        BY <4>1, <4>2, Zenon DEF Idle
    <3> QED
      BY <3>2, <3>3, <3>6 DEF Promise!GiveBack
  <2>4. ASSUME NEW t \in Threads, BehaviorSetNext(t) PROVE Promise!Renew
    <3> DEFINE x == setting.xx
    <3>1. x \in 0 .. firstfree /\ x \in 0 .. Size - 1
      BY <2>4 DEF BehaviorSetNext, LastIdle, IInv, TypeOK
    <3>2. UNCHANGED <<firstfree, out>>
      BY <2>4 DEF BehaviorSetNext, LastIdle
    <3>3. server_pool' # server_pool
      BY <3>2 DEF Idle
    <3>4. PICK d \in Fresh : server_pool' = [server_pool EXCEPT ![x] = d]
      BY <2>4, <3>3 DEF BehaviorSetNext, LastIdle
    <3>5. \A i \in 0 .. firstfree :
            server_pool'[i] = IF i = x THEN d ELSE server_pool[i]
      BY <3>1, <3>4 DEF IInv, TypeOK
    <3>6. /\ server_pool[x] \in Idle
          /\ Idle' = (Idle \ {server_pool[x]}) \cup {d}
      <4>2. \A i, j \in 0 .. firstfree :
              server_pool[i] = server_pool[j] => i = j
        BY Zenon DEF IInv, NoSharing
      <4>3. Idle' = {server_pool'[i] : i \in 0 .. firstfree}
        BY <3>2, Zenon DEF Idle
      <4>4. server_pool[x] \in Idle
        BY <3>1, Zenon DEF Idle
      <4>5. server_pool'[x] = d /\ d \in Idle'
        <5>1. server_pool'[x] = d
          BY <3>1, <3>5
        <5> QED
          BY <3>1, <4>3, <5>1, Zenon
      <4>6. ASSUME NEW i \in 0 .. firstfree, i # x
            PROVE  /\ server_pool'[i] = server_pool[i]
                   /\ server_pool[i] # server_pool[x]
        <5>1. server_pool'[i] = server_pool[i]
          BY <3>5, <4>6
        <5>2. server_pool[i] # server_pool[x]
          BY <3>1, <4>2, <4>6, Zenon
        <5> QED
          BY <5>1, <5>2
      <4>7. ASSUME NEW e \in Idle', e # d
            PROVE  e \in Idle /\ e # server_pool[x]
        <5>1. PICK i \in 0 .. firstfree : e = server_pool'[i]
          BY <4>3, Zenon
        <5>2. i # x
          BY <4>5, <4>7, <5>1, Zenon
        <5>3. e = server_pool[i] /\ server_pool[i] # server_pool[x]
          BY <4>6, <5>1, <5>2, Zenon
        <5> QED
          BY <5>3, Zenon DEF Idle
      <4>8. Idle \ {server_pool[x]} \subseteq Idle'
        BY <4>3, <4>6, Zenon DEF Idle
      <4> QED
        BY <4>4, <4>5, <4>7, <4>8, Zenon
    <3>7. d \in Promise!Unborn
      BY DEF Fresh, Promise!Unborn
    <3> QED
      BY <3>2, <3>6, <3>7 DEF Promise!Renew
  <2>5. CASE Destroy
    <3>1. firstfree' = -1 /\ out' = out
      BY <2>5, Zenon DEF Destroy
    <3>2. \A i \in 0 .. firstfree' : FALSE
      BY <3>1
    <3>3. Idle' = {}
      BY <3>2 DEF Idle
    <3> QED
      BY <3>1, <3>3 DEF Promise!Close, Promise!Next
  <2>6. ASSUME NEW t \in Threads, Fetch(t), ~FetchPop(t), ~FetchGrow(t)
        PROVE  FALSE
    BY <2>6, Zenon DEF Fetch, FetchLock, FetchLockFails, FetchNotFound, FetchWait,
                FetchSleepEnds, FetchReacquire, FetchExpired, FetchGrowFails,
                poolVars, Idle
  <2>7. ASSUME NEW t \in Threads,
               \/ ReleaseLock(t) \/ BehaviorSetDone(t)
               \/ \E f \in Flags, v \in Data : BehaviorSetMaster(t, f, v)
        PROVE  FALSE
    BY <2>7, Zenon DEF ReleaseLock, BehaviorSetDone, BehaviorSetMaster, poolVars, Idle
  <2>8. CASE Destroyed \/ UNCHANGED vars
    BY <2>8, Zenon DEF Destroyed, vars, Idle
  <2> QED
    BY <2>1, <2>2, <2>3, <2>4, <2>5, <2>6, <2>7, <2>8
    DEF Next, BehaviorSet, Promise!Next
<1> QED
  BY <1>1, <1>2, PoolIInv, PTL DEF Spec, ImplementsResourcePool, Promise!Spec

===============================================================================
