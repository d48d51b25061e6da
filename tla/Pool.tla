-------------------------------- MODULE Pool --------------------------------
(***************************************************************************)
(* The connection pool of libmemcachedutil (pool.cc): a fixed array used   *)
(* as a stack of idle memcached_st objects, one mutex, one condition       *)
(* variable, and a master object of which every connection is a clone.     *)
(*                                                                         *)
(* A call acquires the mutex, works through the body of the C++ method one *)
(* iteration of its loop at a time, and releases the mutex on the way out; *)
(* only pthread_cond_timedwait gives the mutex up in the middle.  The wait *)
(* may end by a broadcast, by a timeout or, as POSIX allows, for no reason *)
(* at all.  Memory is finite: a clone may fail at any call.                *)
(*                                                                         *)
(* Calls that leave the pool as it was are not actions: a NULL argument,   *)
(* a failed pthread_mutex_lock outside fetch, and behavior_get.  The       *)
(* caller's side of the contract is a guard: only a connection in the      *)
(* application's hands is released, and the pool is destroyed while no     *)
(* thread is inside it.                                                    *)
(***************************************************************************)
EXTENDS Integers, FiniteSets

CONSTANTS
  Threads,       \* the application threads sharing the pool
  Conns,         \* addresses malloc may return for a cloned memcached_st
  NULL,          \* the null pointer, and the mutex that nobody holds
  Size,          \* memcached_pool_st::size, the max argument
  Initial,       \* the initial argument
  Flags, Data,   \* behaviours and the values they are set to
  MaxChanges,    \* bound on successful calls of behavior_set
  MayFail,       \* can memcached_clone and memcached_behavior_set fail
  OwnsMaster     \* memcached_pool() rather than memcached_pool_create()

\* _pool_create refuses other sizes; Conns is large enough for a clone made
\* while the connection it replaces is still allocated.
ASSUME PoolAssumption ==
  /\ IsFiniteSet(Conns)
  /\ NULL \notin Conns \cup Threads
  /\ 0 \in Data
  /\ Size \in Nat /\ Initial \in 1 .. Size
  /\ MaxChanges \in Nat
  /\ MayFail \in BOOLEAN /\ OwnsMaster \in BOOLEAN

VARIABLES
  mutex,         \* the thread holding the mutex, or NULL
  pc,            \* where each thread is
  timed,         \* timed[t]: relative_time of t's fetch is not zero
  released,      \* released[t]: the argument of t's release
  server_pool,   \* the array; entries above firstfree are dangling
  firstfree,     \* index of the top of the stack, -1 when it is empty
  current_size,  \* connections created so far
  out,           \* connections in the application's hands
  conn,          \* configuration of each connection
  master,        \* configuration of the master
  setting,       \* flag, data and loop index of a running behavior_set
  ret,           \* ret[t]: what t's last call returned, if it was a fetch
  life           \* "up", or what memcached_pool_destroy returned

vars == <<mutex, pc, timed, released, server_pool, firstfree, current_size,
          out, conn, master, setting, ret, life>>

threadVars == <<timed, released>>
poolVars   == <<server_pool, firstfree, current_size>>

Config     == [version : Int, behavior : [Flags -> Data]]
Locations  == {"idle", "fetch", "wait", "woken", "expired", "release",
               "behavior_set"}
ReturnCode == {"SUCCESS", "IN_PROGRESS", "NOTFOUND", "TIMEOUT", "ERRNO"}
None       == [memc |-> NULL, rc |-> "NONE"]
NoSetting  == [flag |-> NULL, data |-> 0, xx |-> 0]
-----------------------------------------------------------------------------
\* The connections lying in the pool, and the addresses malloc may return.
Idle  == {server_pool[i] : i \in 0 .. firstfree}
Fresh == Conns \ (Idle \cup out)

Return(t, memc, rc) == ret' = [ret EXCEPT ![t] = [memc |-> memc, rc |-> rc]]

Goto(t, l) == pc' = [pc EXCEPT ![t] = l]

Lock(t)   == mutex = NULL /\ mutex' = t
Unlock(t) == mutex = t /\ mutex' = NULL

\* Enter a method: the caller blocks in pthread_mutex_lock until it is free.
Enter(t, l) ==
  /\ life = "up" /\ pc[t] = "idle" /\ Lock(t) /\ Goto(t, l)
  /\ ret' = [ret EXCEPT ![t] = None]

\* Leave a method: unlock and return to the application.
Leave(t) == Unlock(t) /\ Goto(t, "idle")

\* pthread_cond_broadcast when wake holds; then unlock and return.
LeaveWaking(t, wake) ==
  /\ Unlock(t)
  /\ pc' = [s \in Threads |-> IF s = t THEN "idle"
                              ELSE IF wake /\ pc[s] = "wait" THEN "woken"
                              ELSE pc[s]]

\* memcached_clone(NULL, master) into the fresh object c: flags, timeouts,
\* callbacks, server list and configure.version are the master's.
Clone(c) == conn' = [conn EXCEPT ![c] = master]

-----------------------------------------------------------------------------
(***************************************************************************)
(* grow_pool: the clone becomes the top of the stack.                      *)
(***************************************************************************)
grow_pool(c) ==
  /\ c \in Fresh
  /\ Clone(c)
  /\ firstfree' = firstfree + 1
  /\ server_pool' = [server_pool EXCEPT ![firstfree + 1] = c]
  /\ current_size' = current_size + 1

(***************************************************************************)
(* fetch.                                                                  *)
(***************************************************************************)
FetchLock(t) ==
  /\ Enter(t, "fetch")
  /\ \E b \in BOOLEAN : timed' = [timed EXCEPT ![t] = b]
  /\ UNCHANGED <<released, poolVars, out, conn, master, setting, life>>

FetchLockFails(t) ==
  /\ life = "up" /\ pc[t] = "idle"
  /\ Return(t, NULL, "IN_PROGRESS")
  /\ UNCHANGED <<mutex, pc, threadVars, poolVars, out, conn, master, setting,
                 life>>

\* Fault: server_pool[firstfree] without the decrement.
FetchTop(t) ==
  /\ pc[t] = "fetch" /\ firstfree > -1
  /\ out' = out \cup {server_pool[firstfree]}
  /\ Return(t, server_pool[firstfree], "SUCCESS")
  /\ Leave(t)
  /\ UNCHANGED <<threadVars, poolVars, conn, master, setting, life>>

\* ret = server_pool[firstfree--], then out of the loop and unlock.
FetchPop(t) ==
  /\ pc[t] = "fetch" /\ firstfree > -1
  /\ firstfree' = firstfree - 1
  /\ out' = out \cup {server_pool[firstfree]}
  /\ Return(t, server_pool[firstfree], "SUCCESS")
  /\ Leave(t)
  /\ UNCHANGED <<threadVars, server_pool, current_size, conn, master, setting,
                 life>>

FetchNotFound(t) ==
  /\ pc[t] = "fetch" /\ firstfree = -1 /\ current_size = Size /\ ~timed[t]
  /\ Return(t, NULL, "NOTFOUND")
  /\ Leave(t)
  /\ UNCHANGED <<threadVars, poolVars, out, conn, master, setting, life>>

\* pthread_cond_timedwait unlocks the mutex and sleeps.
FetchWait(t) ==
  /\ pc[t] = "fetch" /\ firstfree = -1 /\ current_size = Size /\ timed[t]
  /\ Unlock(t) /\ Goto(t, "wait")
  /\ UNCHANGED <<threadVars, poolVars, out, conn, master, setting, ret, life>>

\* The wait ends without a broadcast: spuriously, or with an error.
FetchSleepEnds(t) ==
  /\ pc[t] = "wait"
  /\ \E l \in {"woken", "expired"} : Goto(t, l)
  /\ UNCHANGED <<mutex, threadVars, poolVars, out, conn, master, setting, ret,
                 life>>

\* timedwait returns 0 with the mutex held, and the loop goes round again.
FetchReacquire(t) ==
  /\ pc[t] = "woken" /\ Lock(t) /\ Goto(t, "fetch")
  /\ UNCHANGED <<threadVars, poolVars, out, conn, master, setting, ret, life>>

\* timedwait returns an error with the mutex held: unlock, return the error.
FetchExpired(t) ==
  /\ pc[t] = "expired" /\ mutex = NULL /\ Goto(t, "idle")
  /\ \E rc \in {"TIMEOUT", "ERRNO"} : Return(t, NULL, rc)
  /\ UNCHANGED <<mutex, threadVars, poolVars, out, conn, master, setting,
                 life>>

\* A clone is created and pushed; the next iteration of the loop pops it.
FetchGrow(t) ==
  /\ pc[t] = "fetch" /\ mutex = t /\ firstfree = -1 /\ current_size # Size
  /\ \E c \in Conns : grow_pool(c)
  /\ UNCHANGED <<mutex, pc, threadVars, out, master, setting, ret, life>>

\* grow_pool returns false: NULL is returned and rc is left as it was.
FetchGrowFails(t) ==
  /\ pc[t] = "fetch" /\ firstfree = -1 /\ current_size # Size
  /\ MayFail
  /\ Return(t, NULL, "SUCCESS")
  /\ Leave(t)
  /\ UNCHANGED <<threadVars, poolVars, out, conn, master, setting, life>>
-----------------------------------------------------------------------------
(***************************************************************************)
(* release.                                                                *)
(***************************************************************************)
ReleaseLock(t) ==
  /\ Enter(t, "release")
  /\ \E c \in out : released' = [released EXCEPT ![t] = c]
  /\ UNCHANGED <<timed, poolVars, out, conn, master, setting, life>>

\* Fault: the version is not looked at.
same_version(c) == c \in Conns

\* compare_version
compare_version(c) == conn[c].version = master.version

\* The object that goes back on the stack: the one released, or a clone of
\* the master if somebody updated the behaviours in the meantime.
Replacement(c, d) ==
  \/ compare_version(c) /\ d = c /\ UNCHANGED conn
  \/ ~compare_version(c) /\ d \in Fresh /\ Clone(d)
  \/ ~compare_version(c) /\ MayFail /\ d = c /\ UNCHANGED conn

\* Fault: the test for the first free slot is made with the wrong index.
WakeSecond == firstfree + 1 = 1 /\ current_size = Size

\* Waiters are woken when the stack was empty and cannot grow.
WakeWaiters == firstfree + 1 = 0 /\ current_size = Size

Release(t) ==
  /\ pc[t] = "release"
  /\ \E d \in Conns :
       /\ Replacement(released[t], d)
       /\ server_pool' = [server_pool EXCEPT ![firstfree + 1] = d]
  /\ firstfree' = firstfree + 1
  /\ out' = out \ {released[t]}
  /\ released' = [released EXCEPT ![t] = NULL]
  /\ LeaveWaking(t, WakeWaiters)
  /\ UNCHANGED <<timed, current_size, master, setting, ret, life>>
-----------------------------------------------------------------------------
(***************************************************************************)
(* memcached_pool_behavior_set.                                            *)
(***************************************************************************)
\* The master is updated and its version incremented.  When the master
\* refuses the behaviour the call returns with nothing changed.
BehaviorSetMaster(t, f, v) ==
  /\ Enter(t, "behavior_set")
  /\ master.version + 1 < MaxChanges
  /\ master' = [version  |-> master.version + 1,
                behavior |-> [master.behavior EXCEPT ![f] = v]]
  /\ setting' = [flag |-> f, data |-> v, xx |-> 0]
  /\ UNCHANGED <<threadVars, poolVars, out, conn, life>>

\* memcached_behavior_set on one object lying in the pool, which is then
\* stamped with the pool's version.
SetBehavior(c) ==
  conn' = [conn EXCEPT ![c] =
             [version  |-> master.version,
              behavior |-> [@.behavior EXCEPT ![setting.flag] = setting.data]]]

\* Fault: the loop runs over every connection created.
LastCreated == current_size - 1

\* The loop over the idle connections ends with the top of the stack.
LastIdle == firstfree

\* Fault: the index is not incremented.
BehaviorSetStuck(t) ==
  /\ pc[t] = "behavior_set" /\ mutex = t /\ setting.xx <= LastIdle
  /\ SetBehavior(server_pool[setting.xx])
  /\ UNCHANGED <<mutex, pc, threadVars, poolVars, out, master, setting, ret,
                 life>>

\* One iteration of the loop over the idle connections: the object accepts
\* the behaviour, or refuses it and is replaced by a clone, or refuses it
\* and stays because the clone failed.
BehaviorSetNext(t) ==
  /\ pc[t] = "behavior_set" /\ mutex = t /\ setting.xx <= LastIdle
  /\ \/ SetBehavior(server_pool[setting.xx]) /\ UNCHANGED server_pool
     \/ /\ MayFail
        /\ \E d \in Fresh :
             /\ Clone(d)
             /\ server_pool' = [server_pool EXCEPT ![setting.xx] = d]
     \/ MayFail /\ UNCHANGED <<conn, server_pool>>
  /\ setting' = [setting EXCEPT !.xx = @ + 1]
  /\ UNCHANGED <<mutex, pc, threadVars, firstfree, current_size, out, master,
                 ret, life>>

BehaviorSetDone(t) ==
  /\ pc[t] = "behavior_set" /\ setting.xx > LastIdle
  /\ setting' = NoSetting
  /\ Leave(t)
  /\ UNCHANGED <<threadVars, poolVars, out, conn, master, ret, life>>

(***************************************************************************)
(* memcached_pool_destroy: the idle connections are freed, and the master  *)
(* with them when the pool owns it; otherwise it is handed back.           *)
(***************************************************************************)
\* Fault: the loop frees every connection created.
DestroyAll ==
  /\ life = "up" /\ \A t \in Threads : pc[t] = "idle"
  /\ life' = IF OwnsMaster THEN "NULL" ELSE "master"
  /\ firstfree' = -1
  /\ out' = {}
  /\ UNCHANGED <<mutex, pc, threadVars, server_pool, current_size, conn,
                 master, setting, ret>>

Destroy ==
  /\ life = "up" /\ \A t \in Threads : pc[t] = "idle"
  /\ life' = IF OwnsMaster THEN "NULL" ELSE "master"
  /\ firstfree' = -1
  /\ UNCHANGED <<mutex, pc, threadVars, server_pool, current_size, out, conn,
                 master, setting, ret>>

Destroyed == life # "up" /\ UNCHANGED vars
-----------------------------------------------------------------------------
\* init: the pool grows to the initial size, or as far as memory allows;
\* stack lists the clones made.
Init ==
  \E n \in 0 .. Initial : \E stack \in [0 .. n - 1 -> Conns] :
  /\ n = Initial \/ MayFail
  /\ \A i, j \in 0 .. n - 1 : stack[i] = stack[j] => i = j
  /\ mutex = NULL
  /\ pc = [t \in Threads |-> "idle"]
  /\ timed = [t \in Threads |-> FALSE]
  /\ released = [t \in Threads |-> NULL]
  /\ server_pool = [i \in 0 .. Size - 1 |-> IF i < n THEN stack[i] ELSE NULL]
  /\ firstfree = n - 1
  /\ current_size = n
  /\ out = {}
  /\ master = [version |-> -1, behavior |-> [f \in Flags |-> 0]]
  /\ conn = [c \in Conns |-> master]
  /\ setting = NoSetting
  /\ ret = [t \in Threads |-> None]
  /\ life = "up"

Fetch(t) ==
  \/ FetchLock(t) \/ FetchLockFails(t) \/ FetchPop(t) \/ FetchNotFound(t)
  \/ FetchWait(t) \/ FetchSleepEnds(t) \/ FetchReacquire(t)
  \/ FetchExpired(t) \/ FetchGrow(t) \/ FetchGrowFails(t)

BehaviorSet(t) ==
  \/ \E f \in Flags, v \in Data : BehaviorSetMaster(t, f, v)
  \/ BehaviorSetNext(t) \/ BehaviorSetDone(t)

Next ==
  \/ \E t \in Threads : Fetch(t) \/ ReleaseLock(t) \/ Release(t)
                        \/ BehaviorSet(t)
  \/ Destroy \/ Destroyed

Spec == Init /\ [][Next]_vars

\* A thread inside the pool keeps running, a sleep ends at the latest when
\* its timeout expires, and a thread blocked on the mutex is not overtaken
\* for ever.
Fairness ==
  \A t \in Threads :
    /\ WF_vars(FetchPop(t) \/ FetchNotFound(t) \/ FetchWait(t)
               \/ FetchGrow(t) \/ FetchGrowFails(t) \/ Release(t)
               \/ BehaviorSetNext(t) \/ BehaviorSetDone(t))
    /\ WF_vars(FetchSleepEnds(t))
    /\ SF_vars(FetchReacquire(t) \/ FetchExpired(t))

FairSpec == Spec /\ Fairness
-----------------------------------------------------------------------------
TypeOK ==
  /\ mutex \in Threads \cup {NULL}
  /\ pc \in [Threads -> Locations]
  /\ timed \in [Threads -> BOOLEAN]
  /\ released \in [Threads -> Conns \cup {NULL}]
  /\ server_pool \in [0 .. Size - 1 -> Conns \cup {NULL}]
  /\ firstfree \in -1 .. Size - 1
  /\ current_size \in 0 .. Size
  /\ out \in SUBSET Conns
  /\ conn \in [Conns -> Config]
  /\ master \in Config
  /\ setting \in [flag : Flags \cup {NULL}, data : Data, xx : 0 .. Size]
  /\ ret \in [Threads -> [memc : Conns \cup {NULL},
                          rc : ReturnCode \cup {"NONE"}]]
  /\ life \in {"up", "master", "NULL"}

\* A connection is in one place: two slots of the stack never hold the same
\* object, no slot is empty, and nothing on the stack is at the same time in
\* the application's hands (fetch pops it, release pushes it or its clone).
NoSharing ==
  /\ \A i \in 0 .. firstfree : server_pool[i] \in Conns \ out
  /\ \A i, j \in 0 .. firstfree : server_pool[i] = server_pool[j] => i = j

\* While the pool is up every connection created is either on the stack or
\* handed out; so the stack has room for everything that may be released and
\* the pool never has more than size connections.
Accounting ==
  life = "up" => current_size = Cardinality(out) + firstfree + 1

\* No wakeup is lost: a thread asleep in pthread_cond_timedwait has nothing
\* to take and no room to grow, although release broadcasts only when the
\* stack was empty and the pool at its full size.
NoLostWakeup ==
  \A t \in Threads : pc[t] = "wait" => firstfree = -1 /\ current_size = Size

\* The mutex is held by exactly the thread that is inside a method and not
\* asleep: every return path has unlocked it.
MutexHeldInside ==
  \A t \in Threads :
    (mutex = t) <=> pc[t] \in {"fetch", "release", "behavior_set"}

\* Outside a call of behavior_set, and when nothing fails, every idle
\* connection has the master's behaviours and version: those that were out
\* when the master changed are replaced when they come back.
IdleConnsCurrent ==
  ~MayFail /\ (\A t \in Threads : pc[t] # "behavior_set") =>
    \A i \in 0 .. firstfree : conn[server_pool[i]] = master

\* behavior_set reconfigures idle connections only: a connection is never
\* written while an application thread is using it.
UsedConnsUntouched ==
  [][\A c \in out : c \in out' => conn'[c] = conn[c]]_vars

\* fetch answers NOTFOUND only when all size connections are handed out.
NotFoundMeansAllOut ==
  [][\A t \in Threads :
       ret'[t] # ret[t] /\ ret'[t].rc = "NOTFOUND" => Cardinality(out) = Size
    ]_vars

\* The stack, the array and the counters implement a bounded set of
\* connections, each idle or used by one client (module ResourcePool).
Promise == INSTANCE ResourcePool
             WITH Resources <- Conns, Capacity <- Size, idle <- Idle, used <- out

ImplementsResourcePool == Promise!Spec

\* A thread that is awake in the pool returns to the application or goes to
\* sleep, and a sleep ends: no path leaves the mutex locked, and the loops
\* of fetch and behavior_set do not spin.
AwakeProgress ==
  \A t \in Threads :
    /\ pc[t] \notin {"idle", "wait"} ~> pc[t] \in {"idle", "wait"}
    /\ pc[t] = "wait" ~> pc[t] # "wait"

=============================================================================
