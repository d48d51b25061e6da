------------------------------ MODULE Servers ------------------------------
(***************************************************************************)
(* The calls that talk to several servers: memcached_version,              *)
(* memcached_flush, memcached_stat, memcached_verbosity, memcached_dump,   *)
(* memcached_mget over servers and replicas, and memcached_fetch_result,   *)
(* which takes what arrives first (version.cc, flush.cc, stats.cc,         *)
(* verbosity.cc, instance.cc, dump.cc, get.cc, fetch.cc, io.cc).           *)
(*                                                                         *)
(* The library works on one instance at a time.  The variables of module   *)
(* Pipeline are those of the instance cur; others holds the connections of *)
(* the other instances, on which only the servers act meanwhile.           *)
(***************************************************************************)
EXTENDS Pipeline, FiniteSets

VARIABLES
    cur,     \* the instance that Pipeline's variables describe
    others,  \* the connections of the other ones; 0: see EachSend
    job      \* local variables of the call that goes over the servers

svars == << vars, cur, others, job >>
connection == << net, buffers, known >>

N == client.servers
Keys == DOMAIN client.homes

Here ==
    [fd |-> fd, peer |-> peer, wire |-> wire, back |-> back, wbuf |-> wbuf,
     rbuf |-> rbuf, bytes |-> bytes, cursor |-> cursor, version |-> version,
     written |-> written, received |-> received]

NewConn ==
    [fd |-> FALSE, peer |-> FALSE, wire |-> << >>, back |-> << >>,
     wbuf |-> << >>, rbuf |-> << >>, bytes |-> 0, cursor |-> 0,
     version |-> FALSE, written |-> << >>, received |-> << >>]

Conn(s) == IF s = cur THEN Here ELSE others[s]

(* memcached_instance_fetch                                                *)
Select(s) ==
    \/ s = cur /\ UNCHANGED << cur, others, connection >>
    \/ /\ s # cur
       /\ cur' = s
       /\ others' = [others EXCEPT ![cur] = Here, ![s] = NewConn]
       /\ LET c == others[s]
          IN  /\ fd' = c.fd /\ peer' = c.peer
              /\ wire' = c.wire /\ back' = c.back
              /\ wbuf' = c.wbuf /\ rbuf' = c.rbuf
              /\ bytes' = c.bytes /\ cursor' = c.cursor
              /\ version' = c.version
              /\ written' = c.written /\ received' = c.received

NewJob ==
    [x |-> 1, slab |-> 1, replica |-> 0, start |-> 0, success |-> TRUE,
     sent |-> {}, dead |-> {}, lost |-> FALSE, errors |-> FALSE,
     asked |-> {}, answered |-> {}, count |-> 0, last |-> "none",
     rc |-> "none"]

SInit ==
    /\ Init
    /\ cur = 1
    /\ others = [s \in 0 .. N |-> NewConn]
    /\ job = NewJob

-----------------------------------------------------------------------------
(* Steps of a call: another activation, on s or on the instance at hand,   *)
(* or the next place.                                                      *)
Call(s, l, f) ==
    /\ Select(s)
    /\ Invoke(l, f)
    /\ UNCHANGED << purging, ok, api >>

CallHere(l, f) ==
    /\ Invoke(l, f)
    /\ UNCHANGED << cur, others, connection, purging, ok, api >>

Stay(l) ==
    /\ Goto(l)
    /\ UNCHANGED << cur, others, connection, purging, ok, api >>

(* The same on the instance at hand, whose counter becomes n.              *)
StayWith(l, n) ==
    /\ Goto(l)
    /\ cursor' = n
    /\ UNCHANGED << cur, others, net, wbuf, rbuf, bytes, known, purging, ok,
                    api >>

SendVdo(kind) == [Frame("vdo") EXCEPT !.req = Request(kind)]

NextX == job' = [job EXCEPT !.x = @ + 1]

-----------------------------------------------------------------------------
(* memcached_io_get_readable_server                                        *)
Buffered == {s \in 1 .. N : Conn(s).rbuf # << >>}
Pending == {s \in 1 .. N : Conn(s).cursor > 0}
Ready == {s \in Pending : Conn(s).fd /\ (Conn(s).back # << >> \/ ~Conn(s).peer)}

(* Data in a buffer come first, a single instance is read without a poll,  *)
(* else it is the first one that poll reports.                             *)
memcached_io_get_readable_server(s) ==
    IF Buffered # {} THEN s = Min(Buffered) ELSE
    IF Cardinality(Pending) < 2 THEN s \in Pending
    ELSE Ready # {} /\ s = Min(Ready)

(* NULL: nothing is owed, or poll has timed out.                           *)
NoneReadable ==
    /\ Buffered = {}
    /\ \/ Pending = {}
       \/ Cardinality(Pending) > 1 /\ Ready = {} /\ "read" \in client.timeouts

Collect(l, got) ==
    /\ At(l)
    /\ \E s \in 1 .. N :
          /\ memcached_io_get_readable_server(s)
          /\ Call(s, got, Frame("response"))
    /\ UNCHANGED job

-----------------------------------------------------------------------------
(* memcached_version: a version that is known is not asked for again.      *)
(* memcached_dump and memcached_stat_execute begin with it, and go on      *)
(* whatever has failed.                                                    *)
AfterVersion ==
    CASE call.api = "version" -> "end"
      [] call.api = "dump" -> "dump"
      [] call.api = "stat_execute" -> "each"

VersionSend ==
    /\ At("version")
    /\ \/ /\ job.x > N
          /\ Stay(IF job.asked = {} THEN AfterVersion ELSE "version_read")
          /\ job' = [job EXCEPT !.x = 1]
       \/ /\ job.x <= N /\ Conn(job.x).version
          /\ Stay("version") /\ NextX
       \/ /\ job.x <= N /\ ~Conn(job.x).version
          /\ Call(job.x, "version_sent", SendVdo("version"))
          /\ UNCHANGED job

VersionSent ==
    /\ At("version_sent")
    /\ Stay("version")
    /\ job' = [job EXCEPT !.x = @ + 1, !.errors = @ \/ ~ok,
                          !.asked = IF ok THEN @ \union {cur} ELSE @]

VersionRead == Collect("version_read", "version_got")

(* Fault: a reply that cannot be read is no error.                         *)
VersionGotAnyhow ==
    /\ At("version_got")
    /\ Stay("version_read")
    /\ UNCHANGED job

VersionGot ==
    /\ At("version_got")
    /\ Stay("version_read")
    /\ job' = [job EXCEPT !.errors = @ \/ ~ok]

VersionEnd ==
    /\ At("version_read") /\ NoneReadable
    /\ Stay(AfterVersion)
    /\ UNCHANGED job

-----------------------------------------------------------------------------
(* memcached_flush with the text protocol, memcached_stat(_execute) and    *)
(* memcached_verbosity: one server after the other.  memcached_verbosity   *)
(* connects anew, by a handle of its own whose only instance is others[0]. *)
Instance == IF call.api = "verbosity" THEN 0 ELSE job.x

EachRequest ==
    CASE call.api \in {"stat", "stat_execute"} -> "stat"
      [] call.api = "flush" -> StorageKind
      [] call.api = "verbosity" -> "plain"

EachSend ==
    /\ At("each")
    /\ \/ job.x > N /\ Stay("end") /\ UNCHANGED job
       \/ /\ job.x <= N
          /\ Call(Instance, "each_sent", SendVdo(EachRequest))
          /\ UNCHANGED job

EachNext == IF call.api = "verbosity" THEN "each_free" ELSE "each"

(* binary_stats_fetch takes its request off the counter.                   *)
EachSent ==
    /\ At("each_sent")
    /\ \/ /\ ok /\ EachRequest # "quiet"
          /\ Invoke("each_got", Frame("response"))
          /\ cursor' = IF client.binary THEN Decrement ELSE cursor
          /\ UNCHANGED << cur, others, net, wbuf, rbuf, bytes, known,
                          purging, ok, api, job >>
       \/ /\ ~ok \/ EachRequest = "quiet"
          /\ Stay(EachNext)
          /\ job' = [job EXCEPT !.x = @ + 1, !.errors = @ \/ ~ok]

(* The lines of statistics up to END, which resets the counter of a binary *)
(* connection.  With the text protocol ERROR is the end of all             *)
(* (MEMCACHED_INVALID_ARGUMENTS), CLIENT_ERROR is not.                     *)
EachGot ==
    /\ At("each_got")
    /\ \/ /\ ok /\ reply.what = "VALUE"
          /\ CallHere("each_got", Frame("response"))
          /\ UNCHANGED job
       \/ /\ ~ok \/ reply.what # "VALUE"
          /\ LET refused == ok /\ EachRequest = "stat" /\ reply.what = "ANSWER"
                 ends == ok /\ reply.what = "END"
             IN  /\ \E l \in {EachNext} \union
                       IF refused /\ ~client.binary THEN {"end"} ELSE {} :
                       StayWith(l, IF client.binary /\ ends THEN 0 ELSE cursor)
                 /\ job' = [job EXCEPT
                      !.x = @ + 1, !.errors = @ \/ ~ok \/ refused,
                      !.answered = IF ok THEN @ \union {job.x} ELSE @]

(* memcached_free of the handle of memcached_verbosity.                    *)
EachFree ==
    /\ At("each_free")
    /\ CallHere("each", Frame("quit"))
    /\ UNCHANGED job

(* memcached_flush with the binary protocol: all requests, then a reply of *)
(* each, whatever it is.                                                   *)
FlushSend ==
    /\ At("flush_send")
    /\ \/ /\ job.x > N
          /\ Stay("flush_read")
          /\ job' = [job EXCEPT !.x = 1]
       \/ /\ job.x <= N
          /\ Call(job.x, "flush_sent", SendVdo(StorageKind))
          /\ UNCHANGED job

FlushSent ==
    /\ At("flush_sent")
    /\ Stay("flush_send")
    /\ job' = [job EXCEPT !.x = @ + 1, !.errors = @ \/ ~ok]

FlushRead ==
    /\ At("flush_read")
    /\ \/ job.x > N /\ Stay("end") /\ UNCHANGED job
       \/ /\ job.x <= N /\ Conn(job.x).cursor = 0
          /\ Stay("flush_read") /\ NextX
       \/ /\ job.x <= N /\ Conn(job.x).cursor > 0
          /\ Call(job.x, "flush_read", Frame("response")) /\ NextX

-----------------------------------------------------------------------------
(* memcached_dump, after memcached_version: every slab class of every      *)
(* server.  Class 2 stands for those above 63, which a server whose        *)
(* version is known (and is at least 1.4.23) is not asked for.             *)
MaxSlab == 2

DumpSend ==
    /\ At("dump")
    /\ \/ /\ job.x > N
          /\ Stay("dump_read") /\ UNCHANGED job
       \/ /\ job.x <= N /\ job.slab = MaxSlab /\ Conn(job.x).version
          /\ Stay("dump") /\ NextX
       \/ /\ job.x <= N /\ ~(job.slab = MaxSlab /\ Conn(job.x).version)
          /\ Call(job.x, "dump_sent", SendVdo("stat"))
          /\ UNCHANGED job

(* A server that cannot be asked ends the call; what the others have been  *)
(* asked is left unread.                                                   *)
DumpSent ==
    /\ At("dump_sent")
    /\ Stay(IF ok THEN "dump" ELSE "end")
    /\ job' = [job EXCEPT !.x = @ + 1, !.errors = @ \/ ~ok]

DumpRead == Collect("dump_read", "dump_got")

(* An ITEM for the callbacks, END, an illegal slab class (which clears the *)
(* errors), or another error.                                              *)
DumpGot ==
    /\ At("dump_got")
    /\ \/ /\ ok /\ reply.what # "ANSWER"
          /\ Stay("dump_read") /\ UNCHANGED job
       \/ /\ ok /\ reply.what = "ANSWER"
          /\ Stay("dump_read") /\ job' = [job EXCEPT !.errors = FALSE]
       \/ /\ ~ok \/ reply.what = "ANSWER"
          /\ Stay("end") /\ job' = [job EXCEPT !.errors = TRUE]

DumpNext ==
    /\ At("dump_read") /\ NoneReadable
    /\ \/ /\ job.slab < MaxSlab
          /\ Stay("dump")
          /\ job' = [job EXCEPT !.x = 1, !.slab = @ + 1]
       \/ job.slab = MaxSlab /\ Stay("end") /\ UNCHANGED job

-----------------------------------------------------------------------------
(* memcached_mget: the replies that are owed are read first.               *)
DrainAll ==
    /\ At("drain_all")
    /\ \/ /\ job.x > N
          /\ Stay(IF Replicated THEN "replica" ELSE "mget_key")
          /\ job' = [job EXCEPT !.x = 1]
       \/ /\ job.x <= N /\ Conn(job.x).cursor = 0
          /\ Stay("drain_all") /\ NextX
       \/ /\ job.x <= N /\ Conn(job.x).cursor > 0
          /\ Call(job.x, "draining_all",
                  IF client.no_block \/ client.buffering THEN Flush
                  ELSE Frame("response"))
          /\ UNCHANGED job

DrainingAll ==
    /\ At("draining_all")
    /\ \/ /\ cursor > 0
          /\ CallHere("draining_all", Frame("response")) /\ UNCHANGED job
       \/ cursor = 0 /\ Stay("drain_all") /\ NextX

(* Without replicas: the loop over the keys.  With the text protocol the   *)
(* further keys of a server are added to its request.                      *)
MgetKey ==
    /\ At("mget_key")
    /\ \/ /\ job.x > Len(client.homes)
          /\ Stay("mget_end") /\ job' = [job EXCEPT !.x = 1]
       \/ /\ job.x <= Len(client.homes)
          /\ Select(client.homes[job.x])
          /\ Goto("mget_connect")
          /\ UNCHANGED << purging, ok, api, job >>

MgetConnect ==
    /\ At("mget_connect")
    /\ \/ /\ client.binary \/ cursor = 0
          /\ Connect
          /\ Invoke("mget_sent",
                    Writev(IF client.binary THEN KeyRequest("getkq", job.x)
                           ELSE Request("mget"), FALSE))
          /\ UNCHANGED << purging, ok, api, cur, others, job >>
       \/ /\ cursor = 0 /\ ~fd
          /\ Stay("mget_key")
          /\ NextX
       \/ /\ ~client.binary /\ cursor > 0
          /\ Stay("mget_key")
          /\ job' = [job EXCEPT !.x = @ + 1, !.sent = @ \union {job.x}]

(* "We just want one pending response per server"                          *)
MgetSent ==
    /\ At("mget_sent")
    /\ StayWith("mget_key", IF ok THEN 1 ELSE 0)
    /\ job' = [job EXCEPT !.x = @ + 1, !.lost = @ \/ ~ok,
                          !.sent = IF ok THEN @ \union {job.x} ELSE @]

(* The requests are flushed, with the binary protocol by a NOOP.           *)
MgetEnd ==
    /\ At("mget_end")
    /\ \/ job.x > N /\ Stay("end") /\ UNCHANGED job
       \/ /\ job.x <= N /\ Conn(job.x).cursor = 0
          /\ Stay("mget_end") /\ NextX
       \/ /\ job.x <= N /\ Conn(job.x).cursor > 0
          /\ Call(job.x, IF client.binary THEN "mget_noop" ELSE "mget_flushed",
                  Flush)
          /\ UNCHANGED job

MgetNoop ==
    /\ At("mget_noop") /\ ok
    /\ CallHere("mget_flushed", Writev(Request("noop"), TRUE))
    /\ UNCHANGED job

MgetFlushed ==
    /\ At("mget_flushed") \/ (At("mget_noop") /\ ~ok)
    /\ IF client.binary /\ ~ok THEN Close ELSE UNCHANGED connection
    /\ Goto("mget_end")
    /\ job' = [job EXCEPT !.x = @ + 1, !.lost = @ \/ ~ok]
    /\ UNCHANGED << cur, others, purging, ok, api >>

-----------------------------------------------------------------------------
(* replication_binary_mget: the server of key k in the loop for a replica. *)
ReplicaOf(k, replica) ==
    LET start == IF replica + job.start <= client.number_of_replicas
                 THEN job.start ELSE 0
    IN  ((client.homes[k] - 1 + replica + start) % N) + 1

Replicas(k) == {ReplicaOf(k, r) : r \in 0 .. client.number_of_replicas}

(* A key that is sent is skipped, and so is a server that is dead; another *)
(* round is made only if a request has failed in this one.                 *)
ReplicaKey ==
    /\ At("replica")
    /\ \/ /\ job.x > Len(client.homes)
          /\ IF job.success \/ job.replica = client.number_of_replicas
             THEN Stay("end") /\ UNCHANGED job
             ELSE /\ Stay("replica")
                  /\ job' = [job EXCEPT !.x = 1, !.replica = @ + 1,
                                        !.success = TRUE]
       \/ /\ job.x <= Len(client.homes)
          /\ LET s == ReplicaOf(job.x, job.replica) IN
             \/ /\ job.x \in job.sent \/ s \in job.dead
                /\ Stay("replica") /\ NextX
             \/ /\ job.x \notin job.sent /\ s \notin job.dead
                /\ Select(s)
                /\ Goto("replica_connect")
                /\ UNCHANGED << purging, ok, api, job >>

(* Fault: the round counts as a success all the same.                      *)
ReplicaFailsQuietly ==
    /\ Close
    /\ Goto("replica")
    /\ job' = [job EXCEPT !.x = @ + 1, !.dead = @ \union {cur},
                          !.lost = @ \/ At("replica_sent")]
    /\ UNCHANGED << cur, others, purging, ok, api >>

(* memcached_io_reset forgets the replies to earlier keys as well.         *)
ReplicaFails ==
    /\ Close
    /\ Goto("replica")
    /\ job' = [job EXCEPT !.x = @ + 1, !.dead = @ \union {cur},
                          !.success = FALSE, !.lost = @ \/ At("replica_sent")]
    /\ UNCHANGED << cur, others, purging, ok, api >>

ReplicaConnect ==
    /\ At("replica_connect")
    /\ \/ /\ Connect
          /\ Invoke("replica_sent", Writev(KeyRequest("getk", job.x), TRUE))
          /\ UNCHANGED << purging, ok, api, cur, others, job >>
       \/ cursor = 0 /\ ~fd /\ ReplicaFails

ReplicaSent ==
    /\ At("replica_sent")
    /\ \/ /\ ok
          /\ StayWith("replica", cursor + 1)
          /\ job' = [job EXCEPT !.x = @ + 1, !.sent = @ \union {job.x}]
       \/ ~ok /\ ReplicaFails

-----------------------------------------------------------------------------
(* memcached_fetch_result: the next result, from whichever server it is.   *)
FetchAny == Collect("fetch_any", "fetch_got")

(* A value is returned at once; a server that fails does not hold up the   *)
(* others.  (Replies of other kinds, which end the loop, do not come here.) *)
FetchGot ==
    /\ At("fetch_got")
    /\ LET what == IF ok THEN reply.what ELSE "FAILED"
           keys == CASE what = "END" -> {k \in job.sent : client.homes[k] = cur}
                     [] what \in {"VALUE", "NOTFOUND"} -> {reply.key}
                     [] OTHER -> {}
       IN  /\ StayWith(IF what = "VALUE" THEN "end" ELSE "fetch_any",
                       IF what = "END" THEN 0 ELSE cursor)
           /\ job' = [job EXCEPT
                !.errors = @ \/ ~ok, !.last = what,
                !.answered = @ \union keys,
                !.count = IF what = "VALUE" THEN 1 ELSE @,
                !.rc = IF what = "VALUE" THEN "SUCCESS" ELSE @]

(* Fault: a connection that was lost is forgotten.                         *)
FetchResultQuiet == IF job.count = 0 THEN "NOTFOUND" ELSE "END"

(* What the end of the results is called; all failures are called          *)
(* CONNECTION_FAILURE.                                                     *)
FetchResult ==
    IF job.last \in {"none", "NOTFOUND"} /\ job.count > 0 THEN "END" ELSE
    IF job.last = "none" THEN "NOTFOUND" ELSE
    IF job.errors THEN "CONNECTION_FAILURE" ELSE
    IF job.count = 0 THEN "NOTFOUND" ELSE "END"

FetchNone ==
    /\ At("fetch_any") /\ NoneReadable
    /\ Stay("end")
    /\ job' = [job EXCEPT !.rc = FetchResult]

-----------------------------------------------------------------------------
(* Calls begin, with no reply to earlier ones unread if this client does   *)
(* not make calls then, and end.                                           *)
StartJob(c, l) ==
    /\ StartCall(c, l)
    /\ client.pending \/ Pending = {}
    /\ \E start \in IF client.randomize THEN 0 .. client.number_of_replicas ELSE {0} :
          job' = [NewJob EXCEPT !.start = start]
    /\ UNCHANGED << cur, others, connection >>

StartVersion == StartJob("version", "version")
StartFlush == StartJob("flush", IF client.binary THEN "flush_send" ELSE "each")
StartStat == StartJob("stat", "each")
StartStatExecute == StartJob("stat_execute", "version")
StartVerbosity == StartJob("verbosity", "each")
StartDump == StartJob("dump", "version")
StartMget == StartJob("mget_all", "drain_all")

StartFetchAny ==
    /\ stack = << >>
    /\ "fetch_any" \in client.calls /\ fetching # 0
    /\ call' = [api |-> "fetch_any", id |-> fetching]
    /\ stack' = << Frame("fetch_any") >>
    /\ job' = [job EXCEPT !.errors = FALSE, !.last = "none", !.rc = "none"]
    /\ UNCHANGED << connection, cur, others, purging, ok, reply, client, calls,
                    fetching >>

(* A set for a key of server s.                                            *)
StartOn(s) ==
    /\ N > 1
    /\ client.pending \/ Pending = {}
    /\ Select(s)
    /\ StartCall("set", "vdo")
    /\ job' = NewJob

JobEnd ==
    /\ At("end")
    /\ Return(~job.errors)
    /\ fetching' = IF call.api = "mget_all" THEN call.id ELSE
                   IF job.rc = "SUCCESS" THEN fetching ELSE 0
    /\ job' = IF fetching' # 0 THEN job ELSE NewJob
    /\ UNCHANGED << cur, others, connection, purging, reply, call, client,
                    calls >>

-----------------------------------------------------------------------------
(* The servers that the client is not looking at.                          *)
ServeOther(s) ==
    LET c == others[s]
    IN  /\ c.fd /\ c.peer /\ c.wire # << >>
        /\ \E a \in Answers(Head(c.wire)) :
              /\ Len(c.back) + Len(a) <= client.back_room
              /\ others' = [others EXCEPT ![s] =
                    [c EXCEPT !.back = @ \o a, !.wire = Tail(@),
                              !.received = Append(@, Head(c.wire))]]
        /\ UNCHANGED << vars, cur, job >>

DropOther(s) ==
    /\ client.drops /\ others[s].fd /\ others[s].peer
    /\ \E b \in {others[s].back, << >>} :
          others' = [others EXCEPT ![s] =
             [others[s] EXCEPT !.peer = FALSE, !.wire = << >>, !.back = b]]
    /\ UNCHANGED << vars, cur, job >>

-----------------------------------------------------------------------------
SBegin ==
    \/ StartVersion \/ StartFlush \/ StartStat \/ StartStatExecute
    \/ StartVerbosity \/ StartDump \/ StartMget \/ StartFetchAny
    \/ \E s \in 1 .. N : StartOn(s)

JobStep ==
    \/ VersionSend \/ VersionSent \/ VersionRead \/ VersionGot \/ VersionEnd
    \/ EachSend \/ EachSent \/ EachGot \/ EachFree
    \/ FlushSend \/ FlushSent \/ FlushRead
    \/ DumpSend \/ DumpSent \/ DumpRead \/ DumpGot \/ DumpNext
    \/ DrainAll \/ DrainingAll \/ MgetKey \/ MgetConnect \/ MgetSent
    \/ MgetEnd \/ MgetNoop \/ MgetFlushed
    \/ ReplicaKey \/ ReplicaConnect \/ ReplicaSent
    \/ FetchAny \/ FetchGot \/ FetchNone \/ JobEnd

(* What module Pipeline does with the instance at hand.                    *)
One(A) == A /\ UNCHANGED << cur, others, job >>

SStep == One(Step) \/ JobStep
SServe == One(Serve) \/ \E s \in 1 .. N : s # cur /\ ServeOther(s)

SNext ==
    \/ N = 1 /\ One(Begin)
    \/ SBegin \/ SStep \/ SServe
    \/ One(Drop) \/ \E s \in 1 .. N : s # cur /\ DropOther(s)
    \/ One(Done)

SSpec == SInit /\ [][SNext]_svars

(* A call in progress goes on, and the servers answer what they have read. *)
SFairSpec == SSpec /\ WF_svars(SStep) /\ WF_svars(SServe)

-----------------------------------------------------------------------------
(* memcached_version, memcached_stat, memcached_verbosity and, with the    *)
(* text protocol, memcached_flush return MEMCACHED_SUCCESS only if every   *)
(* server has answered, however many are lost on the way.  (A poll that    *)
(* times out with two replies owed ends memcached_version without an       *)
(* error.)                                                                 *)
SuccessMeansAll ==
    At("end") /\ ~job.errors /\ client.timeouts = {} =>
       CASE call.api = "version" -> \A s \in 1 .. N : Conn(s).version
         [] call.api \in {"stat", "verbosity"}
            \/ (call.api = "flush" /\ ~client.binary /\ ~client.no_reply)
                -> job.answered = 1 .. N
         [] OTHER -> TRUE

(* A replicated get asks another replica for the keys of a server that     *)
(* does not answer, if it is the only one (replication_binary_mget).       *)
EveryReplicaTried ==
    At("end") /\ call.api = "mget_all" /\ Replicated /\ ~client.randomize
      /\ (\A s, t \in job.dead : s = t)
    => \A k \in Keys : k \in job.sent \/ Replicas(k) \subseteq job.dead

(* MEMCACHED_NOTFOUND is "a definitive NOT_FOUND from all servers"         *)
(* (fetch.cc) if memcached_mget has sent all keys without an error: no     *)
(* connection that is lost later makes a key look absent.                  *)
Definitive ==
    At("end") /\ call.api = "fetch_any" /\ job.rc = "NOTFOUND"
      /\ job.sent = Keys /\ ~job.lost /\ client.timeouts = {}
    => job.answered = Keys
=============================================================================
