------------------------------- MODULE Handle -------------------------------
(***************************************************************************)
(* A program and its memcached_st.  A program is a list of servers to      *)
(* begin with, the calls it may make and how many of them it makes; what a *)
(* call does is defined in modules Distribution, Behavior and              *)
(* Configuration.                                                          *)
(***************************************************************************)
EXTENDS Configuration

CONSTANTS
    Keys,     \* keys to look up
    Programs  \* what programs do

Call ==
    [op : {"behavior_set"}, behavior : Behaviors, data : Data,
     name : Distributions \cup Hashes \cup {"MAX", ""}] \cup
    [op : {"callback_set"}, callback : Callbacks, data : Nat] \cup
    [op : {"set_namespace"}, key : Name] \cup
    [op : {"server_add"}, server : Server] \cup
    [op : {"server_push"}, list : Seq(Server)] \cup
    [op : {"bucket_set"}, host_map : Seq(Nat)] \cup
    [op : {"buffer_size"}, behavior : {"SOCKET_SEND_SIZE", "SOCKET_RECV_SIZE"}] \cup
    [op : {"parse", "memcached"}, string : Seq(Statement)] \cup
    [op : {"servers_reset", "reset", "clone", "quit", "request", "retry"}]

(* A program begins with a list of servers and makes max calls.            *)
ASSUME ProgramsAssumption ==
    Programs \subseteq [servers : Seq(Server), calls : SUBSET Call, max : Nat]

VARIABLES
    program,  \* the program that runs
    memc,     \* its memcached_st
    clone,    \* the last clone of it, Nobody if none
    last,     \* the last call and its result (history)
    made      \* how many calls were made; bound

vars == << program, memc, clone, last, made, parse >>

Nobody == [servers |-> << >>, distribution |-> "none"]

(* What the program sees of a call.                                        *)
Return(call, result) ==
    /\ made < program.max
    /\ made' = made + 1
    /\ memc' = result.m
    /\ last' = [op |-> call.op, call |-> call, rc |-> result.rc]
    /\ UNCHANGED program

Make(call, result) ==
    /\ parse = Idle
    /\ Return(call, result)
    /\ UNCHANGED parse

Calls(op) == {c \in program.calls : c.op = op}

BehaviorSet ==
    \E c \in Calls("behavior_set") :
        /\ Make(c, memcached_behavior_set(memc, c.behavior, c.data, c.name))
        /\ UNCHANGED clone

CallbackSet ==
    \E c \in Calls("callback_set") :
        /\ Make(c, memcached_callback_set(memc, c.callback, c.data))
        /\ UNCHANGED clone

SetNamespace ==
    \E c \in Calls("set_namespace") :
        /\ Make(c, memcached_set_namespace(memc, c.key))
        /\ UNCHANGED clone

ServerAdd ==
    \E c \in Calls("server_add") :
        /\ Make(c, IF c.server.type = "UNIX_SOCKET"
                   THEN memcached_server_add_unix_socket_with_weight(memc, c.server)
                   ELSE memcached_server_add_with_weight(memc, c.server))
        /\ UNCHANGED clone

ServerPush ==
    \E c \in Calls("server_push") :
        /\ Make(c, memcached_server_push(
                     memc, [i \in DOMAIN c.list |->
                              memcached_server_list_append_with_weight(c.list[i])]))
        /\ UNCHANGED clone

ServersReset ==
    \E c \in Calls("servers_reset") :
        /\ Make(c, Ok(memcached_servers_reset(memc)))
        /\ UNCHANGED clone

BucketSet ==
    \E c \in Calls("bucket_set") :
        /\ Make(c, memcached_bucket_set(memc, c.host_map))
        /\ UNCHANGED clone

Reset ==
    \E c \in Calls("reset") :
        /\ Make(c, Ok(memcached_reset(memc)))
        /\ UNCHANGED clone

Clone ==
    \E c \in Calls("clone") :
        /\ Make(c, Ok(memc))
        /\ clone' = memcached_clone(memc)

(* memcached_quit: nothing is done when there are no servers.              *)
Quit ==
    \E c \in Calls("quit") :
        /\ Make(c, IF memc.servers = << >> THEN Refused(memc, "NO_SERVERS")
                   ELSE Ok(send_quit(memc)))
        /\ UNCHANGED clone

(* memcached_parse_configuration on the handle of the program, or          *)
(* memcached() for a handle in its place.                                  *)
Configure ==
    /\ parse = Idle /\ made < program.max
    /\ \E c \in Calls("parse") \cup Calls("memcached") :
          memcached_parse_configuration(c, IF c.op = "parse" THEN memc ELSE memcached_create)
    /\ UNCHANGED << program, memc, clone, last, made >>

ParseStep ==
    /\ Parse
    /\ UNCHANGED << program, memc, clone, last, made >>

Configured ==
    /\ parse.status \in {"SUCCESS", "PARSE_ERROR"}
    /\ Return(parse.call, Parsed(memc))
    /\ parse' = Idle
    /\ UNCHANGED clone

(* A request connects the server it goes to.                               *)
Request ==
    \E c \in Calls("request"), i \in DOMAIN memc.servers :
        /\ Make(c, Ok(memcached_connect(memc, i)))
        /\ UNCHANGED clone

(* memcached_behavior_get of a buffer size left to the kernel connects the *)
(* first server, which may fail.                                           *)
BufferSizeGet ==
    \E c \in Calls("buffer_size"), success \in BOOLEAN :
        /\ Make(c, Ok(IF memc.numbers[c.behavior] = -1 /\ memc.servers # << >> /\ success
                      THEN memcached_connect(memc, 1) ELSE memc))
        /\ UNCHANGED clone

(* A server is marked for retry; the time of the retry passes.             *)
Retry ==
    \E c \in Calls("retry"), i \in DOMAIN memc.servers :
        /\ Make(c, Ok([memc EXCEPT !.servers[i].next_retry =
                                       IF @ = "ahead" THEN "passed" ELSE "ahead"]))
        /\ UNCHANGED clone

Init ==
    /\ program \in Programs
    /\ memc = memcached_server_push(memcached_create, program.servers).m
    /\ clone = Nobody
    /\ last = [op |-> "create", call |-> [op |-> "create"], rc |-> "SUCCESS"]
    /\ made = 0
    /\ parse = Idle

Next ==
    \/ BehaviorSet \/ CallbackSet \/ SetNamespace
    \/ ServerAdd \/ ServerPush \/ ServersReset \/ BucketSet
    \/ Reset \/ Clone \/ Quit \/ Request \/ BufferSizeGet \/ Retry
    \/ Configure \/ ParseStep \/ Configured

Spec == Init /\ [][Next]_vars

-----------------------------------------------------------------------------
(* Properties.                                                             *)

(* A connection in use was opened with the settings that are in force:     *)
(* every behaviour that changes the protocol or an option of the sockets   *)
(* closes the connections (send_quit in memcached_behavior_set), so no     *)
(* request is written in the new protocol to a connection of the old one.  *)
ConnectionsCurrent ==
    \A i \in DOMAIN memc.servers :
        LET s == memc.servers[i]
        IN  s.socket # << >> => s.socket = << SocketOf(memc, s) >>

(* The flags that exclude each other stay apart, in whatever order the     *)
(* behaviours are set: no replies are awaited and no requests buffered     *)
(* over UDP, and keys are not verified in the binary protocol.             *)
FlagsAgree ==
    \A m \in {memc} \cup (IF clone = Nobody THEN {} ELSE {clone}) :
        /\ m.flags.use_udp => ~m.flags.reply /\ ~m.flags.buffer_requests
        /\ m.flags.binary_protocol => ~m.flags.verify_key

(* The values of a number that its field of 32 bits can hold.              *)
Fits(b, data) ==
    IF b \in Signed THEN data < Word \div 2 \/ data >= Word * Word - Word \div 2
    ELSE data < Word

(* The behaviour a program has set is the one it reads back, whatever the  *)
(* value is kept in, for every value that fits in 32 bits                  *)
(* (memcached_behavior_set and memcached_behavior_get).                    *)
ReadsBack ==
    last.op = "behavior_set" /\ last.rc = "SUCCESS" =>
        LET b == last.call.behavior
        IN  CASE b \in Numbers ->
                    Fits(b, last.call.data) => GetNumber(memc, b) = last.call.data
              [] b \in {"DISTRIBUTION", "HASH", "KETAMA_HASH"} ->
                    GetName(memc, b) = last.call.name
              [] OTHER -> GetFlag(memc, b) = bool(last.call.data)

(* Nothing sets this continuum apart from one built now.                   *)
UpToDate(m) ==
    /\ m.built_with = m.base_hash
    /\ \A i \in DOMAIN m.servers : m.servers[i].next_retry = "never"

(* Three calls may be refused and change something: the statements before  *)
(* the one that fails stay in force when an existing handle is given a     *)
(* configuration string, an invalid hash sets the default hash             *)
(* (_set_function), and memcached_bucket_set without buckets sets the old  *)
(* distribution again, which forgets the weights of a CONSISTENT or        *)
(* CONSISTENT_KETAMA distribution and rebuilds a continuum that may be out *)
(* of date.                                                                *)
Exempt(call) ==
    \/ call.op = "parse"
    \/ call.op = "behavior_set" /\ call.behavior \in {"HASH", "KETAMA_HASH"}
    \/ /\ call.op = "bucket_set"
       /\ memcached_is_consistent_distribution(memc)
       /\ memc.weighted \/ ~UpToDate(memc)

(* Any other call of behavior.cc, callback.cc, hosts.cc or memcached.cc    *)
(* that is refused changes nothing in the handle.                          *)
RefusedChangesNothing ==
    [][last'.rc # "SUCCESS" /\ ~Exempt(last'.call) => memc' = memc]_vars

(* A key always has a server of the list, as long as the buckets name      *)
(* servers of the list and not every server was waiting for its retry      *)
(* when the continuum was first built.  The continuum never has more       *)
(* points than update_continuum made room for.                             *)
ServerInRange ==
    /\ Len(memc.continuum) <= memc.continuum_count
    /\ (/\ memc.servers # << >>
        /\ \A b \in DOMAIN memc.virtual_bucket :
              memc.virtual_bucket[b] \in DOMAIN memc.servers
        /\ \E i \in DOMAIN memc.servers : memc.servers[i].next_retry = "never")
       => \A key \in Keys :
            LET found == memcached_generate_hash(memc, key)
            IN  found # {} /\ found \subseteq DOMAIN memc.servers

Address(m, i) == << m.servers[i].hostname, m.servers[i].port >>
NamesOf(m, key) == {Address(m, i) : i \in memcached_generate_hash(m, key)}
Names(m) == {Address(m, i) : i \in DOMAIN m.servers}

(* Consistent hashing: when servers are added, a key stays with its server *)
(* or goes to a new one, never from one old server to another (server_add, *)
(* update_continuum and the search of dispatch_host).  That is without     *)
(* weights, which give every server a new share.                           *)
KeysMoveToNewServers ==
    [][ /\ last'.op \in {"server_add", "server_push"}
        /\ memc.servers # << >>
        /\ memcached_is_consistent_distribution(memc)
        /\ ~memc.weighted /\ ~memc'.weighted
        /\ UpToDate(memc)
        => \A key \in Keys :
              \/ NamesOf(memc', key) = NamesOf(memc, key)
              \/ NamesOf(memc', key) \subseteq Names(memc') \ Names(memc) ]_vars

(* A clone sends every key where its source sends it.  Left out are what   *)
(* memcached_clone does not copy: virtual buckets, weights that no server  *)
(* of the list asks for, and a continuum that is out of date.              *)
CloneCopies ==
    /\ last.op = "clone"
    /\ memc.virtual_bucket = << >>
    /\ memcached_is_consistent_distribution(memc) =>
          /\ UpToDate(memc)
          /\ memc.weighted = (\E i \in DOMAIN memc.servers : memc.servers[i].weight > 1)
    => \A key \in Keys :
          memcached_server_by_key(clone, key) = memcached_server_by_key(memc, key)

(* A clone sends every key where its source sends it.                      *)
CloneSendsAlike ==
    last.op = "clone" /\ UpToDate(memc) =>
        \A key \in Keys :
            memcached_server_by_key(clone, key) = memcached_server_by_key(memc, key)
=============================================================================
