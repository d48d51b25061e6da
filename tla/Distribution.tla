---------------------------- MODULE Distribution ----------------------------
(***************************************************************************)
(* The servers of a memcached_st and which of them a key belongs to:       *)
(* hosts.cc, hash.cc, virtual_bucket.cc, key.cc and the parts of           *)
(* instance.cc, server.cc, server_list.cc and libhashkit they use.         *)
(*                                                                         *)
(* Every operator takes the handle m, a record of module Handle.  A string *)
(* that is hashed is a sequence of numbers, one for each of its parts (a   *)
(* host name, a port, a key...); a hash function is a parameter.  Host     *)
(* names are numbers, ordered as strcmp orders them.  Positions in the     *)
(* list of servers count from 1, from 0 in the code.  Of next_retry it is  *)
(* kept whether it was never set, is ahead of the clock, or has passed.    *)
(* Memory allocation does not fail.                                        *)
(***************************************************************************)
EXTENDS Integers, FiniteSets, Sequences, Functions, TLC

CONSTANTS
    Digest(_, _),           \* a hash algorithm applied to a string
    Signature(_, _),        \* one of the four words of the MD5 of a string
    PointsPerServer,        \* MEMCACHED_POINTS_PER_SERVER
    PointsPerServerKetama,  \* MEMCACHED_POINTS_PER_SERVER_KETAMA
    ContinuumAddition,      \* MEMCACHED_CONTINUUM_ADDITION
    DefaultPort,            \* MEMCACHED_DEFAULT_PORT
    MaxKey                  \* MEMCACHED_MAX_KEY

ASSUME ContinuumAssumption ==
    /\ PointsPerServer \in Nat /\ PointsPerServerKetama \in Nat
    /\ ContinuumAddition \in Nat
    /\ DefaultPort \in Nat

Distributions == {"MODULA", "CONSISTENT", "CONSISTENT_KETAMA", "RANDOM",
                  "CONSISTENT_KETAMA_SPY", "CONSISTENT_WEIGHTED",
                  "VIRTUAL_BUCKET"}

Hashes == {"DEFAULT", "MD5"}  \* two of the algorithms of libhashkit

(* A server as a program or a configuration string describes it.           *)
Server == [hostname : Nat, port : Nat, weight : Nat, type : {"TCP", "UNIX_SOCKET"}]

Ok(m) == [m |-> m, rc |-> "SUCCESS"]
Refused(m, rc) == [m |-> m, rc |-> rc]

memcached_is_consistent_distribution(m) ==
    m.distribution \in {"CONSISTENT", "CONSISTENT_KETAMA",
                        "CONSISTENT_KETAMA_SPY", "CONSISTENT_WEIGHTED"}

-----------------------------------------------------------------------------
(* The continuum.                                                          *)

compare_servers(a, b) ==
    \/ a.hostname < b.hostname
    \/ a.hostname = b.hostname /\ a.port < b.port

(* Servers that compare as equal keep their order: the C library merges.   *)
precedes(servers, i, j) ==
    \/ compare_servers(servers[i], servers[j])
    \/ ~compare_servers(servers[j], servers[i]) /\ i < j

Rank(servers, i) == Cardinality({j \in DOMAIN servers : precedes(servers, j, i)}) + 1

(* qsort: every server goes to the place of its rank.                      *)
InOrder(servers) ==
    [k \in DOMAIN servers |-> servers[CHOOSE i \in DOMAIN servers : Rank(servers, i) = k]]

sort_hosts(m) == [m EXCEPT !.servers = InOrder(m.servers)]

continuum_item_cmp(a, b) ==
    \/ a.value < b.value
    \/ a.value = b.value /\ a.index < b.index

SortedPoints(points) == SortSeq(points, continuum_item_cmp)

(* The points one server after another.                                    *)
Concatenated(lists) ==
    LET upto[n \in 0..Len(lists)] == IF n = 0 THEN << >> ELSE upto[n - 1] \o lists[n]
    IN  upto[Len(lists)]

Live(m) ==
    {i \in DOMAIN m.servers :
        ~m.flags.auto_eject_hosts \/ m.servers[i].next_retry # "ahead"}

(* The string hashed for the n-th point of server s.                       *)
sort_host(m, s, n) ==
    CASE m.distribution = "CONSISTENT_KETAMA_SPY" -> << 0, s.hostname, s.port, n >>
      [] OTHER -> IF s.port = DefaultPort THEN << s.hostname, n >>
                  ELSE << s.hostname, s.port, n >>

(* Four points come from one hash when the servers are weighted.  The      *)
(* product of fractions in the code is computed without rounding.          *)
pointer_per_server(m, i) ==
    LET total == SumFunctionOnSet([j \in DOMAIN m.servers |-> m.servers[j].weight], Live(m))
    IN  IF m.weighted
        THEN 4 * ((m.servers[i].weight * PointsPerServerKetama * Cardinality(Live(m)))
                    \div (4 * total))
        ELSE PointsPerServer

PointsOf(m, i) ==
    [n \in 1..pointer_per_server(m, i) |->
        [index |-> i,
         value |-> IF m.weighted
                   THEN Signature(sort_host(m, m.servers[i], (n - 1) \div 4), (n - 1) % 4)
                   ELSE Digest(m.base_hash, sort_host(m, m.servers[i], n - 1))]]

AllPoints(m) ==
    Concatenated([i \in DOMAIN m.servers |-> IF i \in Live(m) THEN PointsOf(m, i) ELSE << >>])

(* Fault: the array is sized for servers without weights.                  *)
continuum_count_unweighted(m) ==
    LET continuum_limit == Cardinality(Live(m)) * PointsPerServer
    IN  IF continuum_limit > m.continuum_count
        THEN continuum_limit + ContinuumAddition * PointsPerServer
        ELSE m.continuum_count

(* How many items the array has room for after update_continuum.           *)
continuum_count(m) ==
    LET points_per_server == IF m.weighted THEN PointsPerServerKetama ELSE PointsPerServer
        continuum_limit == Cardinality(Live(m)) * points_per_server
    IN  IF continuum_limit > m.continuum_count
        THEN continuum_limit + ContinuumAddition * points_per_server
        ELSE m.continuum_count

(* Fault: the points are not sorted.                                       *)
update_continuum_unsorted(m) ==
    IF Live(m) = {} THEN m
    ELSE [m EXCEPT !.continuum_count = continuum_count(m),
                   !.continuum = AllPoints(m),
                   !.built_with = m.base_hash]

(* When every server waits for its retry the old continuum stays.          *)
update_continuum(m) ==
    IF Live(m) = {} THEN m
    ELSE [m EXCEPT !.continuum_count = continuum_count(m),
                   !.continuum = SortedPoints(AllPoints(m)),
                   !.built_with = m.base_hash]

run_distribution(m) ==
    LET sorted == IF m.flags.use_sort_hosts THEN sort_hosts(m) ELSE m
    IN  IF memcached_is_consistent_distribution(m) THEN update_continuum(sorted) ELSE sorted

-----------------------------------------------------------------------------
(* The list of servers.                                                    *)

(* _server_init of an instance.                                            *)
instance_create_with(hostname, port, weight, type) ==
    [hostname |-> hostname, port |-> port, type |-> type,
     weight |-> IF weight = 0 THEN 1 ELSE weight,
     next_retry |-> "never", socket |-> << >>]

(* server_add: the weights matter only when the distribution uses them.    *)
server_add(m, hostname, port, weight, type) ==
    run_distribution(
        [m EXCEPT !.servers = Append(@, instance_create_with(hostname, port, weight, type)),
                  !.weighted = \/ @
                               \/ weight > 1 /\ memcached_is_consistent_distribution(m)])

(* The defaults of a call; a file name makes a unix domain socket.         *)
memcached_server_add_with_weight(m, s) ==
    Ok(server_add(m, s.hostname, IF s.port = 0 THEN DefaultPort ELSE s.port, s.weight, s.type))

memcached_server_add_unix_socket_with_weight(m, s) ==
    Ok(server_add(m, s.hostname, 0, s.weight, "UNIX_SOCKET"))

(* The entry memcached_server_list_append_with_weight appends to a list.   *)
memcached_server_list_append_with_weight(s) ==
    LET port == IF s.type = "UNIX_SOCKET" THEN 0
                ELSE IF s.port = 0 THEN DefaultPort ELSE s.port
    IN  [hostname |-> s.hostname, port |-> port,
         weight |-> IF s.weight = 0 THEN 1 ELSE s.weight,
         type |-> IF port = 0 THEN "UNIX_SOCKET" ELSE "TCP"]

(* memcached_server_push and memcached_instance_push: instances are made   *)
(* anew of what the list says; here the weights count whatever the         *)
(* distribution is.  An empty list is NULL.                                *)
memcached_instance_push(m, list) ==
    IF list = << >> THEN m
    ELSE run_distribution(
           [m EXCEPT !.servers = @ \o [i \in DOMAIN list |->
                                          instance_create_with(list[i].hostname, list[i].port,
                                                               list[i].weight, list[i].type)],
                     !.weighted = @ \/ \E i \in DOMAIN list : list[i].weight > 1])

memcached_server_push(m, list) == Ok(memcached_instance_push(m, list))

memcached_servers_reset(m) ==
    [m EXCEPT !.continuum = << >>, !.continuum_count = 0, !.servers = << >>]

-----------------------------------------------------------------------------
(* The server of a key.                                                    *)

(* The binary search of dispatch_host: the first point that is not below   *)
(* the hash, the first of all if there is none.                            *)
ContinuumSearch(points, hash) ==
    LET n == Len(points)
        search[left \in 0..n, right \in 0..n] ==
            IF left >= right THEN right
            ELSE LET middle == left + (right - left) \div 2
                 IN  IF points[middle + 1].value < hash
                     THEN search[middle + 1, right]
                     ELSE search[left, middle]
        found == search[0, n]
    IN  points[IF found = n THEN 1 ELSE found + 1].index

(* The bitwise and of a digest and a number.                               *)
Masked(digest, mask) ==
    LET common == {k \in 0..mask : (digest \div 2^k) % 2 = 1 /\ (mask \div 2^k) % 2 = 1}
    IN  SumFunction([k \in common |-> 2^k])

memcached_virtual_bucket_get(m, digest) ==
    IF m.virtual_bucket # << >>
    THEN m.virtual_bucket[Masked(digest, Len(m.virtual_bucket) - 1) + 1]
    ELSE Masked(digest, Len(m.servers) - 1) + 1

(* The positions that may be the result; none stands for a read of an      *)
(* array that was never allocated.                                         *)
dispatch_host(m, hash) ==
    CASE memcached_is_consistent_distribution(m) ->
            IF m.continuum = << >> THEN {} ELSE {ContinuumSearch(m.continuum, hash)}
      [] m.distribution = "MODULA" -> {(hash % Len(m.servers)) + 1}
      [] m.distribution = "RANDOM" -> DOMAIN m.servers
      [] m.distribution = "VIRTUAL_BUCKET" -> {memcached_virtual_bucket_get(m, hash)}

(* _generate_hash_wrapper.                                                 *)
generate_hash_wrapper(m, key) ==
    CASE Len(m.servers) = 1 -> 0
      [] OTHER ->
            IF m.flags.hash_with_namespace
            THEN IF m.namespace.length + key.length > MaxKey - 1 THEN 0
                 ELSE Digest(m.base_hash, m.namespace.name \o << key.name >>)
            ELSE Digest(m.base_hash, << key.name >>)

memcached_generate_hash(m, key) == dispatch_host(m, generate_hash_wrapper(m, key))

(* memcached_validate_key_length and memcached_key_test on one key.        *)
memcached_key_test(m, key) ==
    IF \/ key.length = 0
       \/ key.length >= MaxKey
       \/ m.flags.verify_key /\ ~m.flags.binary_protocol /\ ~key.graphic
    THEN "BAD_KEY_PROVIDED"
    ELSE "SUCCESS"

memcached_server_by_key(m, key) ==
    CASE m.servers = << >> -> [rc |-> "NO_SERVERS", servers |-> {}]
      [] OTHER -> LET rc == memcached_key_test(m, key)
                  IN  [rc |-> rc,
                       servers |-> IF rc = "SUCCESS" THEN memcached_generate_hash(m, key) ELSE {}]
=============================================================================
