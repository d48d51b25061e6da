------------------------------ MODULE Behavior ------------------------------
(***************************************************************************)
(* What the calls of a program do to its memcached_st: created, tuned by   *)
(* behaviours and callbacks, cloned, reset (memcached.cc, behavior.cc,     *)
(* callback.cc, namespace.cc).  The servers and the continuum are the      *)
(* subject of module Distribution, what goes over a connection that of     *)
(* Connect and Pipeline: here a connection is the settings it was opened   *)
(* with.                                                                   *)
(*                                                                         *)
(* Word stands for 2^32, so that Word^2 stands for 2^64: a behaviour's     *)
(* value is passed as uint64_t and kept in 32 bits.  A call gives a record *)
(* of the handle after it and its return code.                             *)
(***************************************************************************)
EXTENDS Distribution

CONSTANTS
    Word,          \* 2^32
    MaxNamespace   \* MEMCACHED_MAX_NAMESPACE

ASSUME WordAssumption == Word \in Nat /\ Word > 1

Data == 0..(Word * Word - 1)
Name == [name : Seq(Nat), length : Nat, graphic : BOOLEAN]
NoName == [name |-> << >>, length |-> 0, graphic |-> TRUE]

Unsigned == {"NUMBER_OF_REPLICAS", "IO_MSG_WATERMARK", "IO_BYTES_WATERMARK",
             "IO_KEY_PREFETCH", "SERVER_FAILURE_LIMIT", "SERVER_TIMEOUT_LIMIT",
             "TCP_KEEPIDLE"}
Signed == {"SND_TIMEOUT", "RCV_TIMEOUT", "POLL_TIMEOUT", "CONNECT_TIMEOUT",
           "RETRY_TIMEOUT", "DEAD_TIMEOUT", "SOCKET_SEND_SIZE", "SOCKET_RECV_SIZE"}
Numbers == Unsigned \cup Signed

Callbacks == {"USER_DATA", "CLEANUP_FUNCTION", "CLONE_FUNCTION", "GET_FAILURE",
              "DELETE_TRIGGER"}

uint32(data) == data % Word
int32(data) == IF uint32(data) < Word \div 2 THEN uint32(data) ELSE uint32(data) - Word
uint64(x) == IF x < 0 THEN x + Word * Word ELSE x
bool(data) == data # 0

(* _memcached_init and hashkit_create.  The defaults of the numbers are    *)
(* abstracted to one value, but for the buffer sizes the kernel chooses.   *)
memcached_create ==
    [flags |-> [auto_eject_hosts |-> FALSE, binary_protocol |-> FALSE,
                buffer_requests |-> FALSE, hash_with_namespace |-> FALSE,
                no_block |-> FALSE, reply |-> TRUE, randomize_replica_read |-> FALSE,
                support_cas |-> FALSE, tcp_nodelay |-> FALSE,
                use_sort_hosts |-> FALSE, use_udp |-> FALSE, verify_key |-> FALSE,
                tcp_keepalive |-> FALSE, is_fetching_version |-> FALSE],
     numbers |-> [b \in Numbers |->
                    IF b \in {"SOCKET_SEND_SIZE", "SOCKET_RECV_SIZE"} THEN -1 ELSE 1],
     distribution |-> "MODULA", base_hash |-> "DEFAULT", distribution_hash |-> "DEFAULT",
     weighted |-> FALSE, continuum |-> << >>, continuum_count |-> 0,
     built_with |-> "none",  \* the hash of the last rebuild (history)
     virtual_bucket |-> << >>, servers |-> << >>, namespace |-> NoName,
     filename |-> NoName, pool |-> [initial |-> 1, max |-> 1],
     callbacks |-> [c \in Callbacks |-> 0]]

(* send_quit: every connection is closed.                                  *)
send_quit(m) ==
    [m EXCEPT !.servers = [i \in DOMAIN m.servers |-> [m.servers[i] EXCEPT !.socket = << >>]]]

-----------------------------------------------------------------------------
(* memcached_behavior_set, in the order of its cases.                      *)

SetLimit(m, b, data) ==
    CASE b = "SERVER_FAILURE_LIMIT" /\ data = 0 -> Refused(m, "INVALID_ARGUMENTS")
      [] b = "REMOVE_FAILED_SERVERS" -> Ok([m EXCEPT !.flags.auto_eject_hosts = bool(data)])
      [] OTHER -> Ok([m EXCEPT !.numbers[b] = IF b \in Signed THEN int32(data)
                                              ELSE uint32(data)])

(* Fault: the connections of the old protocol stay open.                   *)
SetBinary_open(m, data) ==
    [m EXCEPT !.flags.verify_key = @ /\ ~bool(data),
              !.flags.binary_protocol = bool(data)]

(* Fault: keys may still be verified.                                      *)
SetBinary_verifies(m, data) ==
    [send_quit(m) EXCEPT !.flags.binary_protocol = bool(data)]

SetBinary(m, data) ==
    [send_quit(m) EXCEPT !.flags.verify_key = @ /\ ~bool(data),
                         !.flags.binary_protocol = bool(data)]

SetUdp(m, data) ==
    [send_quit(m) EXCEPT !.flags.use_udp = bool(data),
                         !.flags.reply = ~bool(data),
                         !.flags.buffer_requests = @ /\ ~bool(data)]

SetTransport(m, b, data) ==
    CASE b = "BINARY_PROTOCOL" -> Ok(SetBinary(m, data))
      [] b = "USE_UDP" -> Ok(SetUdp(m, data))
      [] b = "SUPPORT_CAS" -> Ok([m EXCEPT !.flags.support_cas = bool(data)])
      [] b = "NO_BLOCK" -> Ok(send_quit([m EXCEPT !.flags.no_block = bool(data)]))
      [] b = "BUFFER_REQUESTS" ->
            IF m.flags.use_udp THEN Refused(m, "INVALID_ARGUMENTS")
            ELSE Ok(send_quit([m EXCEPT !.flags.buffer_requests = bool(data)]))
      [] b = "TCP_NODELAY" -> Ok(send_quit([m EXCEPT !.flags.tcp_nodelay = bool(data)]))
      [] b = "TCP_KEEPALIVE" -> Ok(send_quit([m EXCEPT !.flags.tcp_keepalive = bool(data)]))

memcached_behavior_set_distribution(m, type) ==
    IF type \notin Distributions THEN Refused(m, "INVALID_ARGUMENTS")
    ELSE Ok(run_distribution(
            [m EXCEPT !.distribution = type,
                      !.weighted = CASE type \in {"CONSISTENT", "CONSISTENT_KETAMA"} -> FALSE
                                     [] type = "CONSISTENT_WEIGHTED" -> TRUE
                                     [] OTHER -> @]))

(* _set_function of libhashkit: MAX is refused, but sets the default.      *)
set_function(type) == IF type \in Hashes THEN type ELSE "DEFAULT"

memcached_behavior_set_key_hash(m, type) ==
    [m |-> [m EXCEPT !.base_hash = set_function(type)],
     rc |-> IF type \in Hashes THEN "SUCCESS" ELSE "INVALID_ARGUMENTS"]

memcached_behavior_set_distribution_hash(m, type) ==
    [m |-> [m EXCEPT !.distribution_hash = set_function(type)],
     rc |-> IF type \in Hashes THEN "SUCCESS" ELSE "INVALID_ARGUMENTS"]

(* A distribution or a hash is passed by its name.                         *)
SetPlacement(m, b, data, name) ==
    CASE b = "DISTRIBUTION" -> memcached_behavior_set_distribution(m, name)
      [] b = "KETAMA" ->
            memcached_behavior_set_distribution(m, IF bool(data) THEN "CONSISTENT_KETAMA"
                                                   ELSE "MODULA")
      [] b = "KETAMA_WEIGHTED" ->
            IF bool(data)
            THEN memcached_behavior_set_distribution(
                    memcached_behavior_set_distribution_hash(
                        memcached_behavior_set_key_hash(m, "MD5").m, "MD5").m,
                    "CONSISTENT_WEIGHTED")
            ELSE memcached_behavior_set_distribution(m, "CONSISTENT_KETAMA")
      [] b = "HASH" -> memcached_behavior_set_key_hash(m, name)
      [] b = "KETAMA_HASH" -> memcached_behavior_set_distribution_hash(m, name)
      [] b = "CACHE_LOOKUPS" -> Refused(m, "DEPRECATED")
      [] b = "VERIFY_KEY" ->
            IF m.flags.binary_protocol THEN Refused(m, "INVALID_ARGUMENTS")
            ELSE Ok([m EXCEPT !.flags.verify_key = bool(data)])
      [] b = "SORT_HOSTS" -> Ok(run_distribution([m EXCEPT !.flags.use_sort_hosts = bool(data)]))

SetTimeout(m, b, data) ==
    LET value == IF b \in Signed THEN int32(data) ELSE uint32(data)
        set == [m EXCEPT !.numbers[b] = value]
    IN  Ok(IF b \in {"SOCKET_SEND_SIZE", "SOCKET_RECV_SIZE", "TCP_KEEPIDLE"}
           THEN send_quit(set) ELSE set)

SetReading(m, b, data) ==
    CASE b = "HASH_WITH_PREFIX_KEY" -> Ok([m EXCEPT !.flags.hash_with_namespace = bool(data)])
      [] b = "NOREPLY" ->
            IF m.flags.use_udp /\ ~bool(data) THEN Refused(m, "INVALID_ARGUMENTS")
            ELSE Ok([m EXCEPT !.flags.reply = ~bool(data)])
      [] b = "AUTO_EJECT_HOSTS" -> Ok([m EXCEPT !.flags.auto_eject_hosts = bool(data)])
      [] b = "RANDOMIZE_REPLICA_READ" ->
            Ok([m EXCEPT !.flags.randomize_replica_read = bool(data)])
      [] b \in {"USER_DATA", "CORK"} -> Refused(m, "DEPRECATED")
      [] b = "LOAD_FROM_FILE" -> Refused(m, "INVALID_ARGUMENTS")

Limits == (Unsigned \ {"TCP_KEEPIDLE"}) \cup
          {"SND_TIMEOUT", "RCV_TIMEOUT", "REMOVE_FAILED_SERVERS"}
Transports == {"BINARY_PROTOCOL", "USE_UDP", "SUPPORT_CAS", "NO_BLOCK", "BUFFER_REQUESTS",
               "TCP_NODELAY", "TCP_KEEPALIVE"}
Placements == {"DISTRIBUTION", "KETAMA", "KETAMA_WEIGHTED", "HASH", "KETAMA_HASH",
               "CACHE_LOOKUPS", "VERIFY_KEY", "SORT_HOSTS"}
Timeouts == Numbers \ Limits
Readings == {"HASH_WITH_PREFIX_KEY", "NOREPLY", "AUTO_EJECT_HOSTS",
             "RANDOMIZE_REPLICA_READ", "USER_DATA", "CORK", "LOAD_FROM_FILE"}

Behaviors == Limits \cup Transports \cup Placements \cup Timeouts \cup Readings

memcached_behavior_set(m, b, data, name) ==
    CASE b \in Limits -> SetLimit(m, b, data)
      [] b \in Transports -> SetTransport(m, b, data)
      [] b \in Placements -> SetPlacement(m, b, data, name)
      [] b \in Timeouts -> SetTimeout(m, b, data)
      [] b \in Readings -> SetReading(m, b, data)

-----------------------------------------------------------------------------
(* memcached_behavior_get.                                                 *)

(* The size the kernel gave the buffers of a connection is not known.      *)
GetNumber(m, b) == uint64(m.numbers[b])

GetFlag(m, b) ==
    LET f == m.flags
    IN  CASE b = "BINARY_PROTOCOL" -> f.binary_protocol
          [] b = "SUPPORT_CAS" -> f.support_cas
          [] b = "NO_BLOCK" -> f.no_block
          [] b = "BUFFER_REQUESTS" -> f.buffer_requests
          [] b = "USE_UDP" -> f.use_udp
          [] b = "TCP_NODELAY" -> f.tcp_nodelay
          [] b = "VERIFY_KEY" -> f.verify_key
          [] b = "KETAMA_WEIGHTED" -> memcached_is_consistent_distribution(m) /\ m.weighted
          [] b = "KETAMA" -> memcached_is_consistent_distribution(m)
          [] b \in {"REMOVE_FAILED_SERVERS", "AUTO_EJECT_HOSTS"} -> f.auto_eject_hosts
          [] b = "SORT_HOSTS" -> f.use_sort_hosts
          [] b = "HASH_WITH_PREFIX_KEY" -> f.hash_with_namespace
          [] b = "NOREPLY" -> ~f.reply
          [] b = "RANDOMIZE_REPLICA_READ" -> f.randomize_replica_read
          [] b = "TCP_KEEPALIVE" -> f.tcp_keepalive
          [] b \in {"CACHE_LOOKUPS", "CORK"} -> TRUE
          [] b = "LOAD_FROM_FILE" -> m.filename # NoName
          [] b = "USER_DATA" -> FALSE

(* Fault: the hash of the continuum is read from the hash of the keys.     *)
GetName_base(m, b) ==
    IF b = "DISTRIBUTION" THEN m.distribution ELSE m.base_hash

GetName(m, b) ==
    CASE b = "DISTRIBUTION" -> m.distribution
      [] b = "HASH" -> m.base_hash
      [] b = "KETAMA_HASH" -> m.distribution_hash

-----------------------------------------------------------------------------
(* Callbacks, namespace, virtual buckets.                                  *)

(* A name of length 0 is the empty string, NoName is NULL.  The characters *)
(* are checked whatever the behaviour VERIFY_KEY says.                     *)
memcached_set_namespace(m, key) ==
    CASE key = NoName -> Ok([m EXCEPT !.namespace = NoName])
      [] key # NoName /\ key.length = 0 -> Refused(m, "INVALID_ARGUMENTS")
      [] OTHER ->
            LET rc == memcached_key_test([m EXCEPT !.flags.verify_key = TRUE], key)
            IN  CASE rc # "SUCCESS" -> Refused(m, rc)
                  [] rc = "SUCCESS" /\ key.length > MaxNamespace - 1 -> Refused(m, "KEY_TOO_BIG")
                  [] OTHER -> Ok([m EXCEPT !.namespace = key])

(* The pointer 0 is NULL and takes a callback away.                        *)
memcached_callback_set(m, callback, data) ==
    IF /\ callback = "DELETE_TRIGGER" /\ data # 0
       /\ m.flags.buffer_requests \/ ~m.flags.reply
    THEN Refused(m, "INVALID_ARGUMENTS")
    ELSE Ok([m EXCEPT !.callbacks[callback] = data])

(* Fault: the distribution is not put back.                                *)
memcached_bucket_set_stays(m, host_map) ==
    LET virtual == memcached_behavior_set_distribution(m, "VIRTUAL_BUCKET").m
    IN  IF host_map = << >> THEN Refused(virtual, "INVALID_ARGUMENTS")
        ELSE Ok([virtual EXCEPT !.virtual_bucket = host_map])

(* memcached_bucket_set and memcached_virtual_bucket_create: no buckets is *)
(* an error, found after the distribution was changed.                     *)
memcached_bucket_set(m, host_map) ==
    LET virtual == memcached_behavior_set_distribution(m, "VIRTUAL_BUCKET").m
    IN  IF host_map = << >>
        THEN Refused(memcached_behavior_set_distribution(virtual, m.distribution).m,
                     "INVALID_ARGUMENTS")
        ELSE Ok([virtual EXCEPT !.virtual_bucket = host_map])

-----------------------------------------------------------------------------
(* Life cycle.                                                             *)

(* memcached_clone: a new handle takes the settings over, then the servers,*)
(* then the namespace.                                                     *)
CopySettings(source) ==
    [memcached_create EXCEPT
        !.flags = source.flags, !.numbers = source.numbers,
        !.distribution = source.distribution, !.base_hash = source.base_hash,
        !.distribution_hash = source.distribution_hash, !.callbacks = source.callbacks]

(* Fault: the hash functions are not copied.                               *)
memcached_clone_hashless(source) ==
    run_distribution(
        [memcached_instance_push([CopySettings(source) EXCEPT !.base_hash = "DEFAULT"],
                                 source.servers)
         EXCEPT !.namespace = source.namespace])

(* The file name of the clone is the namespace of the source: line 323.    *)
memcached_clone(source) ==
    run_distribution(
        [memcached_instance_push(CopySettings(source), source.servers)
         EXCEPT !.namespace = source.namespace,
                !.filename = source.namespace])

(* memcached_reset: memcached_create forgets the name of the configuration *)
(* file before it is looked at.                                            *)
memcached_reset(m) == memcached_create

-----------------------------------------------------------------------------
(* What connecting gives a socket: set_socket_options is for TCP.          *)
SocketOf(m, s) ==
    LET tcp == s.type = "TCP" /\ ~m.flags.use_udp
        size(b) == IF m.numbers[b] > 0 /\ tcp THEN m.numbers[b] ELSE 0
    IN  [binary |-> m.flags.binary_protocol, udp |-> m.flags.use_udp,
         linger |-> tcp /\ m.flags.no_block, nodelay |-> tcp /\ m.flags.tcp_nodelay,
         keepalive |-> tcp /\ m.flags.tcp_keepalive, keepidle |-> size("TCP_KEEPIDLE"),
         sndbuf |-> size("SOCKET_SEND_SIZE"), rcvbuf |-> size("SOCKET_RECV_SIZE")]

memcached_connect(m, i) ==
    IF m.servers[i].socket # << >> THEN m
    ELSE [m EXCEPT !.servers[i].socket = << SocketOf(m, m.servers[i]) >>]
=============================================================================
