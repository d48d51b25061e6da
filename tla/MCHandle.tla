------------------------------ MODULE MCHandle ------------------------------
(***************************************************************************)
(* Instances of Handle for TLC.  The hash functions are small mixing       *)
(* functions, different for each algorithm.                                *)
(***************************************************************************)
EXTENDS Handle, SequencesExt

HashSpace == 61

MCDigest(alg, s) ==
    FoldLeft(LAMBDA h, x : (h * (IF alg = "MD5" THEN 17 ELSE 7) + 5 * x + 11) % HashSpace,
             IF alg = "MD5" THEN 3 ELSE 1, s)

MCSignature(s, x) == (MCDigest("MD5", s) * (x + 2) + 13 * x) % HashSpace

MCKeys ==
    {[name |-> k, length |-> 2, graphic |-> k # 4] : k \in 1..5} \cup
    {[name |-> 6, length |-> 5, graphic |-> TRUE]}

Namespaces ==
    {NoName} \cup
    {[name |-> << n >>, length |-> n - 7, graphic |-> n # 9] : n \in 7..11}

At(h, p, w, t) == [hostname |-> h, port |-> p, weight |-> w, type |-> t]
Op(o) == [op |-> o]
Set(b, d, n) == [op |-> "behavior_set", behavior |-> b, data |-> d, name |-> n]

(* The first program tunes a handle with two servers and talks to them.    *)
Tuning(numbers, max) ==
    [servers |-> << At(1, DefaultPort, 1, "TCP"), At(2, 0, 1, "UNIX_SOCKET") >>,
     max |-> max,
     calls |->
        {Set(b, d, "") : b \in numbers,
                         d \in {0, 2, Word, Word * Word - 1}} \cup
        {Set(b, d, "") : b \in (Transports \cup Readings \cup {"REMOVE_FAILED_SERVERS",
                                "CACHE_LOOKUPS", "VERIFY_KEY", "SORT_HOSTS"}),
                         d \in {0, 1}} \cup
        {[op |-> "callback_set", callback |-> c, data |-> d] : c \in Callbacks, d \in {0, 1}} \cup
        {[op |-> "buffer_size", behavior |-> "SOCKET_SEND_SIZE"]} \cup
        {[op |-> "set_namespace", key |-> n] : n \in Namespaces} \cup
        {Op("request"), Op("quit"), Op("clone"), Op("reset")}]

(* The others place keys.                                                  *)
Placing(first, max, more) ==
    [servers |-> first, max |-> max,
     calls |->
        {Set("DISTRIBUTION", 0, d) : d \in Distributions \cup {"MAX"}} \cup
        {Set(b, d, "") : b \in {"KETAMA", "KETAMA_WEIGHTED"}, d \in {0, 1}} \cup
        {Set("HASH", 0, h) : h \in Hashes \cup {"MAX"}} \cup
        {Set("SORT_HOSTS", 1, ""), Op("clone")} \cup more]

Adding ==
    {[op |-> "server_add", server |-> At(1, 0, 1, "TCP")],
     [op |-> "server_add", server |-> At(3, 9, 3, "TCP")],
     [op |-> "server_add", server |-> At(2, 0, 0, "UNIX_SOCKET")],
     [op |-> "server_push", list |-> << At(0, 0, 1, "TCP"), At(4, 8, 0, "TCP") >>],
     [op |-> "server_push", list |-> << At(5, 0, 2, "TCP") >>],
     Op("servers_reset")}

Naming ==
    {[op |-> "set_namespace", key |-> n] : n \in Namespaces} \cup
    {Set("HASH_WITH_PREFIX_KEY", 1, ""), Set("KETAMA_HASH", 0, "MD5"),
     Set("KETAMA_HASH", 0, "MAX"), Set("BINARY_PROTOCOL", 1, ""), Set("VERIFY_KEY", 1, "")}

Failing ==
    {Op("retry"), Set("AUTO_EJECT_HOSTS", 1, ""),
     [op |-> "bucket_set", host_map |-> << >>],
     [op |-> "bucket_set", host_map |-> << 2, 1, 2 >>], Op("servers_reset"),
     [op |-> "server_add", server |-> At(3, 9, 3, "TCP")]}

Two == << At(2, 7, 1, "TCP"), At(1, 5, 1, "TCP") >>

(* Configuration strings: of two statements, or of one at a time.          *)
Token(t) == [token |-> t]
Number(t, n) == [token |-> t, number |-> n]
Missing == << 21 >>
Empty == << 22 >>
Good == << 23 >>
Bad == << 24 >>
File(n) == [name |-> n, length |-> 1, graphic |-> TRUE]

Statements ==
    {Token(t) : t \in {"BINARY_PROTOCOL", "BUFFER_REQUESTS", "USE_UDP", "VERIFY_KEY", "NOREPLY",
                       "SORT_HOSTS", "COMMENT", "USER_DATA", "FETCH_VERSION", "END", "ERROR",
                       "RESET"}} \cup
    {Number("NUMBER_OF_REPLICAS", 2), Number("POOL_MIN", 2), Number("POOL_MAX", Word + 3),
     [token |-> "SERVER", server |-> At(3, DefaultPort, 2, "TCP")],
     [token |-> "SOCKET", server |-> At(2, 0, 1, "UNIX_SOCKET")],
     [token |-> "NAMESPACE", key |-> [name |-> << 10 >>, length |-> 3, graphic |-> TRUE]],
     [token |-> "DISTRIBUTION", name |-> "CONSISTENT", hash |-> "none"],
     [token |-> "DISTRIBUTION", name |-> "CONSISTENT", hash |-> "MD5"],
     [token |-> "HASH", name |-> "MD5"],
     [token |-> "INCLUDE", key |-> File(Missing)],
     [token |-> "INCLUDE", key |-> File(Empty)],
     [token |-> "CONFIGURE_FILE", key |-> File(Bad)],
     [token |-> "CONFIGURE_FILE", key |-> File(Good)]}

MCFiles ==
    (Empty :> << >>) @@
    (Good :> << << [token |-> "HASH", name |-> "MD5"] >>,
                        << Token("NOREPLY"), Token("TCP_NODELAY") >> >>) @@
    (Bad :> << << Token("BINARY_PROTOCOL") >>, << Token("UNKNOWN") >> >>)

Configuring(strings, max) ==
    [servers |-> Two, max |-> max,
     calls |-> {[op |-> o, string |-> s] : o \in {"parse", "memcached"}, s \in strings} \cup
               {Op("clone"), Op("request")}]

MCPrograms ==
    {Tuning(Numbers, 2), Tuning({"TCP_KEEPIDLE", "SERVER_FAILURE_LIMIT"}, 3),
     Placing(<< >>, 4, Adding), Placing(Two, 3, Adding), Placing(Two, 3, Naming),
     Placing(Two, 4, Failing),
     Configuring({<< s, t >> : s, t \in Statements}, 1),
     Configuring({<< s >> : s \in Statements}, 2)}

MCClones == {Placing(Two, 3, Adding)}
=============================================================================
