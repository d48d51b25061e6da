---------------------------- MODULE HandleLemmas ----------------------------
(***************************************************************************)
(* What the library's functions do to a handle, for every hash function,   *)
(* every list of servers and every width of a number: what is kept of a    *)
(* handle, the continuum, the list of servers, memcached_behavior_set, the *)
(* connections, memcached_clone and the statements of a configuration      *)
(* string.                                                                 *)
(***************************************************************************)
EXTENDS Handle, TLAPS

(* The fields of a memcached_st.                                           *)
HandleFields == {"flags", "numbers", "distribution", "base_hash", "distribution_hash",
                 "weighted", "continuum", "continuum_count", "built_with", "virtual_bucket",
                 "servers", "namespace", "filename", "pool", "callbacks"}

(* The bits of memcached_st.flags.                                         *)
FlagNames == {"auto_eject_hosts", "binary_protocol", "buffer_requests",
              "hash_with_namespace", "no_block", "reply", "randomize_replica_read",
              "support_cas", "tcp_nodelay", "use_sort_hosts", "use_udp", "verify_key",
              "tcp_keepalive", "is_fetching_version"}

(* What a connection was opened with.                                      *)
Socket == [binary : BOOLEAN, udp : BOOLEAN, linger : BOOLEAN, nodelay : BOOLEAN,
           keepalive : BOOLEAN, keepidle : Int, sndbuf : Int, rcvbuf : Int]

(* The servers of a handle.                                                *)
Instance == [hostname : Nat, port : Nat, type : {"TCP", "UNIX_SOCKET"}, weight : Nat \ {0},
             next_retry : {"never", "ahead", "passed"}, socket : Seq(Socket)]

(* The type of a handle.                                                   *)
IsHandle(m) ==
    /\ m = [f \in HandleFields |-> m[f]]
    /\ m.flags \in [FlagNames -> BOOLEAN]
    /\ m.numbers \in [Numbers -> Int]
    /\ m.distribution \in Distributions
    /\ m.weighted \in BOOLEAN
    /\ m.continuum_count \in Nat
    /\ m.servers \in Seq(Instance)

(* The flags of a handle that exclude each other.                          *)
FlagsApart(m) ==
    /\ m.flags.use_udp => ~m.flags.reply /\ ~m.flags.buffer_requests
    /\ m.flags.binary_protocol => ~m.flags.verify_key

(* Every connection of a handle was opened with its settings.              *)
Current(m) ==
    \A i \in DOMAIN m.servers :
        m.servers[i].socket # << >> => m.servers[i].socket = << SocketOf(m, m.servers[i]) >>

(* A weighted distribution uses the weights.                               *)
WeightsUsed(m) == m.distribution = "CONSISTENT_WEIGHTED" => m.weighted

(* A handle that sorts its hosts has them sorted, whatever was added,      *)
(* removed or set since sort_hosts last ran.                               *)
HostsSorted(m) ==
    m.flags.use_sort_hosts =>
        \A i, j \in DOMAIN m.servers :
            i < j => ~compare_servers(m.servers[j], m.servers[i])

(* No server of a handle was ever marked for retry.                        *)
NeverFailed(m) == \A i \in DOMAIN m.servers : m.servers[i].next_retry = "never"

(* The continuum is the one that update_continuum builds of the servers of *)
(* the list with the hash it was last built with.  It is out of date only  *)
(* in the hash and in the servers that failed.                             *)
Rebuilt(m) ==
    memcached_is_consistent_distribution(m) /\ NeverFailed(m) /\ m.servers # << >> =>
        /\ m.continuum = SortedPoints(AllPoints([m EXCEPT !.base_hash = m.built_with]))
        /\ m.continuum_count = continuum_count(m)

(* What every call keeps of a handle.                                      *)
HandleInv(m) ==
    IsHandle(m) /\ FlagsApart(m) /\ Current(m) /\ WeightsUsed(m) /\ HostsSorted(m) /\ Rebuilt(m)

-----------------------------------------------------------------------------
(* Lists.                                                                  *)

(* The places of a list and what is there.                                 *)
LEMMA ListFacts ==
    ASSUME NEW S, NEW s \in Seq(S)
    PROVE  /\ DOMAIN s = 1..Len(s) /\ Len(s) \in Nat
           /\ \A i \in DOMAIN s : s[i] \in S
OBVIOUS

(* A list and one more.                                                    *)
LEMMA AppendFacts ==
    ASSUME NEW S, NEW s \in Seq(S), NEW x \in S
    PROVE  Append(s, x) = s \o << x >>
OBVIOUS

(* The places of a list and of what is added to it.                        *)
LEMMA ConcatFacts ==
    ASSUME NEW S, NEW s \in Seq(S), NEW t \in Seq(S)
    PROVE  /\ s \o t \in Seq(S) /\ Len(s \o t) = Len(s) + Len(t)
           /\ \A i \in 1..(Len(s) + Len(t)) :
                 (s \o t)[i] = IF i <= Len(s) THEN s[i] ELSE t[i - Len(s)]
OBVIOUS

(* A list without elements is empty.                                       *)
LEMMA NoElements ==
    ASSUME NEW S, NEW s \in Seq(S)
    PROVE  s = << >> <=> DOMAIN s = {}
<1>1. DOMAIN s = 1..Len(s) /\ Len(s) \in Nat
  BY ListFacts
<1>2. ASSUME s # << >>
      PROVE  1 \in DOMAIN s
  <2>1. Len(s) \in Nat \ {0}
    BY <1>2
  <2>2. QED
    BY <1>1, <2>1
<1>3. DOMAIN << >> = {}
  OBVIOUS
<1>4. QED
  BY <1>2, <1>3, Zenon

-----------------------------------------------------------------------------
(* Sorting.                                                                *)

(* What the lemmas below use of sort_hosts and of the count of the         *)
(* servers: InOrder(s) has the servers of s, none of them before one that  *)
(* belongs before it, and is s when s is sorted.  It holds for every list: *)
(* ListsSort of HandleProofs.                                              *)
Sorting ==
    \A s \in Seq(Instance) :
        /\ InOrder(s) \in Seq(Instance)
        /\ DOMAIN InOrder(s) = DOMAIN s
        /\ \A k \in DOMAIN s : \E i \in DOMAIN s : InOrder(s)[k] = s[i]
        /\ \A k, l \in DOMAIN s :
              k < l => ~compare_servers(InOrder(s)[l], InOrder(s)[k])
        /\ (\A i, j \in DOMAIN s : i < j => ~compare_servers(s[j], s[i])) => InOrder(s) = s
        /\ \A D \in SUBSET DOMAIN s : Cardinality(D) \in Nat

-----------------------------------------------------------------------------
(* The continuum.                                                          *)

(* What update_continuum reads of two handles is the same.                 *)
SamePlacement(m, n) ==
    /\ m.distribution = n.distribution /\ m.weighted = n.weighted
    /\ m.base_hash = n.base_hash
    /\ DOMAIN m.servers = DOMAIN n.servers
    /\ \A i \in DOMAIN m.servers :
          /\ m.servers[i].hostname = n.servers[i].hostname
          /\ m.servers[i].port = n.servers[i].port
          /\ m.servers[i].weight = n.servers[i].weight
    /\ NeverFailed(m) /\ NeverFailed(n)

(* All servers are live when none was marked for retry.                    *)
LEMMA AllLive ==
    ASSUME NEW m, NeverFailed(m)
    PROVE  Live(m) = DOMAIN m.servers
BY DEF NeverFailed, Live

(* Handles with the same placement get the same points.                    *)
LEMMA SamePoints ==
    ASSUME NEW m, NEW n, SamePlacement(m, n)
    PROVE  AllPoints(m) = AllPoints(n)
<1> DEFINE D == DOMAIN m.servers
<1>1. Live(m) = D /\ Live(n) = D
  BY AllLive, Zenon DEF SamePlacement
<1>2. [j \in DOMAIN m.servers |-> m.servers[j].weight]
      = [j \in DOMAIN n.servers |-> n.servers[j].weight]
  BY Zenon DEF SamePlacement
<1>3. ASSUME NEW i \in D
      PROVE  pointer_per_server(m, i) = pointer_per_server(n, i)
  <2>1. m.weighted = n.weighted /\ m.servers[i].weight = n.servers[i].weight
    BY DEF SamePlacement
  <2>2. QED
    BY <1>1, <1>2, <2>1, Zenon DEF pointer_per_server
<1>4. ASSUME NEW i \in D, NEW k
      PROVE  sort_host(m, m.servers[i], k) = sort_host(n, n.servers[i], k)
  <2>1. /\ m.distribution = n.distribution
        /\ m.servers[i].hostname = n.servers[i].hostname
        /\ m.servers[i].port = n.servers[i].port
    BY DEF SamePlacement
  <2>2. QED
    BY <2>1, Zenon DEF sort_host
<1>5. ASSUME NEW i \in D
      PROVE  PointsOf(m, i) = PointsOf(n, i)
  <2>1. m.weighted = n.weighted /\ m.base_hash = n.base_hash
    BY DEF SamePlacement
  <2>2. QED
    BY <1>3, <1>4, <2>1, Zenon DEF PointsOf
<1>6. [i \in DOMAIN m.servers |-> IF i \in Live(m) THEN PointsOf(m, i) ELSE << >>]
      = [i \in DOMAIN n.servers |-> IF i \in Live(n) THEN PointsOf(n, i) ELSE << >>]
  <2>1. DOMAIN n.servers = D
    BY DEF SamePlacement
  <2>2. QED
    BY <1>1, <1>5, <2>1, Zenon
<1>7. QED
  BY <1>6, Zenon DEF AllPoints

-----------------------------------------------------------------------------
(* What follows from an update of a handle.                                *)

(* What a connection is opened with is the same in two handles.            *)
SameOptions(m, n) ==
    /\ \A f \in {"binary_protocol", "use_udp", "no_block", "tcp_nodelay", "tcp_keepalive"} :
          n.flags[f] = m.flags[f]
    /\ \A b \in {"TCP_KEEPIDLE", "SOCKET_SEND_SIZE", "SOCKET_RECV_SIZE"} :
          n.numbers[b] = m.numbers[b]

(* Handles with the same options open the same connections.                *)
LEMMA SameSocket ==
    ASSUME NEW m, NEW n, SameOptions(m, n)
    PROVE  \A s, t : s.type = t.type => SocketOf(n, t) = SocketOf(m, s)
<1>1. /\ n.flags.binary_protocol = m.flags.binary_protocol
      /\ n.flags.use_udp = m.flags.use_udp
      /\ n.flags.no_block = m.flags.no_block
      /\ n.flags.tcp_nodelay = m.flags.tcp_nodelay
      /\ n.flags.tcp_keepalive = m.flags.tcp_keepalive
      /\ n.numbers["TCP_KEEPIDLE"] = m.numbers["TCP_KEEPIDLE"]
      /\ n.numbers["SOCKET_SEND_SIZE"] = m.numbers["SOCKET_SEND_SIZE"]
      /\ n.numbers["SOCKET_RECV_SIZE"] = m.numbers["SOCKET_RECV_SIZE"]
  BY DEF SameOptions
<1>2. QED
  BY <1>1 DEF SocketOf

(* Connections stay current when they are taken over, in whatever order,   *)
(* by a handle with the same options.                                      *)
LEMMA SameCurrent ==
    ASSUME NEW m, NEW n, SameOptions(m, n), Current(m),
           \A k \in DOMAIN n.servers :
              \E i \in DOMAIN m.servers : /\ n.servers[k].socket = m.servers[i].socket
                                          /\ n.servers[k].type = m.servers[i].type
    PROVE  Current(n)
<1>1. SUFFICES ASSUME NEW k \in DOMAIN n.servers, n.servers[k].socket # << >>
               PROVE  n.servers[k].socket = << SocketOf(n, n.servers[k]) >>
  BY Zenon DEF Current
<1>2. PICK i \in DOMAIN m.servers : /\ n.servers[k].socket = m.servers[i].socket
                                    /\ n.servers[k].type = m.servers[i].type
  BY Zenon
<1>3. m.servers[i].socket = << SocketOf(m, m.servers[i]) >>
  BY <1>1, <1>2, Zenon DEF Current
<1>4. SocketOf(n, n.servers[k]) = SocketOf(m, m.servers[i])
  BY <1>2, SameSocket
<1>5. QED
  BY <1>2, <1>3, <1>4, Zenon

(* An update that leaves the placement alone, and makes no failed server   *)
(* live, keeps a handle sound.                                             *)
LEMMA Transfer ==
    ASSUME NEW m, NEW n, HandleInv(m), IsHandle(n), FlagsApart(n), Current(n),
           n.flags.use_sort_hosts = m.flags.use_sort_hosts,
           n.distribution = m.distribution, n.weighted = m.weighted,
           n.continuum = m.continuum, n.continuum_count = m.continuum_count,
           n.built_with = m.built_with,
           DOMAIN n.servers = DOMAIN m.servers,
           \A i \in DOMAIN m.servers :
              /\ n.servers[i].hostname = m.servers[i].hostname
              /\ n.servers[i].port = m.servers[i].port
              /\ n.servers[i].weight = m.servers[i].weight
              /\ n.servers[i].next_retry = "never" => m.servers[i].next_retry = "never"
    PROVE  HandleInv(n)
<1>1. WeightsUsed(n)
  BY DEF HandleInv, WeightsUsed
<1>2. HostsSorted(n)
  <2> SUFFICES ASSUME n.flags.use_sort_hosts,
                      NEW i \in DOMAIN n.servers, NEW j \in DOMAIN n.servers, i < j
               PROVE  ~compare_servers(n.servers[j], n.servers[i])
    BY Zenon DEF HostsSorted
  <2>1. ~compare_servers(m.servers[j], m.servers[i])
    BY Zenon DEF HandleInv, HostsSorted
  <2>2. /\ n.servers[i].hostname = m.servers[i].hostname /\ n.servers[i].port = m.servers[i].port
        /\ n.servers[j].hostname = m.servers[j].hostname /\ n.servers[j].port = m.servers[j].port
    BY Zenon
  <2>3. QED
    BY <2>1, <2>2, Zenon DEF compare_servers
<1>3. Rebuilt(n)
  <2> DEFINE mb == [m EXCEPT !.base_hash = m.built_with]
             nb == [n EXCEPT !.base_hash = n.built_with]
  <2>1. SUFFICES ASSUME memcached_is_consistent_distribution(n), NeverFailed(n),
                        n.servers # << >>
                 PROVE  /\ n.continuum = SortedPoints(AllPoints(nb))
                        /\ n.continuum_count = continuum_count(n)
    BY Zenon DEF Rebuilt
  <2>2. memcached_is_consistent_distribution(m)
    BY <2>1, Zenon DEF memcached_is_consistent_distribution
  <2>3. NeverFailed(m)
    BY <2>1, Zenon DEF NeverFailed
  <2>4. m.servers # << >>
    BY <2>1 DEF IsHandle, HandleInv
  <2>5. /\ m.continuum = SortedPoints(AllPoints(mb))
        /\ m.continuum_count = continuum_count(m)
    BY <2>2, <2>3, <2>4, Zenon DEF HandleInv, Rebuilt
  <2>6. /\ mb.base_hash = m.built_with /\ mb.servers = m.servers
        /\ mb.distribution = m.distribution /\ mb.weighted = m.weighted
    BY DEF HandleInv, IsHandle, HandleFields
  <2>7. /\ nb.base_hash = n.built_with /\ nb.servers = n.servers
        /\ nb.distribution = n.distribution /\ nb.weighted = n.weighted
    BY DEF IsHandle, HandleFields
  <2> HIDE DEF mb, nb
  <2>8. SamePlacement(mb, nb)
    <3>1. NeverFailed(mb) /\ NeverFailed(nb)
      BY <2>1, <2>3, <2>6, <2>7, Zenon DEF NeverFailed
    <3>2. /\ mb.distribution = nb.distribution /\ mb.weighted = nb.weighted
          /\ mb.base_hash = nb.base_hash /\ DOMAIN mb.servers = DOMAIN nb.servers
      BY <2>6, <2>7, Zenon
    <3>3. ASSUME NEW i \in DOMAIN mb.servers
          PROVE  /\ mb.servers[i].hostname = nb.servers[i].hostname
                 /\ mb.servers[i].port = nb.servers[i].port
                 /\ mb.servers[i].weight = nb.servers[i].weight
      BY <2>6, <2>7, Zenon
    <3>4. QED
      BY <3>1, <3>2, <3>3, Zenon DEF SamePlacement
  <2>9. AllPoints(mb) = AllPoints(nb)
    BY <2>8, SamePoints, Zenon
  <2>10. continuum_count(m) = continuum_count(n)
    <3>1. Live(m) = DOMAIN m.servers /\ Live(n) = DOMAIN n.servers
      BY <2>1, <2>3, AllLive, Zenon
    <3>2. QED
      BY <3>1, Zenon DEF continuum_count
  <2>11. QED
    BY <2>5, <2>9, <2>10, Zenon DEF nb
<1>4. QED
  BY <1>1, <1>2, <1>3, Zenon DEF HandleInv

-----------------------------------------------------------------------------
(* The distribution.                                                       *)

(* What a handle needs before run_distribution.                            *)
Runnable(m) == IsHandle(m) /\ FlagsApart(m) /\ Current(m) /\ WeightsUsed(m)

(* The list of servers is replaced.                                        *)
LEMMA UpdateServers ==
    ASSUME NEW m, IsHandle(m), NEW v \in Seq(Instance)
    PROVE  LET n == [m EXCEPT !.servers = v]
           IN  /\ IsHandle(n) /\ n.servers = v
               /\ \A f \in HandleFields \ {"servers"} : n[f] = m[f]
<1> DEFINE n == [m EXCEPT !.servers = v]
<1>1. m = [f \in HandleFields |-> m[f]]
  BY Zenon DEF IsHandle
<1>2. n = [f \in HandleFields |-> n[f]] /\ n.servers = v
  BY <1>1, Zenon DEF HandleFields
<1>3. \A f \in HandleFields \ {"servers"} : n[f] = m[f]
  BY <1>1, Zenon DEF HandleFields
<1> HIDE DEF n
<1>4. IsHandle(n)
  BY <1>2, <1>3, Zenon DEF IsHandle, HandleFields
<1>5. QED
  BY <1>2, <1>3, <1>4 DEF n

(* update_continuum gives a sound handle and changes the continuum only.   *)
LEMMA UpdateContinuum ==
    ASSUME Sorting, NEW m, Runnable(m),
           m.flags.use_sort_hosts =>
              \A i, j \in DOMAIN m.servers :
                 i < j => ~compare_servers(m.servers[j], m.servers[i]),
           memcached_is_consistent_distribution(m)
    PROVE  LET n == update_continuum(m)
           IN  /\ HandleInv(n) /\ n.servers = m.servers
               /\ \A f \in HandleFields \ {"continuum", "continuum_count", "built_with"} :
                     n[f] = m[f]
<1> DEFINE n == update_continuum(m)
<1>1. CASE Live(m) = {}
  <2>1. n = m
    BY <1>1, Zenon DEF update_continuum
  <2>2. NeverFailed(m) => m.servers = << >>
    <3>1. m.servers \in Seq(Instance)
      BY DEF Runnable, IsHandle
    <3>2. NeverFailed(m) => DOMAIN m.servers = {}
      BY <1>1, AllLive, Zenon
    <3>3. QED
      BY <3>1, <3>2, NoElements, Zenon
  <2>3. Rebuilt(m)
    BY <2>2, Zenon DEF Rebuilt
  <2>4. HandleInv(m)
    BY <2>3, Zenon DEF HandleInv, Runnable, HostsSorted
  <2>5. QED
    BY <2>1, <2>4, Zenon
<1>2. CASE Live(m) # {}
  <2>1. n = [m EXCEPT !.continuum_count = continuum_count(m),
                      !.continuum = SortedPoints(AllPoints(m)),
                      !.built_with = m.base_hash]
    BY <1>2, Zenon DEF update_continuum
  <2>2. m = [f \in HandleFields |-> m[f]]
    BY Zenon DEF Runnable, IsHandle
  <2>3. /\ n = [f \in HandleFields |-> n[f]]
        /\ n.continuum_count = continuum_count(m)
        /\ n.continuum = SortedPoints(AllPoints(m))
        /\ n.built_with = m.base_hash
    BY <2>1, <2>2, Zenon DEF HandleFields
  <2>4. \A f \in HandleFields \ {"continuum", "continuum_count", "built_with"} : n[f] = m[f]
    BY <2>1, <2>2, Zenon DEF HandleFields
  <2> HIDE DEF n
  <2>5. /\ n.flags = m.flags /\ n.numbers = m.numbers /\ n.distribution = m.distribution
        /\ n.weighted = m.weighted /\ n.servers = m.servers /\ n.base_hash = m.base_hash
    BY <2>4 DEF HandleFields
  <2>6. /\ continuum_count(m) \in Nat
        /\ continuum_count(n) = continuum_count(m)
    <3>1. Live(n) = Live(m)
      BY <2>5, Zenon DEF Live
    <3>2. m.servers \in Seq(Instance) /\ Live(m) \in SUBSET DOMAIN m.servers
      BY Zenon DEF Runnable, IsHandle, Live
    <3>3. Cardinality(Live(m)) \in Nat
      BY <3>2, Zenon DEF Sorting
    <3>4. m.continuum_count \in Nat
      BY DEF Runnable, IsHandle
    <3>5. ASSUME NEW p \in Nat
          PROVE  /\ Cardinality(Live(m)) * p \in Nat
                 /\ ContinuumAddition * p \in Nat
      BY <3>3, ContinuumAssumption
    <3>6. CASE m.weighted
      <4> DEFINE limit == Cardinality(Live(m)) * PointsPerServerKetama
                 extra == ContinuumAddition * PointsPerServerKetama
                 enough(count) == IF limit > count THEN limit + extra ELSE count
      <4>1. limit \in Nat /\ extra \in Nat
        BY <3>5, ContinuumAssumption
      <4>2. /\ continuum_count(m) = enough(m.continuum_count)
            /\ continuum_count(n) = enough(n.continuum_count)
        BY <2>5, <3>1, <3>6, Zenon DEF continuum_count
      <4> HIDE DEF limit, extra
      <4>3. QED
        BY <2>3, <3>4, <4>1, <4>2
    <3>7. CASE ~m.weighted
      <4> DEFINE limit == Cardinality(Live(m)) * PointsPerServer
                 extra == ContinuumAddition * PointsPerServer
                 enough(count) == IF limit > count THEN limit + extra ELSE count
      <4>1. limit \in Nat /\ extra \in Nat
        BY <3>5, ContinuumAssumption
      <4>2. /\ continuum_count(m) = enough(m.continuum_count)
            /\ continuum_count(n) = enough(n.continuum_count)
        BY <2>5, <3>1, <3>7, Zenon DEF continuum_count
      <4> HIDE DEF limit, extra
      <4>3. QED
        BY <2>3, <3>4, <4>1, <4>2
    <3>8. QED
      BY <3>6, <3>7
  <2>7. IsHandle(n)
    BY <2>3, <2>5, <2>6, Zenon DEF Runnable, IsHandle
  <2>8. FlagsApart(n) /\ Current(n) /\ WeightsUsed(n) /\ HostsSorted(n)
    <3>1. FlagsApart(n) /\ WeightsUsed(n) /\ HostsSorted(n)
      BY <2>5, Zenon DEF Runnable, FlagsApart, WeightsUsed, HostsSorted
    <3>2. SameOptions(m, n)
      BY <2>5, Zenon DEF SameOptions
    <3>3. Current(n)
      BY <2>5, <3>2, SameCurrent, Zenon DEF Runnable
    <3>4. QED
      BY <3>1, <3>3
  <2>9. Rebuilt(n)
    <3> DEFINE nb == [n EXCEPT !.base_hash = n.built_with]
    <3>1. SUFFICES ASSUME NeverFailed(n)
                   PROVE  /\ n.continuum = SortedPoints(AllPoints(nb))
                          /\ n.continuum_count = continuum_count(n)
      BY Zenon DEF Rebuilt
    <3>2. /\ nb.base_hash = n.built_with /\ nb.servers = n.servers
          /\ nb.distribution = n.distribution /\ nb.weighted = n.weighted
      BY <2>3 DEF HandleFields
    <3>3. SamePlacement(m, nb)
      BY <2>3, <2>5, <3>1, <3>2, Zenon DEF SamePlacement, NeverFailed
    <3>4. AllPoints(m) = AllPoints(nb)
      BY <3>3, SamePoints, Zenon
    <3>5. QED
      BY <2>3, <2>6, <3>4, Zenon
  <2>10. HandleInv(n)
    BY <2>7, <2>8, <2>9, Zenon DEF HandleInv
  <2>11. QED
    BY <2>4, <2>5, <2>10 DEF n
<1>3. QED
  BY <1>1, <1>2

(* run_distribution gives a sound handle: it sorts the hosts and rebuilds  *)
(* the continuum.                                                          *)
LEMMA RunDistribution ==
    ASSUME Sorting, NEW m, Runnable(m)
    PROVE  LET n == run_distribution(m)
           IN  /\ HandleInv(n)
               /\ n.servers = IF m.flags.use_sort_hosts THEN InOrder(m.servers) ELSE m.servers
               /\ \A f \in HandleFields \ {"servers", "continuum", "continuum_count",
                                           "built_with"} : n[f] = m[f]
<1> DEFINE h == IF m.flags.use_sort_hosts THEN sort_hosts(m) ELSE m
           q == IF m.flags.use_sort_hosts THEN InOrder(m.servers) ELSE m.servers
<1>1. /\ m.servers \in Seq(Instance) /\ IsHandle(m)
      /\ m = [f \in HandleFields |-> m[f]]
  BY Zenon DEF Runnable, IsHandle
<1>2. /\ InOrder(m.servers) \in Seq(Instance)
      /\ DOMAIN InOrder(m.servers) = DOMAIN m.servers
      /\ \A k \in DOMAIN m.servers :
            \E i \in DOMAIN m.servers : InOrder(m.servers)[k] = m.servers[i]
  BY <1>1, Zenon DEF Sorting
<1>3. /\ q \in Seq(Instance) /\ DOMAIN q = DOMAIN m.servers
      /\ \A k \in DOMAIN q : \E i \in DOMAIN m.servers : q[k] = m.servers[i]
  BY <1>1, <1>2, Zenon
<1>4. /\ IsHandle(h) /\ h.servers = q
      /\ \A f \in HandleFields \ {"servers"} : h[f] = m[f]
  <2>1. CASE m.flags.use_sort_hosts
    <3>1. h = [m EXCEPT !.servers = InOrder(m.servers)]
      BY <2>1, Zenon DEF sort_hosts
    <3>2. q = InOrder(m.servers)
      BY <2>1, Zenon
    <3> HIDE DEF h, q
    <3>3. QED
      BY <1>1, <1>3, <3>1, <3>2, UpdateServers
  <2>2. CASE ~m.flags.use_sort_hosts
    BY <1>1, <2>2, Zenon
  <2>3. QED
    BY <2>1, <2>2, Zenon
<1>5. /\ h.flags = m.flags /\ h.numbers = m.numbers /\ h.distribution = m.distribution
      /\ h.weighted = m.weighted
  BY <1>4 DEF HandleFields
<1>6. h.flags.use_sort_hosts =>
         \A i, j \in DOMAIN h.servers :
            i < j => ~compare_servers(h.servers[j], h.servers[i])
  <2>1. SUFFICES ASSUME m.flags.use_sort_hosts,
                        NEW i \in DOMAIN m.servers, NEW j \in DOMAIN m.servers, i < j
                 PROVE  ~compare_servers(InOrder(m.servers)[j], InOrder(m.servers)[i])
    BY <1>2, <1>4, <1>5, Zenon
  <2>2. QED
    BY <1>1, <2>1, Zenon DEF Sorting
<1> DEFINE n == run_distribution(m)
<1>7. n = IF memcached_is_consistent_distribution(m) THEN update_continuum(h) ELSE h
  BY Zenon DEF run_distribution
<1> HIDE DEF h, n, q
<1>8. Runnable(h)
  <2>1. SameOptions(m, h)
    BY <1>5, Zenon DEF SameOptions
  <2>2. Current(h)
    BY <1>3, <1>4, <2>1, SameCurrent, Zenon DEF Runnable
  <2>3. FlagsApart(h) /\ WeightsUsed(h)
    BY <1>5, Zenon DEF Runnable, FlagsApart, WeightsUsed
  <2>4. QED
    BY <1>4, <2>2, <2>3, Zenon DEF Runnable
<1>9. memcached_is_consistent_distribution(h) = memcached_is_consistent_distribution(m)
  BY <1>5, Zenon DEF memcached_is_consistent_distribution
<1>10. HandleInv(n)
  <2>1. CASE memcached_is_consistent_distribution(m)
    BY <1>6, <1>7, <1>8, <1>9, <2>1, UpdateContinuum, Zenon
  <2>2. CASE ~memcached_is_consistent_distribution(m)
    <3>1. HostsSorted(h)
      BY <1>6, Zenon DEF HostsSorted
    <3>2. Rebuilt(h)
      BY <1>9, <2>2, Zenon DEF Rebuilt
    <3>3. QED
      BY <1>7, <1>8, <2>2, <3>1, <3>2, Zenon DEF HandleInv, Runnable
  <2>3. QED
    BY <2>1, <2>2, Zenon
<1>11. /\ n.servers = h.servers
       /\ \A f \in HandleFields \ {"servers", "continuum", "continuum_count", "built_with"} :
             n[f] = h[f]
  <2>1. CASE memcached_is_consistent_distribution(m)
    BY <1>6, <1>7, <1>8, <1>9, <2>1, UpdateContinuum, Zenon
  <2>2. CASE ~memcached_is_consistent_distribution(m)
    BY <1>7, <2>2, Zenon
  <2>3. QED
    BY <2>1, <2>2, Zenon
<1>12. QED
  BY <1>4, <1>10, <1>11, Zenon DEF n, q

(* An update of the fields that nothing depends on.                        *)
LEMMA MinorUpdate ==
    ASSUME NEW m, NEW n, HandleInv(m), n = [f \in HandleFields |-> n[f]],
           \A f \in {"flags", "numbers", "distribution", "weighted", "continuum",
                     "continuum_count", "built_with", "servers"} : n[f] = m[f]
    PROVE  HandleInv(n)
<1>1. /\ n.flags = m.flags /\ n.numbers = m.numbers /\ n.distribution = m.distribution
      /\ n.weighted = m.weighted /\ n.servers = m.servers /\ n.continuum = m.continuum
      /\ n.continuum_count = m.continuum_count /\ n.built_with = m.built_with
  OBVIOUS
<1>2. IsHandle(n)
  BY <1>1, Zenon DEF IsHandle, HandleInv
<1>3. FlagsApart(n)
  BY <1>1, Zenon DEF FlagsApart, HandleInv
<1>4. SameOptions(m, n)
  BY <1>1, Zenon DEF SameOptions
<1>5. Current(n)
  BY <1>1, <1>4, SameCurrent, Zenon DEF HandleInv
<1>6. QED
  BY <1>1, <1>2, <1>3, <1>5, Transfer, Zenon

(* The handle that memcached_behavior_set_distribution distributes.        *)
Distributed(m, type) ==
    [m EXCEPT !.distribution = type,
              !.weighted = CASE type \in {"CONSISTENT", "CONSISTENT_KETAMA"} -> FALSE
                             [] type = "CONSISTENT_WEIGHTED" -> TRUE
                             [] OTHER -> @]

(* What holds of the handle n that it gives for the handle m.              *)
IsDistributed(m, n, type) ==
    /\ HandleInv(n)
    /\ n.servers = IF m.flags.use_sort_hosts THEN InOrder(m.servers) ELSE m.servers
    /\ n.distribution = type
    /\ type \in {"CONSISTENT", "CONSISTENT_KETAMA"} => n.weighted = FALSE
    /\ type = "CONSISTENT_WEIGHTED" => n.weighted = TRUE
    /\ type \notin {"CONSISTENT", "CONSISTENT_KETAMA", "CONSISTENT_WEIGHTED"} =>
          n.weighted = m.weighted
    /\ \A f \in HandleFields \ {"distribution", "weighted", "servers", "continuum",
                                "continuum_count", "built_with"} : n[f] = m[f]

(* memcached_behavior_set_distribution sets the distribution, and whether  *)
(* weights are used, and distributes.                                      *)
LEMMA SetDistribution ==
    ASSUME Sorting, NEW m, IsHandle(m), FlagsApart(m), Current(m),
           NEW type \in Distributions
    PROVE  /\ memcached_behavior_set_distribution(m, type) =
                 Ok(run_distribution(Distributed(m, type)))
           /\ Runnable(Distributed(m, type))
           /\ IsDistributed(m, run_distribution(Distributed(m, type)), type)
<1> DEFINE h == Distributed(m, type)
           n == run_distribution(h)
           w == CASE type \in {"CONSISTENT", "CONSISTENT_KETAMA"} -> FALSE
                  [] type = "CONSISTENT_WEIGHTED" -> TRUE
                  [] OTHER -> m.weighted
<1>1. memcached_behavior_set_distribution(m, type) = Ok(n)
  BY Zenon DEF memcached_behavior_set_distribution, Distributed
<1>2. m = [f \in HandleFields |-> m[f]] /\ m.weighted \in BOOLEAN
  BY Zenon DEF IsHandle
<1>3. /\ w \in BOOLEAN
      /\ type \in {"CONSISTENT", "CONSISTENT_KETAMA"} => w = FALSE
      /\ type = "CONSISTENT_WEIGHTED" => w = TRUE
      /\ type \notin {"CONSISTENT", "CONSISTENT_KETAMA", "CONSISTENT_WEIGHTED"} => w = m.weighted
  BY <1>2, Zenon DEF Distributions
<1>4. /\ h = [f \in HandleFields |-> h[f]] /\ h.distribution = type /\ h.weighted = w
      /\ \A f \in HandleFields \ {"distribution", "weighted"} : h[f] = m[f]
  <2>1. h = [m EXCEPT !.distribution = type, !.weighted = w]
    BY DEF Distributed
  <2> HIDE DEF w, h
  <2>2. QED
    BY <1>2, <2>1, Zenon DEF HandleFields
<1> HIDE DEF h, w
<1>5. /\ h.flags = m.flags /\ h.numbers = m.numbers /\ h.servers = m.servers
      /\ h.continuum_count = m.continuum_count
  BY <1>4 DEF HandleFields
<1>6. IsHandle(h)
  BY <1>3, <1>4, <1>5, Zenon DEF IsHandle
<1>7. SameOptions(m, h)
  BY <1>5, Zenon DEF SameOptions
<1>8. Current(h)
  BY <1>5, <1>7, SameCurrent, Zenon
<1>9. Runnable(h)
  BY <1>3, <1>4, <1>5, <1>6, <1>8, Zenon DEF Runnable, FlagsApart, WeightsUsed
<1>10. /\ HandleInv(n)
       /\ n.servers = IF h.flags.use_sort_hosts THEN InOrder(h.servers) ELSE h.servers
       /\ \A f \in HandleFields \ {"servers", "continuum", "continuum_count",
                                   "built_with"} : n[f] = h[f]
  BY <1>9, RunDistribution, Zenon
<1> HIDE DEF n
<1>11. n.distribution = type /\ n.weighted = w
  BY <1>4, <1>10 DEF HandleFields
<1>12. \A f \in HandleFields \ {"distribution", "weighted", "servers", "continuum",
                                "continuum_count", "built_with"} : n[f] = m[f]
  BY <1>4, <1>10, Zenon
<1>13. n.servers = IF m.flags.use_sort_hosts THEN InOrder(m.servers) ELSE m.servers
  BY <1>5, <1>10, Zenon
<1>14. IsDistributed(m, n, type)
  BY <1>3, <1>10, <1>11, <1>12, <1>13, Zenon DEF IsDistributed
<1>15. QED
  BY <1>1, <1>9, <1>14, Zenon DEF n, h

-----------------------------------------------------------------------------
(* The list of servers.                                                    *)

(* A new server has the address asked for, a weight of at least 1 and no   *)
(* connection.                                                             *)
LEMMA NewInstance ==
    ASSUME NEW hostname \in Nat, NEW port \in Nat, NEW weight \in Nat,
           NEW type \in {"TCP", "UNIX_SOCKET"}
    PROVE  LET s == instance_create_with(hostname, port, weight, type)
           IN  /\ s \in Instance /\ s.socket = << >>
               /\ s.hostname = hostname /\ s.port = port /\ s.type = type
               /\ s.next_retry = "never"
               /\ weight # 0 => s.weight = weight
<1>1. << >> \in Seq(Socket)
  OBVIOUS
<1>2. (IF weight = 0 THEN 1 ELSE weight) \in Nat \ {0}
  OBVIOUS
<1>3. QED
  BY <1>1, <1>2 DEF instance_create_with, Instance

(* Servers are added, and perhaps weights are used from now on.            *)
Grown(m, q, weighted) == [m EXCEPT !.servers = m.servers \o q, !.weighted = weighted]

(* Servers without connections are added and distributed.                  *)
LEMMA AddServers ==
    ASSUME Sorting, NEW m, Runnable(m), NEW q \in Seq(Instance),
           \A i \in DOMAIN q : q[i].socket = << >>,
           NEW w \in BOOLEAN, m.weighted => w
    PROVE  LET h == Grown(m, q, w)
               n == run_distribution(h)
           IN  /\ Runnable(h) /\ HandleInv(n)
               /\ h.servers = m.servers \o q /\ h.weighted = w
               /\ \A f \in HandleFields \ {"servers", "weighted"} : h[f] = m[f]
               /\ \A f \in HandleFields \ {"servers", "weighted", "continuum",
                                           "continuum_count", "built_with"} : n[f] = m[f]
<1> DEFINE h == Grown(m, q, w)
           n == run_distribution(h)
<1>1. m = [f \in HandleFields |-> m[f]] /\ m.servers \in Seq(Instance)
  BY Zenon DEF Runnable, IsHandle
<1>2. /\ h = [f \in HandleFields |-> h[f]]
      /\ h.servers = m.servers \o q /\ h.weighted = w
      /\ \A f \in HandleFields \ {"servers", "weighted"} : h[f] = m[f]
  BY <1>1, Zenon DEF Grown, HandleFields
<1> HIDE DEF h
<1>3. /\ h.flags = m.flags /\ h.numbers = m.numbers /\ h.distribution = m.distribution
      /\ h.continuum_count = m.continuum_count
  BY <1>2, Zenon DEF HandleFields
<1>4. /\ h.servers \in Seq(Instance)
      /\ DOMAIN m.servers = 1..Len(m.servers) /\ Len(m.servers) \in Nat
      /\ DOMAIN q = 1..Len(q) /\ Len(q) \in Nat
      /\ DOMAIN h.servers = 1..(Len(m.servers) + Len(q))
      /\ \A i \in 1..(Len(m.servers) + Len(q)) :
            h.servers[i] = IF i <= Len(m.servers) THEN m.servers[i]
                           ELSE q[i - Len(m.servers)]
  <2>1. /\ DOMAIN m.servers = 1..Len(m.servers) /\ Len(m.servers) \in Nat
        /\ DOMAIN q = 1..Len(q) /\ Len(q) \in Nat
    BY <1>1, ListFacts
  <2> DEFINE c == m.servers \o q
  <2>2. /\ c \in Seq(Instance) /\ Len(c) = Len(m.servers) + Len(q)
        /\ \A i \in 1..(Len(m.servers) + Len(q)) :
              c[i] = IF i <= Len(m.servers) THEN m.servers[i] ELSE q[i - Len(m.servers)]
    BY <1>1, ConcatFacts, Zenon
  <2> HIDE DEF c
  <2>3. DOMAIN c = 1..(Len(m.servers) + Len(q))
    BY <2>2, ListFacts
  <2>4. h.servers = c
    BY <1>2, Zenon DEF c
  <2>5. QED
    BY <2>1, <2>2, <2>3, <2>4, Zenon
<1>5. IsHandle(h)
  BY <1>2, <1>3, <1>4, Zenon DEF IsHandle, Runnable
<1>6. SameOptions(m, h)
  BY <1>3, Zenon DEF SameOptions
<1>7. Current(h)
  <2>1. SUFFICES ASSUME NEW i \in DOMAIN h.servers, h.servers[i].socket # << >>
                 PROVE  h.servers[i].socket = << SocketOf(h, h.servers[i]) >>
    BY Zenon DEF Current
  <2>2. CASE i <= Len(m.servers)
    <3>1. h.servers[i] = m.servers[i] /\ i \in DOMAIN m.servers
      BY <1>4, <2>2
    <3>2. m.servers[i].socket = << SocketOf(m, m.servers[i]) >>
      BY <2>1, <3>1, Zenon DEF Runnable, Current
    <3>3. SocketOf(h, m.servers[i]) = SocketOf(m, m.servers[i])
      BY <1>6, SameSocket
    <3>4. QED
      BY <3>1, <3>2, <3>3, Zenon
  <2>3. CASE ~(i <= Len(m.servers))
    <3>1. h.servers[i] = q[i - Len(m.servers)] /\ i - Len(m.servers) \in DOMAIN q
      <4>1. i \in 1..(Len(m.servers) + Len(q)) /\ i - Len(m.servers) \in 1..Len(q)
        BY <1>4, <2>3
      <4>2. QED
        BY <1>4, <2>3, <4>1, Zenon
    <3>2. QED
      BY <2>1, <3>1, Zenon
  <2>4. QED
    BY <2>2, <2>3
<1>8. Runnable(h)
  BY <1>2, <1>3, <1>5, <1>7, Zenon DEF Runnable, FlagsApart, WeightsUsed
<1>9. /\ HandleInv(n)
      /\ \A f \in HandleFields \ {"servers", "continuum", "continuum_count",
                                  "built_with"} : n[f] = h[f]
  BY <1>8, RunDistribution, Zenon
<1> HIDE DEF n
<1>10. \A f \in HandleFields \ {"servers", "weighted", "continuum", "continuum_count",
                                "built_with"} : n[f] = m[f]
  BY <1>2, <1>9, Zenon
<1>11. QED
  BY <1>2, <1>8, <1>9, <1>10, Zenon DEF n, h

(* server_add gives a sound handle.                                        *)
LEMMA ServerAddInv ==
    ASSUME Sorting, NEW m, HandleInv(m), NEW hostname \in Nat, NEW port \in Nat,
           NEW weight \in Nat, NEW type \in {"TCP", "UNIX_SOCKET"}
    PROVE  LET n == server_add(m, hostname, port, weight, type)
           IN  /\ HandleInv(n)
               /\ \A f \in HandleFields \ {"servers", "weighted", "continuum",
                                           "continuum_count", "built_with"} : n[f] = m[f]
<1> DEFINE s == instance_create_with(hostname, port, weight, type)
           w == m.weighted \/ (weight > 1 /\ memcached_is_consistent_distribution(m))
<1>1. s \in Instance /\ s.socket = << >>
  BY NewInstance
<1>2. Runnable(m) /\ m.servers \in Seq(Instance)
  BY Zenon DEF HandleInv, Runnable, IsHandle
<1>3. Append(m.servers, s) = m.servers \o << s >>
  BY <1>1, <1>2, AppendFacts
<1>4. /\ << s >> \in Seq(Instance)
      /\ \A i \in DOMAIN << s >> : << s >>[i].socket = << >>
  <2> HIDE DEF s
  <2>1. QED
    BY <1>1
<1>5. w \in BOOLEAN /\ (m.weighted => w)
  OBVIOUS
<1>6. server_add(m, hostname, port, weight, type) = run_distribution(Grown(m, << s >>, w))
  <2>1. [m EXCEPT !.servers = Append(@, s),
                  !.weighted = \/ @
                               \/ weight > 1 /\ memcached_is_consistent_distribution(m)]
        = Grown(m, << s >>, w)
    BY <1>3, Zenon DEF Grown
  <2>2. QED
    BY <2>1, Zenon DEF server_add
<1> HIDE DEF s, w
<1>7. QED
  <2> DEFINE q == << s >>
             n == run_distribution(Grown(m, q, w))
  <2>1. q \in Seq(Instance) /\ \A i \in DOMAIN q : q[i].socket = << >>
    BY <1>4
  <2> HIDE DEF q
  <2>2. /\ HandleInv(n)
        /\ \A f \in HandleFields \ {"servers", "weighted", "continuum", "continuum_count",
                                    "built_with"} : n[f] = m[f]
    BY <1>2, <1>5, <2>1, AddServers
  <2>3. QED
    BY <1>6, <2>2, Zenon DEF q

(* The instances that memcached_instance_push makes of a list.             *)
Instances(list) ==
    [i \in DOMAIN list |-> instance_create_with(list[i].hostname, list[i].port,
                                                list[i].weight, list[i].type)]

(* What memcached_instance_push reads of a list.                           *)
IsList(list) ==
    /\ Len(list) \in Nat /\ DOMAIN list = 1..Len(list)
    /\ \A i \in DOMAIN list :
          /\ list[i].hostname \in Nat /\ list[i].port \in Nat /\ list[i].weight \in Nat
          /\ list[i].type \in {"TCP", "UNIX_SOCKET"}

(* The instances of a list are its servers, without connections.           *)
LEMMA InstancesOfList ==
    ASSUME NEW list, IsList(list)
    PROVE  /\ Instances(list) \in Seq(Instance)
           /\ DOMAIN Instances(list) = DOMAIN list
           /\ \A i \in DOMAIN list :
                 LET s == Instances(list)[i]
                 IN  /\ s.socket = << >> /\ s.next_retry = "never"
                     /\ s.hostname = list[i].hostname /\ s.port = list[i].port
                     /\ s.type = list[i].type
                     /\ list[i].weight # 0 => s.weight = list[i].weight
<1>1. DOMAIN Instances(list) = DOMAIN list
  BY DEF Instances
<1>2. ASSUME NEW i \in DOMAIN list
      PROVE  LET s == Instances(list)[i]
             IN  /\ s \in Instance
                 /\ s.socket = << >> /\ s.next_retry = "never"
                 /\ s.hostname = list[i].hostname /\ s.port = list[i].port
                 /\ s.type = list[i].type
                 /\ list[i].weight # 0 => s.weight = list[i].weight
  <2> DEFINE a == list[i].hostname
             b == list[i].port
             c == list[i].weight
             d == list[i].type
             s == instance_create_with(a, b, c, d)
  <2>1. a \in Nat /\ b \in Nat /\ c \in Nat /\ d \in {"TCP", "UNIX_SOCKET"}
    BY Zenon DEF IsList
  <2>2. Instances(list)[i] = s
    BY Zenon DEF Instances
  <2> HIDE DEF a, b, c, d
  <2>3. /\ s \in Instance /\ s.socket = << >>
        /\ s.hostname = a /\ s.port = b /\ s.type = d /\ s.next_retry = "never"
        /\ c # 0 => s.weight = c
    BY <2>1, NewInstance
  <2>4. QED
    BY <2>2, <2>3, Zenon DEF a, b, c, d
<1>3. Instances(list) \in Seq(Instance)
  <2>1. \A i \in 1..Len(list) : Instances(list)[i] \in Instance
    BY <1>2, Zenon DEF IsList
  <2>2. Instances(list) \in [1..Len(list) -> Instance] /\ Len(list) \in Nat
    BY <2>1 DEF Instances, IsList
  <2>3. QED
    BY <2>2
<1>4. QED
  BY <1>1, <1>2, <1>3, Zenon

(* memcached_instance_push gives a sound handle.                           *)
LEMMA InstancePush ==
    ASSUME Sorting, NEW m, HandleInv(m), NEW list, IsList(list)
    PROVE  LET n == memcached_instance_push(m, list)
               w == m.weighted \/ \E i \in DOMAIN list : list[i].weight > 1
           IN  /\ HandleInv(n)
               /\ list # << >> => n = run_distribution(Grown(m, Instances(list), w))
               /\ \A f \in HandleFields \ {"servers", "weighted", "continuum",
                                           "continuum_count", "built_with"} : n[f] = m[f]
<1> DEFINE w == m.weighted \/ \E i \in DOMAIN list : list[i].weight > 1
           n == memcached_instance_push(m, list)
<1>1. CASE list = << >>
  BY <1>1, Zenon DEF memcached_instance_push
<1>2. CASE list # << >>
  <2>1. /\ Instances(list) \in Seq(Instance)
        /\ \A i \in DOMAIN Instances(list) : Instances(list)[i].socket = << >>
    BY InstancesOfList, Zenon
  <2>2. w \in BOOLEAN /\ (m.weighted => w)
    BY Zenon
  <2>3. n = run_distribution(Grown(m, Instances(list), w))
    <3>1. [m EXCEPT !.servers = @ \o [i \in DOMAIN list |->
                                          instance_create_with(list[i].hostname, list[i].port,
                                                               list[i].weight, list[i].type)],
                    !.weighted = @ \/ \E i \in DOMAIN list : list[i].weight > 1]
          = Grown(m, Instances(list), w)
      BY Zenon DEF Grown, Instances
    <3>2. QED
      BY <1>2, <3>1, Zenon DEF memcached_instance_push
  <2>4. Runnable(m)
    BY Zenon DEF HandleInv, Runnable
  <2> HIDE DEF n, w
  <2>5. /\ HandleInv(n)
        /\ \A f \in HandleFields \ {"servers", "weighted", "continuum", "continuum_count",
                                    "built_with"} : n[f] = m[f]
    BY <2>1, <2>2, <2>3, <2>4, AddServers
  <2>6. QED
    BY <2>3, <2>5, Zenon DEF n, w
<1>3. QED
  BY <1>1, <1>2, Zenon

-----------------------------------------------------------------------------
(* Settings and connections.                                               *)

(* The servers after send_quit.                                            *)
Disconnected(m) == [i \in DOMAIN m.servers |-> [m.servers[i] EXCEPT !.socket = << >>]]

(* send_quit closes the connections of the servers and changes nothing     *)
(* else in them.                                                           *)
LEMMA DisconnectedServers ==
    ASSUME NEW m, IsHandle(m)
    PROVE  /\ Disconnected(m) \in Seq(Instance)
           /\ DOMAIN Disconnected(m) = DOMAIN m.servers
           /\ \A i \in DOMAIN m.servers :
                 /\ Disconnected(m)[i].socket = << >>
                 /\ Disconnected(m)[i].hostname = m.servers[i].hostname
                 /\ Disconnected(m)[i].port = m.servers[i].port
                 /\ Disconnected(m)[i].weight = m.servers[i].weight
                 /\ Disconnected(m)[i].next_retry = m.servers[i].next_retry
<1>1. /\ DOMAIN m.servers = 1..Len(m.servers) /\ Len(m.servers) \in Nat
      /\ \A i \in DOMAIN m.servers : m.servers[i] \in Instance
  BY ListFacts DEF IsHandle
<1>2. DOMAIN Disconnected(m) = DOMAIN m.servers
  BY DEF Disconnected
<1>3. ASSUME NEW s \in Instance
      PROVE  LET t == [s EXCEPT !.socket = << >>]
             IN  /\ t \in Instance /\ t.socket = << >>
                 /\ t.hostname = s.hostname /\ t.port = s.port
                 /\ t.weight = s.weight /\ t.next_retry = s.next_retry
  <2>1. << >> \in Seq(Socket)
    OBVIOUS
  <2>2. QED
    BY <2>1, Zenon DEF Instance
<1>4. \A i \in DOMAIN m.servers : Disconnected(m)[i] = [m.servers[i] EXCEPT !.socket = << >>]
  BY Zenon DEF Disconnected
<1>5. ASSUME NEW i \in DOMAIN m.servers
      PROVE  /\ Disconnected(m)[i] \in Instance
             /\ Disconnected(m)[i].socket = << >>
             /\ Disconnected(m)[i].hostname = m.servers[i].hostname
             /\ Disconnected(m)[i].port = m.servers[i].port
             /\ Disconnected(m)[i].weight = m.servers[i].weight
             /\ Disconnected(m)[i].next_retry = m.servers[i].next_retry
  <2> DEFINE s == m.servers[i]
             t == [s EXCEPT !.socket = << >>]
  <2>1. s \in Instance /\ Disconnected(m)[i] = t
    BY <1>1, <1>4, Zenon
  <2>2. /\ t \in Instance /\ t.socket = << >>
        /\ t.hostname = s.hostname /\ t.port = s.port
        /\ t.weight = s.weight /\ t.next_retry = s.next_retry
    <3> HIDE DEF s
    <3>1. QED
      BY <1>3, <2>1, Zenon
  <2>3. QED
    BY <2>1, <2>2, Zenon
<1>6. Disconnected(m) \in Seq(Instance)
  <2>1. Disconnected(m) \in [1..Len(m.servers) -> Instance]
    BY <1>1, <1>5, Zenon DEF Disconnected
  <2>2. QED
    BY <1>1, <2>1
<1>7. QED
  BY <1>2, <1>5, <1>6, Zenon

(* An update of the settings keeps a handle sound when the options of      *)
(* connections stay the same or the connections are closed.                *)
LEMMA SettingsUpdate ==
    ASSUME NEW m, NEW n, HandleInv(m), n = [f \in HandleFields |-> n[f]],
           n.flags \in [FlagNames -> BOOLEAN], n.numbers \in [Numbers -> Int], FlagsApart(n),
           n.flags.use_sort_hosts = m.flags.use_sort_hosts,
           \A f \in {"distribution", "weighted", "continuum", "continuum_count",
                     "built_with"} : n[f] = m[f],
           \/ n.servers = m.servers /\ SameOptions(m, n)
           \/ n.servers = Disconnected(m)
    PROVE  HandleInv(n)
<1>1. /\ n.distribution = m.distribution /\ n.weighted = m.weighted
      /\ n.continuum = m.continuum /\ n.continuum_count = m.continuum_count
      /\ n.built_with = m.built_with
  OBVIOUS
<1>2. IsHandle(m)
  BY Zenon DEF HandleInv
<1>3. /\ n.servers \in Seq(Instance)
      /\ DOMAIN n.servers = DOMAIN m.servers
      /\ \A i \in DOMAIN m.servers :
            /\ n.servers[i].hostname = m.servers[i].hostname
            /\ n.servers[i].port = m.servers[i].port
            /\ n.servers[i].weight = m.servers[i].weight
            /\ n.servers[i].next_retry = "never" => m.servers[i].next_retry = "never"
  <2>1. CASE n.servers = m.servers
    BY <1>2, <2>1, Zenon DEF IsHandle
  <2>2. CASE n.servers = Disconnected(m)
    BY <1>2, <2>2, DisconnectedServers
  <2>3. QED
    BY <2>1, <2>2, Zenon
<1>4. IsHandle(n)
  BY <1>1, <1>2, <1>3, Zenon DEF IsHandle
<1>5. Current(n)
  <2>1. CASE n.servers = m.servers /\ SameOptions(m, n)
    <3>1. \A k \in DOMAIN n.servers :
             \E i \in DOMAIN m.servers : /\ n.servers[k].socket = m.servers[i].socket
                                         /\ n.servers[k].type = m.servers[i].type
      BY <2>1, Zenon
    <3>2. QED
      BY <2>1, <3>1, SameCurrent, Zenon DEF HandleInv
  <2>2. CASE n.servers = Disconnected(m)
    BY <1>2, <2>2, DisconnectedServers DEF Current
  <2>3. QED
    BY <2>1, <2>2
<1>6. QED
  BY <1>1, <1>3, <1>4, <1>5, Transfer, Zenon

(* One flag of a handle is set.                                            *)
WithFlag(m, f, v) == [m EXCEPT !.flags = [m.flags EXCEPT ![f] = v]]

(* Setting a flag sets that flag only.                                     *)
LEMMA FlagUpdate ==
    ASSUME NEW m, IsHandle(m), NEW f \in FlagNames, NEW v \in BOOLEAN
    PROVE  LET n == WithFlag(m, f, v)
           IN  /\ n = [g \in HandleFields |-> n[g]]
               /\ n.flags \in [FlagNames -> BOOLEAN]
               /\ n.flags[f] = v
               /\ \A g \in FlagNames \ {f} : n.flags[g] = m.flags[g]
               /\ \A g \in HandleFields \ {"flags"} : n[g] = m[g]
               /\ IsHandle(n)
<1> DEFINE n == WithFlag(m, f, v)
           x == [m.flags EXCEPT ![f] = v]
<1>1. m = [g \in HandleFields |-> m[g]] /\ m.flags \in [FlagNames -> BOOLEAN]
  BY Zenon DEF IsHandle
<1>2. /\ x \in [FlagNames -> BOOLEAN] /\ x[f] = v
      /\ \A g \in FlagNames \ {f} : x[g] = m.flags[g]
  BY <1>1, Zenon
<1> HIDE DEF x
<1>3. n = [m EXCEPT !.flags = x]
  BY Zenon DEF WithFlag, x
<1>4. /\ n = [g \in HandleFields |-> n[g]] /\ n.flags = x
      /\ \A g \in HandleFields \ {"flags"} : n[g] = m[g]
  BY <1>1, <1>3, Zenon DEF HandleFields
<1> HIDE DEF n
<1>5. /\ n.numbers = m.numbers /\ n.distribution = m.distribution
      /\ n.weighted = m.weighted /\ n.continuum_count = m.continuum_count
      /\ n.servers = m.servers
  BY <1>4 DEF HandleFields
<1>6. IsHandle(n)
  BY <1>2, <1>4, <1>5, Zenon DEF IsHandle
<1>7. QED
  BY <1>2, <1>4, <1>6, Zenon DEF n

(* What SetBinary does to the flags.                                       *)
BinaryFlags(m, v, w) == [m EXCEPT !.flags.verify_key = @ /\ v, !.flags.binary_protocol = w]

(* SetBinary sets two flags.                                               *)
LEMMA TwoFlags ==
    ASSUME NEW m, IsHandle(m), NEW v, NEW w
    PROVE  BinaryFlags(m, v, w)
           = WithFlag(WithFlag(m, "verify_key", m.flags.verify_key /\ v), "binary_protocol", w)
<1> DEFINE x == [m.flags EXCEPT !["verify_key"] = m.flags.verify_key /\ v]
<1>1. m = [g \in HandleFields |-> m[g]]
  BY Zenon DEF IsHandle
<1>2. [m EXCEPT !.flags = x].flags = x
  BY <1>1, Zenon DEF HandleFields
<1>3. QED
  BY <1>2, Zenon DEF WithFlag, BinaryFlags

(* What SetUdp does to the flags.                                          *)
UdpFlags(m, v, w, u) ==
    [m EXCEPT !.flags.use_udp = v, !.flags.reply = w, !.flags.buffer_requests = @ /\ u]

(* SetUdp sets three flags.                                                *)
LEMMA ThreeFlags ==
    ASSUME NEW m, IsHandle(m), NEW v, NEW w, NEW u
    PROVE  UdpFlags(m, v, w, u)
           = WithFlag(WithFlag(WithFlag(m, "use_udp", v), "reply", w),
                      "buffer_requests", m.flags.buffer_requests /\ u)
<1> DEFINE x == [m.flags EXCEPT !["use_udp"] = v]
           y == [x EXCEPT !["reply"] = w]
<1>1. m = [g \in HandleFields |-> m[g]] /\ DOMAIN m.flags = FlagNames
  BY Zenon DEF IsHandle
<1>2. [m EXCEPT !.flags = x].flags = x
  BY <1>1, Zenon DEF HandleFields
<1>3. [[m EXCEPT !.flags = x] EXCEPT !.flags = y].flags = y
  BY <1>1, Zenon DEF HandleFields
<1>4. y.buffer_requests = m.flags.buffer_requests
  BY <1>1, Zenon DEF FlagNames
<1>5. QED
  BY <1>2, <1>3, <1>4, Zenon DEF WithFlag, UdpFlags

(* One number of a handle is set.                                          *)
WithNumber(m, b, v) == [m EXCEPT !.numbers[b] = v]

(* Setting a number sets that number only.                                 *)
LEMMA NumberUpdate ==
    ASSUME NEW m, IsHandle(m), NEW b \in Numbers, NEW v \in Int
    PROVE  LET n == WithNumber(m, b, v)
           IN  /\ n = [g \in HandleFields |-> n[g]]
               /\ n.numbers \in [Numbers -> Int]
               /\ n.numbers[b] = v
               /\ \A c \in Numbers \ {b} : n.numbers[c] = m.numbers[c]
               /\ \A g \in HandleFields \ {"numbers"} : n[g] = m[g]
               /\ IsHandle(n)
<1> DEFINE n == WithNumber(m, b, v)
           x == [m.numbers EXCEPT ![b] = v]
<1>1. m = [g \in HandleFields |-> m[g]] /\ m.numbers \in [Numbers -> Int]
  BY Zenon DEF IsHandle
<1>2. /\ x \in [Numbers -> Int] /\ x[b] = v
      /\ \A c \in Numbers \ {b} : x[c] = m.numbers[c]
  BY <1>1, Zenon
<1> HIDE DEF x
<1>3. n = [m EXCEPT !.numbers = x]
  BY Zenon DEF WithNumber, x
<1> HIDE DEF n
<1>4. /\ n = [g \in HandleFields |-> n[g]] /\ n.numbers = x
      /\ \A g \in HandleFields \ {"numbers"} : n[g] = m[g]
  BY <1>1, <1>3, Zenon DEF HandleFields
<1>5. /\ n.flags = m.flags /\ n.distribution = m.distribution
      /\ n.weighted = m.weighted /\ n.continuum_count = m.continuum_count
      /\ n.servers = m.servers
  BY <1>4 DEF HandleFields
<1>6. IsHandle(n)
  BY <1>2, <1>4, <1>5, Zenon DEF IsHandle
<1>7. QED
  BY <1>2, <1>4, <1>6, Zenon DEF n

(* Settings that change just before send_quit: every connection is closed. *)
LEMMA QuitInv ==
    ASSUME NEW m, NEW h, HandleInv(m), IsHandle(h), FlagsApart(h),
           h.flags.use_sort_hosts = m.flags.use_sort_hosts,
           \A f \in HandleFields \ {"flags", "numbers"} : h[f] = m[f]
    PROVE  LET n == send_quit(h)
           IN  /\ HandleInv(n) /\ n.servers = Disconnected(m)
               /\ \A f \in HandleFields \ {"servers"} : n[f] = h[f]
<1> DEFINE n == send_quit(h)
<1>1. h.servers = m.servers
  BY DEF HandleFields
<1>2. h = [g \in HandleFields |-> h[g]]
  BY Zenon DEF IsHandle
<1>3. n = [h EXCEPT !.servers = Disconnected(m)]
  BY <1>1, Zenon DEF send_quit, Disconnected
<1> HIDE DEF n
<1>4. /\ n = [g \in HandleFields |-> n[g]] /\ n.servers = Disconnected(m)
      /\ \A f \in HandleFields \ {"servers"} : n[f] = h[f]
  BY <1>2, <1>3, Zenon DEF HandleFields
<1>5. /\ n.flags = h.flags /\ n.numbers = h.numbers
      /\ n.flags \in [FlagNames -> BOOLEAN] /\ n.numbers \in [Numbers -> Int]
      /\ FlagsApart(n)
  <2>1. n.flags = h.flags /\ n.numbers = h.numbers
    BY <1>4 DEF HandleFields
  <2>2. QED
    BY <2>1, Zenon DEF IsHandle, FlagsApart
<1>6. \A f \in {"distribution", "weighted", "continuum", "continuum_count", "built_with"} :
         n[f] = m[f]
  BY <1>4 DEF HandleFields
<1>7. HandleInv(n)
  BY <1>4, <1>5, <1>6, SettingsUpdate, Zenon
<1>8. QED
  BY <1>4, <1>7, Zenon DEF n

-----------------------------------------------------------------------------
(* The values of behaviours.                                               *)

(* The remainder of a number, from its quotient.                           *)
LEMMA Remainder ==
    ASSUME NEW w \in Nat, w > 0, NEW q \in Nat, NEW r \in 0..(w - 1)
    PROVE  (q * w + r) % w = r
OBVIOUS

(* The range of a remainder.                                               *)
LEMMA RemainderType ==
    ASSUME NEW w \in Nat, w > 0, NEW d \in Nat
    PROVE  d % w \in 0..(w - 1)
OBVIOUS

(* Half a word is at most the rest of the word.                            *)
LEMMA HalfWord ==
    ASSUME NEW w \in Nat
    PROVE  w \div 2 \in Nat /\ w \div 2 <= w - w \div 2
OBVIOUS

(* A negative number of 64 bits that fits in 32 keeps its value.           *)
LEMMA UpperHalf ==
    ASSUME NEW w \in Nat, w > 0, NEW d \in Nat, d < w * w, NEW h \in Nat, h <= w - h,
           d >= w * w - h
    PROVE  d % w = d - w * w + w /\ d - w * w + w >= h /\ d - w * w < 0
<1>1. w * w \in Nat /\ w * w = (w - 1) * w + w /\ w - 1 \in Nat
  OBVIOUS
<1> DEFINE s == w * w
           p == (w - 1) * w
           r == d - s + w
<1>2. s \in Nat /\ p \in Int /\ s = p + w
  BY <1>1
<1>3. r \in 0..(w - 1) /\ r >= h /\ d - s < 0 /\ d = p + r
  <2> HIDE DEF s, p
  <2>1. d < s /\ d >= s - h
    BY DEF s
  <2>2. QED
    BY <1>2, <2>1
<1>4. ((w - 1) * w + r) % w = r
  <2> HIDE DEF r
  <2>1. QED
    BY <1>1, <1>3, Remainder
<1>5. QED
  BY <1>3, <1>4

(* A value that fits in 32 bits is read back as it was given, through the  *)
(* signed and through the unsigned field.                                  *)
LEMMA Conversion ==
    ASSUME NEW data \in Data
    PROVE  /\ uint32(data) \in Int /\ int32(data) \in Int
           /\ data < Word => uint64(uint32(data)) = data
           /\ data < Word \div 2 \/ data >= Word * Word - Word \div 2 =>
                 uint64(int32(data)) = data
<1>1. Word \in Nat /\ Word > 0 /\ Word * Word \in Nat
  BY WordAssumption
<1>2. data \in Nat /\ data < Word * Word
  BY <1>1 DEF Data
<1>3. data % Word \in 0..(Word - 1)
  BY <1>1, <1>2, RemainderType
<1>4. Word \div 2 \in Nat /\ Word \div 2 <= Word - Word \div 2
  BY <1>1, HalfWord
<1>5. data < Word => data % Word = data
  <2>1. SUFFICES ASSUME data < Word PROVE data % Word = data
    OBVIOUS
  <2>2. data \in 0..(Word - 1) /\ 0 * Word + data = data
    BY <1>1, <1>2, <2>1
  <2>3. (0 * Word + data) % Word = data
    BY <1>1, <2>2, Remainder
  <2>4. QED
    BY <2>2, <2>3
<1> DEFINE h == Word \div 2
           s == Word * Word
           r == data % Word
<1>6. data >= s - h => r = data - s + Word /\ data - s + Word >= h /\ data - s < 0
  BY <1>1, <1>2, <1>4, UpperHalf, Zenon
<1>7. /\ uint32(data) = r
      /\ int32(data) = IF r < h THEN r ELSE r - Word
      /\ \A x : uint64(x) = IF x < 0 THEN x + s ELSE x
  BY DEF uint32, int32, uint64
<1>8. h \in Nat /\ h <= Word - h /\ s \in Nat /\ r \in 0..(Word - 1) /\ (data < Word => r = data)
  BY <1>1, <1>3, <1>4, <1>5
<1> HIDE DEF h, s, r
<1>9. uint32(data) \in Int /\ int32(data) \in Int
  BY <1>1, <1>7, <1>8
<1>10. ASSUME data < Word PROVE uint64(uint32(data)) = data
  <2>1. uint32(data) = data /\ ~(data < 0)
    BY <1>2, <1>7, <1>8, <1>10
  <2>2. QED
    BY <1>7, <2>1
<1>11. ASSUME data < h PROVE uint64(int32(data)) = data
  <2>1. int32(data) = data /\ ~(data < 0)
    BY <1>1, <1>2, <1>7, <1>8, <1>11
  <2>2. QED
    BY <1>7, <2>1
<1>12. ASSUME data >= s - h PROVE uint64(int32(data)) = data
  <2>1. int32(data) = data - s /\ data - s < 0 /\ data - s + s = data
    BY <1>1, <1>2, <1>6, <1>7, <1>8, <1>12
  <2>2. QED
    BY <1>7, <2>1
<1>13. QED
  BY <1>9, <1>10, <1>11, <1>12 DEF h, s

-----------------------------------------------------------------------------
(* memcached_behavior_set.                                                 *)

(* The value a behaviour was set to is read back.                          *)
Reads(m, b, data, name) ==
    CASE b \in Numbers -> Fits(b, data) => GetNumber(m, b) = data
      [] b \in {"DISTRIBUTION", "HASH", "KETAMA_HASH"} -> GetName(m, b) = name
      [] OTHER -> GetFlag(m, b) = bool(data)

(* What holds of the result of setting a behaviour.                        *)
IsSet(m, r, b, data, name) ==
    /\ HandleInv(r.m)
    /\ r.rc = "SUCCESS" => Reads(r.m, b, data, name)
    /\ r.rc # "SUCCESS" => r.m = m \/ b \in {"HASH", "KETAMA_HASH"}

(* A behaviour that is refused.                                            *)
LEMMA RefusedIsSet ==
    ASSUME NEW m, HandleInv(m), NEW b, NEW data, NEW name, NEW rc, rc # "SUCCESS"
    PROVE  IsSet(m, Refused(m, rc), b, data, name)
BY DEF IsSet, Refused

(* A behaviour that is set.                                                *)
LEMMA OkIsSet ==
    ASSUME NEW m, NEW n, HandleInv(n), NEW b, NEW data, NEW name, Reads(n, b, data, name)
    PROVE  IsSet(m, Ok(n), b, data, name)
BY DEF IsSet, Ok

(* A flag that connections do not depend on is set.                        *)
LEMMA PlainFlag ==
    ASSUME NEW m, HandleInv(m), NEW v \in BOOLEAN,
           NEW f \in FlagNames \ {"binary_protocol", "use_udp", "no_block", "tcp_nodelay",
                                  "tcp_keepalive", "use_sort_hosts"},
           f = "reply" => ~(v /\ m.flags.use_udp),
           f = "buffer_requests" => ~(v /\ m.flags.use_udp),
           f = "verify_key" => ~(v /\ m.flags.binary_protocol)
    PROVE  HandleInv(WithFlag(m, f, v)) /\ WithFlag(m, f, v).flags[f] = v
<1> DEFINE n == WithFlag(m, f, v)
<1>1. IsHandle(m) /\ FlagsApart(m)
  BY Zenon DEF HandleInv
<1>2. /\ n = [g \in HandleFields |-> n[g]]
      /\ n.flags \in [FlagNames -> BOOLEAN]
      /\ n.flags[f] = v
      /\ \A g \in FlagNames \ {f} : n.flags[g] = m.flags[g]
      /\ \A g \in HandleFields \ {"flags"} : n[g] = m[g]
  BY <1>1, FlagUpdate
<1> HIDE DEF n
<1>3. FlagsApart(n)
  <2>1. n.flags.use_udp = m.flags.use_udp /\ n.flags.binary_protocol = m.flags.binary_protocol
    BY <1>2 DEF FlagNames
  <2>2. m.flags.use_udp => n.flags.reply = FALSE
    <3>1. CASE f = "reply"
      BY <1>2, <3>1
    <3>2. CASE f # "reply"
      <4>1. n.flags.reply = m.flags.reply
        BY <1>2, <3>2 DEF FlagNames
      <4>2. QED
        BY <1>1, <4>1 DEF FlagsApart, IsHandle, FlagNames
    <3>3. QED
      BY <3>1, <3>2, Zenon
  <2>3. m.flags.use_udp => n.flags.buffer_requests = FALSE
    <3>1. CASE f = "buffer_requests"
      BY <1>2, <3>1
    <3>2. CASE f # "buffer_requests"
      <4>1. n.flags.buffer_requests = m.flags.buffer_requests
        BY <1>2, <3>2 DEF FlagNames
      <4>2. QED
        BY <1>1, <4>1 DEF FlagsApart, IsHandle, FlagNames
    <3>3. QED
      BY <3>1, <3>2, Zenon
  <2>4. m.flags.binary_protocol => n.flags.verify_key = FALSE
    <3>1. CASE f = "verify_key"
      BY <1>2, <3>1
    <3>2. CASE f # "verify_key"
      <4>1. n.flags.verify_key = m.flags.verify_key
        BY <1>2, <3>2 DEF FlagNames
      <4>2. QED
        BY <1>1, <4>1 DEF FlagsApart, IsHandle, FlagNames
    <3>3. QED
      BY <3>1, <3>2, Zenon
  <2>5. QED
    BY <2>1, <2>2, <2>3, <2>4, Zenon DEF FlagsApart
<1>4. /\ n.flags.use_sort_hosts = m.flags.use_sort_hosts
      /\ n.servers = m.servers /\ n.numbers = m.numbers
      /\ n.numbers \in [Numbers -> Int]
      /\ \A g \in {"distribution", "weighted", "continuum", "continuum_count",
                   "built_with"} : n[g] = m[g]
  BY <1>1, <1>2, Zenon DEF HandleFields, FlagNames, IsHandle
<1>5. SameOptions(m, n)
  BY <1>2, <1>4 DEF SameOptions, FlagNames
<1>6. HandleInv(n)
  BY <1>2, <1>3, <1>4, <1>5, SettingsUpdate, Zenon
<1>7. QED
  BY <1>2, <1>6, Zenon DEF n

(* A number that connections do not depend on is set.                      *)
LEMMA PlainNumber ==
    ASSUME NEW m, HandleInv(m), NEW v \in Int,
           NEW b \in Numbers \ {"TCP_KEEPIDLE", "SOCKET_SEND_SIZE", "SOCKET_RECV_SIZE"}
    PROVE  HandleInv(WithNumber(m, b, v)) /\ WithNumber(m, b, v).numbers[b] = v
<1> DEFINE n == WithNumber(m, b, v)
<1>1. IsHandle(m) /\ FlagsApart(m)
  BY Zenon DEF HandleInv
<1>2. /\ n = [g \in HandleFields |-> n[g]]
      /\ n.numbers \in [Numbers -> Int] /\ n.numbers[b] = v
      /\ \A c \in Numbers \ {b} : n.numbers[c] = m.numbers[c]
      /\ \A g \in HandleFields \ {"numbers"} : n[g] = m[g]
  <2>1. b \in Numbers
    OBVIOUS
  <2>2. QED
    BY <1>1, <2>1, NumberUpdate
<1> HIDE DEF n
<1>3. /\ n.flags = m.flags /\ n.servers = m.servers
      /\ n.flags \in [FlagNames -> BOOLEAN]
      /\ \A g \in {"distribution", "weighted", "continuum", "continuum_count",
                   "built_with"} : n[g] = m[g]
  BY <1>1, <1>2, Zenon DEF HandleFields, IsHandle
<1>4. FlagsApart(n)
  BY <1>1, <1>3, Zenon DEF FlagsApart
<1>5. SameOptions(m, n)
  BY <1>2, <1>3 DEF SameOptions, Numbers, Unsigned, Signed
<1>6. HandleInv(n)
  BY <1>2, <1>3, <1>4, <1>5, SettingsUpdate, Zenon
<1>7. QED
  BY <1>2, <1>6, Zenon DEF n

(* A number that is kept in its field is read back.                        *)
LEMMA NumberReads ==
    ASSUME NEW m, NEW b \in Numbers, NEW data \in Data, NEW name,
           m.numbers[b] = IF b \in Signed THEN int32(data) ELSE uint32(data)
    PROVE  Reads(m, b, data, name)
<1>1. Fits(b, data) => GetNumber(m, b) = data
  <2>1. CASE b \in Signed
    BY <2>1, Conversion, Zenon DEF Fits, GetNumber
  <2>2. CASE b \notin Signed
    BY <2>2, Conversion, Zenon DEF Fits, GetNumber
  <2>3. QED
    BY <2>1, <2>2, Zenon
<1>2. b \notin {"DISTRIBUTION", "HASH", "KETAMA_HASH"}
  BY DEF Numbers, Signed, Unsigned
<1>3. QED
  BY <1>1, <1>2 DEF Reads

(* A flag that is kept in its bit is read back.                            *)
LEMMA FlagReads ==
    ASSUME NEW m, NEW b, b \notin Numbers, b \notin {"DISTRIBUTION", "HASH", "KETAMA_HASH"},
           NEW data, NEW name, GetFlag(m, b) = bool(data)
    PROVE  Reads(m, b, data, name)
BY Zenon DEF Reads

(* The first cases of memcached_behavior_set, for numbers.                 *)
LEMMA LimitIsSet ==
    ASSUME NEW m, HandleInv(m), NEW b \in Limits, NEW data \in Data, NEW name
    PROVE  IsSet(m, SetLimit(m, b, data), b, data, name)
<1> DEFINE v == IF b \in Signed THEN int32(data) ELSE uint32(data)
<1>1. CASE b = "SERVER_FAILURE_LIMIT" /\ data = 0
  <2>1. SetLimit(m, b, data) = Refused(m, "INVALID_ARGUMENTS")
    BY <1>1 DEF SetLimit
  <2>2. QED
    BY <2>1, RefusedIsSet
<1>2. CASE b = "REMOVE_FAILED_SERVERS"
  <2> DEFINE n == WithFlag(m, "auto_eject_hosts", bool(data))
  <2>1. SetLimit(m, b, data) = Ok(n)
    BY <1>2 DEF SetLimit, WithFlag
  <2>2. bool(data) \in BOOLEAN
    BY DEF bool
  <2>3. HandleInv(n) /\ n.flags["auto_eject_hosts"] = bool(data)
    BY <2>2, PlainFlag DEF FlagNames
  <2> HIDE DEF n
  <2>4. GetFlag(n, b) = bool(data)
    BY <1>2, <2>3 DEF GetFlag
  <2>5. b \notin Numbers /\ b \notin {"DISTRIBUTION", "HASH", "KETAMA_HASH"}
    BY <1>2 DEF Numbers, Signed, Unsigned
  <2>6. Reads(n, b, data, name)
    BY <2>4, <2>5, FlagReads
  <2>7. QED
    BY <2>1, <2>3, <2>6, OkIsSet, Zenon
<1>3. CASE b # "REMOVE_FAILED_SERVERS" /\ ~(b = "SERVER_FAILURE_LIMIT" /\ data = 0)
  <2> DEFINE n == WithNumber(m, b, v)
  <2>1. SetLimit(m, b, data) = Ok(n)
    BY <1>3 DEF SetLimit, WithNumber
  <2>2. b \in Numbers \ {"TCP_KEEPIDLE", "SOCKET_SEND_SIZE", "SOCKET_RECV_SIZE"}
    BY <1>3 DEF Limits, Numbers, Signed, Unsigned
  <2>3. v \in Int
    BY Conversion
  <2> HIDE DEF v
  <2>4. HandleInv(n) /\ n.numbers[b] = v
    BY <2>2, <2>3, PlainNumber
  <2> HIDE DEF n
  <2>5. Reads(n, b, data, name)
    BY <2>2, <2>4, NumberReads DEF v
  <2>6. QED
    BY <2>1, <2>4, <2>5, OkIsSet, Zenon
<1>4. QED
  BY <1>1, <1>2, <1>3, Zenon

(* The cases for timeouts and buffer sizes.                                *)
LEMMA TimeoutIsSet ==
    ASSUME NEW m, HandleInv(m), NEW b \in Timeouts, NEW data \in Data, NEW name
    PROVE  IsSet(m, SetTimeout(m, b, data), b, data, name)
<1> DEFINE v == IF b \in Signed THEN int32(data) ELSE uint32(data)
           n == WithNumber(m, b, v)
<1>1. b \in Numbers
  BY DEF Timeouts
<1>2. v \in Int
  BY Conversion
<1>3. SetTimeout(m, b, data) =
         Ok(IF b \in {"SOCKET_SEND_SIZE", "SOCKET_RECV_SIZE", "TCP_KEEPIDLE"}
            THEN send_quit(n) ELSE n)
  BY Zenon DEF SetTimeout, WithNumber
<1> HIDE DEF v
<1>4. CASE b \in {"SOCKET_SEND_SIZE", "SOCKET_RECV_SIZE", "TCP_KEEPIDLE"}
  <2> DEFINE q == send_quit(n)
  <2>1. IsHandle(m) /\ FlagsApart(m)
    BY Zenon DEF HandleInv
  <2>2. /\ IsHandle(n) /\ n.numbers[b] = v
        /\ \A g \in HandleFields \ {"numbers"} : n[g] = m[g]
    BY <1>1, <1>2, <2>1, NumberUpdate
  <2> HIDE DEF n
  <2>3. n.flags = m.flags
    BY <2>2 DEF HandleFields
  <2>4. FlagsApart(n) /\ n.flags.use_sort_hosts = m.flags.use_sort_hosts
    BY <2>1, <2>3, Zenon DEF FlagsApart
  <2>5. HandleInv(q) /\ \A f \in HandleFields \ {"servers"} : q[f] = n[f]
    <3>1. \A f \in HandleFields \ {"flags", "numbers"} : n[f] = m[f]
      BY <2>2
    <3>2. QED
      BY <2>2, <2>4, <3>1, QuitInv
  <2> HIDE DEF q
  <2>6. q.numbers[b] = v
    BY <2>2, <2>5 DEF HandleFields
  <2>7. Reads(q, b, data, name)
    BY <1>1, <2>6, NumberReads DEF v
  <2>8. QED
    BY <1>3, <1>4, <2>5, <2>7, OkIsSet, Zenon DEF q
<1>5. CASE b \notin {"SOCKET_SEND_SIZE", "SOCKET_RECV_SIZE", "TCP_KEEPIDLE"}
  <2>1. b \in Numbers \ {"TCP_KEEPIDLE", "SOCKET_SEND_SIZE", "SOCKET_RECV_SIZE"}
    BY <1>1, <1>5
  <2>2. HandleInv(n) /\ n.numbers[b] = v
    BY <1>2, <2>1, PlainNumber
  <2> HIDE DEF n
  <2>3. Reads(n, b, data, name)
    BY <1>1, <2>2, NumberReads DEF v
  <2>4. QED
    BY <1>3, <1>5, <2>2, <2>3, OkIsSet, Zenon
<1>6. QED
  BY <1>4, <1>5, Zenon

(* A behaviour kept in a flag that excludes no other.                      *)
LEMMA FlagIsSet ==
    ASSUME NEW m, HandleInv(m), NEW data \in Data, NEW name, NEW v \in BOOLEAN,
           NEW f \in FlagNames \ {"binary_protocol", "use_udp", "no_block", "tcp_nodelay",
                                  "tcp_keepalive", "use_sort_hosts"},
           f = "reply" => ~(v /\ m.flags.use_udp),
           f = "buffer_requests" => ~(v /\ m.flags.use_udp),
           f = "verify_key" => ~(v /\ m.flags.binary_protocol),
           NEW b, b \notin Numbers, b \notin {"DISTRIBUTION", "HASH", "KETAMA_HASH"},
           \A n : n.flags[f] = v => GetFlag(n, b) = bool(data)
    PROVE  IsSet(m, Ok(WithFlag(m, f, v)), b, data, name)
<1> DEFINE n == WithFlag(m, f, v)
<1>1. HandleInv(n) /\ n.flags[f] = v
  BY PlainFlag
<1> HIDE DEF n
<1>2. GetFlag(n, b) = bool(data)
  BY <1>1
<1>3. Reads(n, b, data, name)
  BY <1>2, FlagReads
<1>4. QED
  BY <1>1, <1>3, OkIsSet DEF n

(* The cases for what is read and verified.                                *)
LEMMA ReadingIsSet ==
    ASSUME NEW m, HandleInv(m), NEW b \in Readings, NEW data \in Data, NEW name
    PROVE  IsSet(m, SetReading(m, b, data), b, data, name)
<1>1. b \notin Numbers /\ b \notin {"DISTRIBUTION", "HASH", "KETAMA_HASH"}
  BY DEF Readings, Numbers, Signed, Unsigned
<1>2. bool(data) \in BOOLEAN /\ (~bool(data)) \in BOOLEAN
  BY DEF bool
<1>3. CASE b = "HASH_WITH_PREFIX_KEY"
  <2>1. SetReading(m, b, data) = Ok(WithFlag(m, "hash_with_namespace", bool(data)))
    BY <1>3 DEF SetReading, WithFlag
  <2>2. \A n : n.flags["hash_with_namespace"] = bool(data) => GetFlag(n, b) = bool(data)
    BY <1>3 DEF GetFlag
  <2>3. IsSet(m, Ok(WithFlag(m, "hash_with_namespace", bool(data))), b, data, name)
    BY <1>1, <1>2, <2>2, FlagIsSet DEF FlagNames
  <2>4. QED
    BY <2>1, <2>3, Zenon
<1>4. CASE b = "AUTO_EJECT_HOSTS"
  <2>1. SetReading(m, b, data) = Ok(WithFlag(m, "auto_eject_hosts", bool(data)))
    BY <1>4 DEF SetReading, WithFlag
  <2>2. \A n : n.flags["auto_eject_hosts"] = bool(data) => GetFlag(n, b) = bool(data)
    BY <1>4 DEF GetFlag
  <2>3. IsSet(m, Ok(WithFlag(m, "auto_eject_hosts", bool(data))), b, data, name)
    BY <1>1, <1>2, <2>2, FlagIsSet DEF FlagNames
  <2>4. QED
    BY <2>1, <2>3, Zenon
<1>5. CASE b = "RANDOMIZE_REPLICA_READ"
  <2>1. SetReading(m, b, data) = Ok(WithFlag(m, "randomize_replica_read", bool(data)))
    BY <1>5 DEF SetReading, WithFlag
  <2>2. \A n : n.flags["randomize_replica_read"] = bool(data) => GetFlag(n, b) = bool(data)
    BY <1>5 DEF GetFlag
  <2>3. IsSet(m, Ok(WithFlag(m, "randomize_replica_read", bool(data))), b, data, name)
    BY <1>1, <1>2, <2>2, FlagIsSet DEF FlagNames
  <2>4. QED
    BY <2>1, <2>3, Zenon
<1>6. CASE b = "NOREPLY" /\ ~(m.flags.use_udp /\ ~bool(data))
  <2>1. SetReading(m, b, data) = Ok(WithFlag(m, "reply", ~bool(data)))
    BY <1>6 DEF SetReading, WithFlag
  <2>2. \A n : n.flags["reply"] = ~bool(data) => GetFlag(n, b) = bool(data)
    BY <1>6, <1>2, Zenon DEF GetFlag
  <2>3. ~(~bool(data) /\ m.flags.use_udp)
    BY <1>6, Zenon
  <2>4. IsSet(m, Ok(WithFlag(m, "reply", ~bool(data))), b, data, name)
    BY <1>1, <1>2, <2>2, <2>3, FlagIsSet, Zenon DEF FlagNames
  <2>5. QED
    BY <2>1, <2>4, Zenon
<1>7. CASE b = "NOREPLY" /\ m.flags.use_udp /\ ~bool(data)
  <2>1. SetReading(m, b, data) = Refused(m, "INVALID_ARGUMENTS")
    BY <1>7 DEF SetReading
  <2>2. QED
    BY <2>1, RefusedIsSet
<1>8. CASE b \in {"USER_DATA", "CORK"}
  <2>1. SetReading(m, b, data) = Refused(m, "DEPRECATED")
    BY <1>8 DEF SetReading
  <2>2. QED
    BY <2>1, RefusedIsSet
<1>9. CASE b = "LOAD_FROM_FILE"
  <2>1. SetReading(m, b, data) = Refused(m, "INVALID_ARGUMENTS")
    BY <1>9 DEF SetReading
  <2>2. QED
    BY <2>1, RefusedIsSet
<1>10. QED
  BY <1>3, <1>4, <1>5, <1>6, <1>7, <1>8, <1>9 DEF Readings

(* A behaviour kept in a flag that a connection is opened with.            *)
LEMMA ClosingIsSet ==
    ASSUME NEW m, HandleInv(m), NEW data \in Data, NEW name, NEW v \in BOOLEAN,
           NEW f \in {"no_block", "tcp_nodelay", "tcp_keepalive", "buffer_requests"},
           f = "buffer_requests" => ~(v /\ m.flags.use_udp),
           NEW b, b \notin Numbers, b \notin {"DISTRIBUTION", "HASH", "KETAMA_HASH"},
           \A n : n.flags[f] = v => GetFlag(n, b) = bool(data)
    PROVE  IsSet(m, Ok(send_quit(WithFlag(m, f, v))), b, data, name)
<1> DEFINE h == WithFlag(m, f, v)
           n == send_quit(h)
<1>1. IsHandle(m) /\ FlagsApart(m)
  BY Zenon DEF HandleInv
<1>2. /\ h.flags[f] = v
      /\ \A g \in FlagNames \ {f} : h.flags[g] = m.flags[g]
      /\ \A g \in HandleFields \ {"flags"} : h[g] = m[g]
      /\ IsHandle(h)
  <2>1. f \in FlagNames
    BY DEF FlagNames
  <2>2. QED
    BY <1>1, <2>1, FlagUpdate
<1> HIDE DEF h
<1>3. /\ h.flags.use_udp = m.flags.use_udp /\ h.flags.binary_protocol = m.flags.binary_protocol
      /\ h.flags.reply = m.flags.reply /\ h.flags.verify_key = m.flags.verify_key
      /\ h.flags.use_sort_hosts = m.flags.use_sort_hosts
  BY <1>2 DEF FlagNames
<1>4. m.flags.use_udp => h.flags.buffer_requests = FALSE
  <2>1. CASE f = "buffer_requests"
    BY <1>2, <2>1
  <2>2. CASE f # "buffer_requests"
    <3>1. h.flags.buffer_requests = m.flags.buffer_requests
      BY <1>2, <2>2 DEF FlagNames
    <3>2. QED
      BY <1>1, <3>1 DEF FlagsApart, IsHandle, FlagNames
  <2>3. QED
    BY <2>1, <2>2, Zenon
<1>5. FlagsApart(h)
  BY <1>1, <1>3, <1>4, Zenon DEF FlagsApart
<1>6. HandleInv(n) /\ \A g \in HandleFields \ {"servers"} : n[g] = h[g]
  <2>1. \A g \in HandleFields \ {"flags", "numbers"} : h[g] = m[g]
    BY <1>2
  <2>2. QED
    BY <1>2, <1>3, <1>5, <2>1, QuitInv
<1> HIDE DEF n
<1>7. n.flags[f] = v
  BY <1>2, <1>6 DEF HandleFields
<1>8. Reads(n, b, data, name)
  BY <1>7, FlagReads
<1>9. QED
  BY <1>6, <1>8, OkIsSet DEF n, h

(* The binary protocol stops the verification of keys and closes the       *)
(* connections.                                                            *)
LEMMA BinaryIsSet ==
    ASSUME NEW m, HandleInv(m), NEW data \in Data, NEW name
    PROVE  IsSet(m, Ok(SetBinary(m, data)), "BINARY_PROTOCOL", data, name)
<1> DEFINE q == send_quit(m)
           v == m.flags.verify_key /\ ~bool(data)
           p == WithFlag(q, "verify_key", v)
           n == WithFlag(p, "binary_protocol", bool(data))
<1>1. IsHandle(m) /\ FlagsApart(m)
  BY Zenon DEF HandleInv
<1>2. /\ HandleInv(q) /\ q.servers = Disconnected(m)
      /\ \A f \in HandleFields \ {"servers"} : q[f] = m[f]
  BY <1>1, QuitInv
<1>3. IsHandle(q) /\ FlagsApart(q)
  BY <1>2, Zenon DEF HandleInv
<1>4. q.flags = m.flags
  BY <1>2 DEF HandleFields
<1>5. SetBinary(m, data) = n
  <2> DEFINE x == ~bool(data)
             y == bool(data)
  <2>1. SetBinary(m, data) = BinaryFlags(q, x, y)
    BY Zenon DEF SetBinary, BinaryFlags
  <2>2. n = WithFlag(WithFlag(q, "verify_key", q.flags.verify_key /\ x), "binary_protocol", y)
    BY <1>4, Zenon
  <2> HIDE DEF q, x, y, n
  <2>3. QED
    BY <1>3, <2>1, <2>2, TwoFlags
<1> HIDE DEF q
<1>6. bool(data) \in BOOLEAN /\ v \in BOOLEAN
  BY DEF bool
<1> HIDE DEF v
<1>7. /\ p.flags["verify_key"] = v
      /\ \A g \in FlagNames \ {"verify_key"} : p.flags[g] = q.flags[g]
      /\ \A g \in HandleFields \ {"flags"} : p[g] = q[g]
      /\ IsHandle(p)
  <2>1. "verify_key" \in FlagNames
    BY DEF FlagNames
  <2>2. QED
    BY <1>3, <1>6, <2>1, FlagUpdate
<1> HIDE DEF p
<1>8. /\ n = [g \in HandleFields |-> n[g]]
      /\ n.flags \in [FlagNames -> BOOLEAN]
      /\ n.flags["binary_protocol"] = bool(data)
      /\ \A g \in FlagNames \ {"binary_protocol"} : n.flags[g] = p.flags[g]
      /\ \A g \in HandleFields \ {"flags"} : n[g] = p[g]
  <2>1. "binary_protocol" \in FlagNames
    BY DEF FlagNames
  <2>2. QED
    BY <1>6, <1>7, <2>1, FlagUpdate
<1> HIDE DEF n
<1>9. /\ n.flags.verify_key = v /\ n.flags.use_udp = m.flags.use_udp
      /\ n.flags.reply = m.flags.reply
      /\ n.flags.buffer_requests = m.flags.buffer_requests
      /\ n.flags.use_sort_hosts = m.flags.use_sort_hosts
  BY <1>4, <1>7, <1>8 DEF FlagNames
<1>10. FlagsApart(n)
  BY <1>1, <1>8, <1>9, Zenon DEF FlagsApart, v
<1>11. /\ n.servers = Disconnected(m)
       /\ \A f \in {"distribution", "weighted", "continuum", "continuum_count",
                    "built_with", "numbers"} : n[f] = m[f]
  BY <1>2, <1>7, <1>8 DEF HandleFields
<1>12. n.numbers \in [Numbers -> Int]
  BY <1>1, <1>11 DEF IsHandle
<1>13. HandleInv(n)
  <2>1. \A f \in {"distribution", "weighted", "continuum", "continuum_count",
                  "built_with"} : n[f] = m[f]
    BY <1>11
  <2>2. QED
    BY <1>8, <1>9, <1>10, <1>11, <1>12, <2>1, SettingsUpdate, Zenon
<1>14. Reads(n, "BINARY_PROTOCOL", data, name)
  <2>1. GetFlag(n, "BINARY_PROTOCOL") = bool(data)
    BY <1>8 DEF GetFlag
  <2>2. "BINARY_PROTOCOL" \notin Numbers
    BY DEF Numbers, Signed, Unsigned
  <2>3. QED
    BY <2>1, <2>2, FlagReads
<1>15. QED
  BY <1>5, <1>13, <1>14, OkIsSet, Zenon

(* UDP stops replies and buffering and closes the connections.             *)
LEMMA UdpIsSet ==
    ASSUME NEW m, HandleInv(m), NEW data \in Data, NEW name
    PROVE  IsSet(m, Ok(SetUdp(m, data)), "USE_UDP", data, name)
<1> DEFINE q == send_quit(m)
           d == bool(data)
           e == ~bool(data)
           v == m.flags.buffer_requests /\ ~bool(data)
           o == WithFlag(q, "use_udp", d)
           p == WithFlag(o, "reply", e)
           n == WithFlag(p, "buffer_requests", v)
<1>1. IsHandle(m) /\ FlagsApart(m)
  BY Zenon DEF HandleInv
<1>2. /\ HandleInv(q) /\ q.servers = Disconnected(m)
      /\ \A f \in HandleFields \ {"servers"} : q[f] = m[f]
  BY <1>1, QuitInv
<1>3. IsHandle(q) /\ FlagsApart(q)
  BY <1>2, Zenon DEF HandleInv
<1>4. q.flags = m.flags
  BY <1>2 DEF HandleFields
<1>5. SetUdp(m, data) = n
  <2>1. SetUdp(m, data) = UdpFlags(q, d, e, e)
    BY Zenon DEF SetUdp, UdpFlags
  <2>2. n = WithFlag(WithFlag(WithFlag(q, "use_udp", d), "reply", e),
                     "buffer_requests", q.flags.buffer_requests /\ e)
    BY <1>4, Zenon
  <2> HIDE DEF q, d, e, n
  <2>3. QED
    BY <1>3, <2>1, <2>2, ThreeFlags
<1> HIDE DEF q
<1>6. d \in BOOLEAN /\ e \in BOOLEAN /\ v \in BOOLEAN
  BY DEF bool
<1> HIDE DEF d, e, v
<1>7. /\ o.flags["use_udp"] = d
      /\ \A g \in FlagNames \ {"use_udp"} : o.flags[g] = q.flags[g]
      /\ \A g \in HandleFields \ {"flags"} : o[g] = q[g]
      /\ IsHandle(o)
  BY <1>3, <1>6, FlagUpdate DEF FlagNames
<1> HIDE DEF o
<1>8. /\ p.flags["reply"] = e
      /\ \A g \in FlagNames \ {"reply"} : p.flags[g] = o.flags[g]
      /\ \A g \in HandleFields \ {"flags"} : p[g] = o[g]
      /\ IsHandle(p)
  BY <1>6, <1>7, FlagUpdate DEF FlagNames
<1> HIDE DEF p
<1>9. /\ n = [g \in HandleFields |-> n[g]]
      /\ n.flags \in [FlagNames -> BOOLEAN]
      /\ n.flags["buffer_requests"] = v
      /\ \A g \in FlagNames \ {"buffer_requests"} : n.flags[g] = p.flags[g]
      /\ \A g \in HandleFields \ {"flags"} : n[g] = p[g]
  BY <1>6, <1>8, FlagUpdate DEF FlagNames
<1> HIDE DEF n
<1>10. /\ n.flags.use_udp = d /\ n.flags.reply = e
       /\ n.flags.binary_protocol = m.flags.binary_protocol
       /\ n.flags.verify_key = m.flags.verify_key
       /\ n.flags.use_sort_hosts = m.flags.use_sort_hosts
  BY <1>4, <1>7, <1>8, <1>9 DEF FlagNames
<1>11. FlagsApart(n)
  BY <1>1, <1>9, <1>10, Zenon DEF FlagsApart, d, e, v
<1>12. /\ n.servers = Disconnected(m)
       /\ \A f \in {"distribution", "weighted", "continuum", "continuum_count",
                    "built_with", "numbers"} : n[f] = m[f]
  BY <1>2, <1>7, <1>8, <1>9 DEF HandleFields
<1>13. n.numbers \in [Numbers -> Int]
  BY <1>1, <1>12 DEF IsHandle
<1>14. HandleInv(n)
  <2>1. \A f \in {"distribution", "weighted", "continuum", "continuum_count",
                  "built_with"} : n[f] = m[f]
    BY <1>12
  <2>2. QED
    BY <1>9, <1>10, <1>11, <1>12, <1>13, <2>1, SettingsUpdate, Zenon
<1>15. Reads(n, "USE_UDP", data, name)
  <2>1. GetFlag(n, "USE_UDP") = bool(data)
    BY <1>10 DEF GetFlag, d
  <2>2. "USE_UDP" \notin Numbers
    BY DEF Numbers, Signed, Unsigned
  <2>3. QED
    BY <2>1, <2>2, FlagReads
<1>16. QED
  BY <1>5, <1>14, <1>15, OkIsSet, Zenon

(* The cases for protocol and transport.                                   *)
LEMMA TransportIsSet ==
    ASSUME NEW m, HandleInv(m), NEW b \in Transports, NEW data \in Data, NEW name
    PROVE  IsSet(m, SetTransport(m, b, data), b, data, name)
<1>1. b \notin Numbers /\ b \notin {"DISTRIBUTION", "HASH", "KETAMA_HASH"}
  BY DEF Transports, Numbers, Signed, Unsigned
<1>2. bool(data) \in BOOLEAN
  BY DEF bool
<1>3. CASE b = "BINARY_PROTOCOL"
  <2>1. SetTransport(m, b, data) = Ok(SetBinary(m, data))
    BY <1>3 DEF SetTransport
  <2>2. QED
    BY <1>3, <2>1, BinaryIsSet, Zenon
<1>4. CASE b = "USE_UDP"
  <2>1. SetTransport(m, b, data) = Ok(SetUdp(m, data))
    BY <1>4 DEF SetTransport
  <2>2. QED
    BY <1>4, <2>1, UdpIsSet, Zenon
<1>5. CASE b = "SUPPORT_CAS"
  <2>1. SetTransport(m, b, data) = Ok(WithFlag(m, "support_cas", bool(data)))
    BY <1>5 DEF SetTransport, WithFlag
  <2>2. \A n : n.flags["support_cas"] = bool(data) => GetFlag(n, b) = bool(data)
    BY <1>5 DEF GetFlag
  <2>3. IsSet(m, Ok(WithFlag(m, "support_cas", bool(data))), b, data, name)
    BY <1>1, <1>2, <2>2, FlagIsSet DEF FlagNames
  <2>4. QED
    BY <2>1, <2>3, Zenon
<1>6. CASE b = "NO_BLOCK"
  <2>1. SetTransport(m, b, data) = Ok(send_quit(WithFlag(m, "no_block", bool(data))))
    BY <1>6 DEF SetTransport, WithFlag
  <2>2. \A n : n.flags["no_block"] = bool(data) => GetFlag(n, b) = bool(data)
    BY <1>6 DEF GetFlag
  <2>3. IsSet(m, Ok(send_quit(WithFlag(m, "no_block", bool(data)))), b, data, name)
    BY <1>1, <1>2, <2>2, ClosingIsSet, Zenon
  <2>4. QED
    BY <2>1, <2>3, Zenon
<1>7. CASE b = "TCP_NODELAY"
  <2>1. SetTransport(m, b, data) = Ok(send_quit(WithFlag(m, "tcp_nodelay", bool(data))))
    BY <1>7 DEF SetTransport, WithFlag
  <2>2. \A n : n.flags["tcp_nodelay"] = bool(data) => GetFlag(n, b) = bool(data)
    BY <1>7 DEF GetFlag
  <2>3. IsSet(m, Ok(send_quit(WithFlag(m, "tcp_nodelay", bool(data)))), b, data, name)
    BY <1>1, <1>2, <2>2, ClosingIsSet, Zenon
  <2>4. QED
    BY <2>1, <2>3, Zenon
<1>8. CASE b = "TCP_KEEPALIVE"
  <2>1. SetTransport(m, b, data) = Ok(send_quit(WithFlag(m, "tcp_keepalive", bool(data))))
    BY <1>8 DEF SetTransport, WithFlag
  <2>2. \A n : n.flags["tcp_keepalive"] = bool(data) => GetFlag(n, b) = bool(data)
    BY <1>8 DEF GetFlag
  <2>3. IsSet(m, Ok(send_quit(WithFlag(m, "tcp_keepalive", bool(data)))), b, data, name)
    BY <1>1, <1>2, <2>2, ClosingIsSet, Zenon
  <2>4. QED
    BY <2>1, <2>3, Zenon
<1>9. CASE b = "BUFFER_REQUESTS" /\ ~m.flags.use_udp
  <2>1. SetTransport(m, b, data) = Ok(send_quit(WithFlag(m, "buffer_requests", bool(data))))
    BY <1>9 DEF SetTransport, WithFlag
  <2>2. \A n : n.flags["buffer_requests"] = bool(data) => GetFlag(n, b) = bool(data)
    BY <1>9 DEF GetFlag
  <2>3. IsSet(m, Ok(send_quit(WithFlag(m, "buffer_requests", bool(data)))), b, data, name)
    BY <1>1, <1>2, <1>9, <2>2, ClosingIsSet
  <2>4. QED
    BY <2>1, <2>3, Zenon
<1>10. CASE b = "BUFFER_REQUESTS" /\ m.flags.use_udp
  <2>1. SetTransport(m, b, data) = Refused(m, "INVALID_ARGUMENTS")
    BY <1>10 DEF SetTransport
  <2>2. QED
    BY <2>1, RefusedIsSet
<1>11. QED
  BY <1>3, <1>4, <1>5, <1>6, <1>7, <1>8, <1>9, <1>10 DEF Transports

(* A behaviour that sets the distribution.                                 *)
LEMMA DistributionIsSet ==
    ASSUME Sorting, NEW m, NEW q, HandleInv(q), NEW type \in Distributions,
           NEW b, NEW data, NEW name,
           \A n : /\ n.distribution = type
                  /\ type \in {"CONSISTENT", "CONSISTENT_KETAMA"} => n.weighted = FALSE
                  /\ type = "CONSISTENT_WEIGHTED" => n.weighted = TRUE
                  => Reads(n, b, data, name)
    PROVE  IsSet(m, memcached_behavior_set_distribution(q, type), b, data, name)
<1> DEFINE n == run_distribution(Distributed(q, type))
<1>1. IsHandle(q) /\ FlagsApart(q) /\ Current(q)
  BY Zenon DEF HandleInv
<1>2. memcached_behavior_set_distribution(q, type) = Ok(n) /\ IsDistributed(q, n, type)
  BY <1>1, SetDistribution
<1> HIDE DEF n
<1>3. HandleInv(n) /\ Reads(n, b, data, name)
  BY <1>2, Zenon DEF IsDistributed
<1>4. QED
  BY <1>2, <1>3, OkIsSet, Zenon

(* Setting the hash of the keys leaves the continuum as it is.             *)
LEMMA KeyHash ==
    ASSUME NEW m, HandleInv(m), NEW type
    PROVE  LET n == memcached_behavior_set_key_hash(m, type).m
           IN  /\ HandleInv(n) /\ n.base_hash = set_function(type)
               /\ \A f \in HandleFields \ {"base_hash"} : n[f] = m[f]
<1> DEFINE h == set_function(type)
           n == [m EXCEPT !.base_hash = h]
<1>1. m = [f \in HandleFields |-> m[f]]
  BY Zenon DEF HandleInv, IsHandle
<1> HIDE DEF h
<1>2. n = [f \in HandleFields |-> n[f]] /\ n.base_hash = h
  BY <1>1, Zenon DEF HandleFields
<1>3. \A f \in HandleFields \ {"base_hash"} : n[f] = m[f]
  BY <1>1, Zenon DEF HandleFields
<1>4. memcached_behavior_set_key_hash(m, type).m = n
  BY DEF memcached_behavior_set_key_hash, h
<1> HIDE DEF n
<1>5. \A f \in {"flags", "numbers", "distribution", "weighted", "continuum",
                "continuum_count", "built_with", "servers"} : n[f] = m[f]
  BY <1>3 DEF HandleFields
<1>6. HandleInv(n)
  BY <1>2, <1>5, MinorUpdate
<1>7. QED
  BY <1>2, <1>3, <1>4, <1>6, Zenon DEF h

(* Setting the hash of the continuum.                                      *)
LEMMA DistributionHash ==
    ASSUME NEW m, HandleInv(m), NEW type
    PROVE  LET n == memcached_behavior_set_distribution_hash(m, type).m
           IN  /\ HandleInv(n) /\ n.distribution_hash = set_function(type)
               /\ \A f \in HandleFields \ {"distribution_hash"} : n[f] = m[f]
<1> DEFINE h == set_function(type)
           n == [m EXCEPT !.distribution_hash = h]
<1>1. m = [f \in HandleFields |-> m[f]]
  BY Zenon DEF HandleInv, IsHandle
<1> HIDE DEF h
<1>2. n = [f \in HandleFields |-> n[f]] /\ n.distribution_hash = h
  BY <1>1, Zenon DEF HandleFields
<1>3. \A f \in HandleFields \ {"distribution_hash"} : n[f] = m[f]
  BY <1>1, Zenon DEF HandleFields
<1>4. memcached_behavior_set_distribution_hash(m, type).m = n
  BY DEF memcached_behavior_set_distribution_hash, h
<1> HIDE DEF n
<1>5. \A f \in {"flags", "numbers", "distribution", "weighted", "continuum",
                "continuum_count", "built_with", "servers"} : n[f] = m[f]
  BY <1>3 DEF HandleFields
<1>6. HandleInv(n)
  BY <1>2, <1>5, MinorUpdate
<1>7. QED
  BY <1>2, <1>3, <1>4, <1>6, Zenon DEF h

(* SORT_HOSTS sorts the hosts there are.                                   *)
LEMMA SortIsSet ==
    ASSUME Sorting, NEW m, HandleInv(m), NEW data \in Data, NEW name
    PROVE  IsSet(m, Ok(run_distribution(WithFlag(m, "use_sort_hosts", bool(data)))),
                 "SORT_HOSTS", data, name)
<1> DEFINE h == WithFlag(m, "use_sort_hosts", bool(data))
           n == run_distribution(h)
<1>1. IsHandle(m) /\ FlagsApart(m) /\ Current(m) /\ WeightsUsed(m)
  BY Zenon DEF HandleInv
<1>2. bool(data) \in BOOLEAN
  BY DEF bool
<1>3. /\ h.flags["use_sort_hosts"] = bool(data)
      /\ \A g \in FlagNames \ {"use_sort_hosts"} : h.flags[g] = m.flags[g]
      /\ \A g \in HandleFields \ {"flags"} : h[g] = m[g]
      /\ IsHandle(h)
  BY <1>1, <1>2, FlagUpdate DEF FlagNames
<1> HIDE DEF h
<1>4. /\ h.servers = m.servers /\ h.numbers = m.numbers /\ h.weighted = m.weighted
      /\ h.distribution = m.distribution
  BY <1>3 DEF HandleFields
<1>5. /\ h.flags.use_udp = m.flags.use_udp /\ h.flags.reply = m.flags.reply
      /\ h.flags.buffer_requests = m.flags.buffer_requests
      /\ h.flags.binary_protocol = m.flags.binary_protocol
      /\ h.flags.verify_key = m.flags.verify_key
      /\ SameOptions(m, h)
  BY <1>3, <1>4 DEF FlagNames, SameOptions
<1>6. FlagsApart(h) /\ WeightsUsed(h)
  BY <1>1, <1>4, <1>5, Zenon DEF FlagsApart, WeightsUsed
<1>7. Current(h)
  BY <1>1, <1>4, <1>5, SameCurrent, Zenon
<1>8. Runnable(h)
  BY <1>3, <1>6, <1>7, Zenon DEF Runnable
<1>9. /\ HandleInv(n)
      /\ \A f \in HandleFields \ {"servers", "continuum", "continuum_count",
                                  "built_with"} : n[f] = h[f]
  BY <1>8, RunDistribution, Zenon
<1> HIDE DEF n
<1>10. n.flags = h.flags
  BY <1>9 DEF HandleFields
<1>11. GetFlag(n, "SORT_HOSTS") = bool(data)
  BY <1>3, <1>10 DEF GetFlag
<1>12. Reads(n, "SORT_HOSTS", data, name)
  <2>1. "SORT_HOSTS" \notin Numbers
    BY DEF Numbers, Signed, Unsigned
  <2>2. QED
    BY <1>11, <2>1, FlagReads
<1>13. QED
  BY <1>9, <1>12, OkIsSet, Zenon DEF n, h

(* The cases for distribution, hashes and the order of hosts.              *)
LEMMA PlacementIsSet ==
    ASSUME Sorting, NEW m, HandleInv(m), NEW b \in Placements, NEW data \in Data, NEW name
    PROVE  IsSet(m, SetPlacement(m, b, data, name), b, data, name)
<1>1. b \notin Numbers
  BY DEF Placements, Numbers, Signed, Unsigned
<1>2. bool(data) \in BOOLEAN
  BY DEF bool
<1>3. CASE b = "DISTRIBUTION"
  <2>1. SetPlacement(m, b, data, name) = memcached_behavior_set_distribution(m, name)
    BY <1>3 DEF SetPlacement
  <2>2. CASE name \in Distributions
    <3>1. \A n : n.distribution = name => Reads(n, b, data, name)
      BY <1>1, <1>3 DEF Reads, GetName
    <3>2. IsSet(m, memcached_behavior_set_distribution(m, name), b, data, name)
      BY <2>2, <3>1, DistributionIsSet, Zenon
    <3>3. QED
      BY <2>1, <3>2, Zenon
  <2>3. CASE name \notin Distributions
    <3>1. memcached_behavior_set_distribution(m, name) = Refused(m, "INVALID_ARGUMENTS")
      BY <2>3, Zenon DEF memcached_behavior_set_distribution
    <3>2. QED
      BY <2>1, <3>1, RefusedIsSet
  <2>4. QED
    BY <2>2, <2>3, Zenon
<1>4. CASE b = "KETAMA"
  <2> DEFINE type == IF bool(data) THEN "CONSISTENT_KETAMA" ELSE "MODULA"
  <2>1. SetPlacement(m, b, data, name) = memcached_behavior_set_distribution(m, type)
    BY <1>4 DEF SetPlacement
  <2>2. type \in Distributions
    BY DEF Distributions
  <2>3. \A n : n.distribution = type => GetFlag(n, b) = bool(data)
    BY <1>2, <1>4 DEF GetFlag, memcached_is_consistent_distribution
  <2>4. \A n : n.distribution = type => Reads(n, b, data, name)
    BY <1>1, <1>4, <2>3, FlagReads
  <2> HIDE DEF type
  <2>5. IsSet(m, memcached_behavior_set_distribution(m, type), b, data, name)
    BY <2>2, <2>4, DistributionIsSet, Zenon
  <2>6. QED
    BY <2>1, <2>5, Zenon
<1>5. CASE b = "KETAMA_WEIGHTED" /\ bool(data)
  <2> DEFINE p == memcached_behavior_set_key_hash(m, "MD5").m
             q == memcached_behavior_set_distribution_hash(p, "MD5").m
  <2>1. SetPlacement(m, b, data, name) =
           memcached_behavior_set_distribution(q, "CONSISTENT_WEIGHTED")
    BY <1>5 DEF SetPlacement
  <2>2. HandleInv(p)
    BY KeyHash
  <2> HIDE DEF p
  <2>3. HandleInv(q)
    BY <2>2, DistributionHash
  <2> HIDE DEF q
  <2>4. \A n : n.distribution = "CONSISTENT_WEIGHTED" /\ n.weighted = TRUE =>
            GetFlag(n, b) = bool(data)
    BY <1>2, <1>5, Zenon DEF GetFlag, memcached_is_consistent_distribution
  <2>5. \A n : n.distribution = "CONSISTENT_WEIGHTED" /\ n.weighted = TRUE =>
            Reads(n, b, data, name)
    BY <1>1, <1>5, <2>4, FlagReads, Zenon
  <2>6. IsSet(m, memcached_behavior_set_distribution(q, "CONSISTENT_WEIGHTED"), b, data, name)
    BY <2>3, <2>5, DistributionIsSet, Zenon DEF Distributions
  <2>7. QED
    BY <2>1, <2>6, Zenon
<1>6. CASE b = "KETAMA_WEIGHTED" /\ ~bool(data)
  <2>1. SetPlacement(m, b, data, name) =
           memcached_behavior_set_distribution(m, "CONSISTENT_KETAMA")
    BY <1>6 DEF SetPlacement
  <2>2. \A n : n.weighted = FALSE => GetFlag(n, b) = bool(data)
    BY <1>2, <1>6 DEF GetFlag
  <2>3. \A n : n.weighted = FALSE => Reads(n, b, data, name)
    BY <1>1, <1>6, <2>2, FlagReads
  <2>4. IsSet(m, memcached_behavior_set_distribution(m, "CONSISTENT_KETAMA"), b, data, name)
    BY <2>3, DistributionIsSet, Zenon DEF Distributions
  <2>5. QED
    BY <2>1, <2>4, Zenon
<1>7. CASE b = "HASH"
  <2> DEFINE r == memcached_behavior_set_key_hash(m, name)
  <2>1. SetPlacement(m, b, data, name) = r
    BY <1>7 DEF SetPlacement
  <2>2. HandleInv(r.m) /\ r.m.base_hash = set_function(name)
    BY KeyHash
  <2>3. r.rc = "SUCCESS" => name \in Hashes
    BY DEF memcached_behavior_set_key_hash
  <2> HIDE DEF r
  <2>4. r.rc = "SUCCESS" => r.m.base_hash = name
    BY <2>2, <2>3, Zenon DEF set_function
  <2>5. r.rc = "SUCCESS" => Reads(r.m, b, data, name)
    BY <1>1, <1>7, <2>4 DEF Reads, GetName
  <2>6. QED
    BY <1>7, <2>1, <2>2, <2>5, Zenon DEF IsSet
<1>8. CASE b = "KETAMA_HASH"
  <2> DEFINE r == memcached_behavior_set_distribution_hash(m, name)
  <2>1. SetPlacement(m, b, data, name) = r
    BY <1>8 DEF SetPlacement
  <2>2. HandleInv(r.m) /\ r.m.distribution_hash = set_function(name)
    BY DistributionHash
  <2>3. r.rc = "SUCCESS" => name \in Hashes
    BY DEF memcached_behavior_set_distribution_hash
  <2> HIDE DEF r
  <2>4. r.rc = "SUCCESS" => r.m.distribution_hash = name
    BY <2>2, <2>3, Zenon DEF set_function
  <2>5. r.rc = "SUCCESS" => Reads(r.m, b, data, name)
    BY <1>1, <1>8, <2>4 DEF Reads, GetName
  <2>6. QED
    BY <1>8, <2>1, <2>2, <2>5, Zenon DEF IsSet
<1>9. CASE b = "CACHE_LOOKUPS"
  <2>1. SetPlacement(m, b, data, name) = Refused(m, "DEPRECATED")
    BY <1>9 DEF SetPlacement
  <2>2. QED
    BY <2>1, RefusedIsSet
<1>10. CASE b = "VERIFY_KEY" /\ m.flags.binary_protocol
  <2>1. SetPlacement(m, b, data, name) = Refused(m, "INVALID_ARGUMENTS")
    BY <1>10 DEF SetPlacement
  <2>2. QED
    BY <2>1, RefusedIsSet
<1>11. CASE b = "VERIFY_KEY" /\ ~m.flags.binary_protocol
  <2>1. SetPlacement(m, b, data, name) = Ok(WithFlag(m, "verify_key", bool(data)))
    BY <1>11 DEF SetPlacement, WithFlag
  <2>2. \A n : n.flags["verify_key"] = bool(data) => GetFlag(n, b) = bool(data)
    BY <1>11 DEF GetFlag
  <2>3. IsSet(m, Ok(WithFlag(m, "verify_key", bool(data))), b, data, name)
    BY <1>1, <1>2, <1>11, <2>2, FlagIsSet DEF FlagNames
  <2>4. QED
    BY <2>1, <2>3, Zenon
<1>12. CASE b = "SORT_HOSTS"
  <2>1. SetPlacement(m, b, data, name) =
           Ok(run_distribution(WithFlag(m, "use_sort_hosts", bool(data))))
    BY <1>12 DEF SetPlacement, WithFlag
  <2>2. QED
    BY <1>12, <2>1, SortIsSet, Zenon
<1>13. QED
  BY <1>3, <1>4, <1>5, <1>6, <1>7, <1>8, <1>9, <1>10, <1>11, <1>12 DEF Placements

(* memcached_behavior_set gives a sound handle in which the behaviour is   *)
(* read back, or refuses and changes nothing but a hash.                   *)
LEMMA BehaviorIsSet ==
    ASSUME Sorting, NEW m, HandleInv(m), NEW b \in Behaviors, NEW data \in Data, NEW name
    PROVE  IsSet(m, memcached_behavior_set(m, b, data, name), b, data, name)
<1> DEFINE r == memcached_behavior_set(m, b, data, name)
<1>1. CASE b \in Limits
  <2>1. b \notin Transports \cup Placements \cup Timeouts \cup Readings
    BY <1>1 DEF Limits, Transports, Placements, Timeouts, Readings, Unsigned
  <2>2. r = SetLimit(m, b, data)
    BY <1>1, <2>1 DEF memcached_behavior_set
  <2>3. QED
    BY <1>1, <2>2, LimitIsSet, Zenon
<1>2. CASE b \in Transports
  <2>1. b \notin Limits \cup Placements \cup Timeouts \cup Readings
    BY <1>2 DEF Limits, Transports, Placements, Timeouts, Readings, Numbers, Unsigned, Signed
  <2>2. r = SetTransport(m, b, data)
    BY <1>2, <2>1 DEF memcached_behavior_set
  <2>3. QED
    BY <1>2, <2>2, TransportIsSet, Zenon
<1>3. CASE b \in Placements
  <2>1. b \notin Limits \cup Transports \cup Timeouts \cup Readings
    BY <1>3 DEF Limits, Transports, Placements, Timeouts, Readings, Numbers, Unsigned, Signed
  <2>2. r = SetPlacement(m, b, data, name)
    BY <1>3, <2>1 DEF memcached_behavior_set
  <2>3. QED
    BY <1>3, <2>2, PlacementIsSet, Zenon
<1>4. CASE b \in Timeouts
  <2>1. b \notin Limits \cup Transports \cup Placements \cup Readings
    BY <1>4 DEF Limits, Transports, Placements, Timeouts, Readings, Numbers, Unsigned, Signed
  <2>2. r = SetTimeout(m, b, data)
    BY <1>4, <2>1 DEF memcached_behavior_set
  <2>3. QED
    BY <1>4, <2>2, TimeoutIsSet, Zenon
<1>5. CASE b \in Readings
  <2>1. b \notin Limits \cup Transports \cup Placements \cup Timeouts
    BY <1>5 DEF Limits, Transports, Placements, Timeouts, Readings, Numbers, Unsigned, Signed
  <2>2. r = SetReading(m, b, data)
    BY <1>5, <2>1 DEF memcached_behavior_set
  <2>3. QED
    BY <1>5, <2>2, ReadingIsSet, Zenon
<1>6. QED
  BY <1>1, <1>2, <1>3, <1>4, <1>5 DEF Behaviors

-----------------------------------------------------------------------------
(* The other calls.                                                        *)

(* A field of a handle that neither the settings nor the servers are in.   *)
WithField(m, f, v) == [m EXCEPT ![f] = v]

(* A field that nothing depends on is set.                                 *)
LEMMA MinorField ==
    ASSUME NEW m, HandleInv(m), NEW v,
           NEW f \in {"virtual_bucket", "namespace", "filename", "pool", "callbacks"}
    PROVE  LET n == WithField(m, f, v)
           IN  /\ HandleInv(n) /\ n[f] = v
               /\ \A g \in HandleFields \ {f} : n[g] = m[g]
<1> DEFINE n == WithField(m, f, v)
<1>1. m = [g \in HandleFields |-> m[g]]
  BY Zenon DEF HandleInv, IsHandle
<1>2. f \in HandleFields
  BY DEF HandleFields
<1>3. n = [g \in HandleFields |-> n[g]] /\ n[f] = v
  BY <1>1, <1>2, Zenon DEF WithField
<1>4. \A g \in HandleFields \ {f} : n[g] = m[g]
  BY <1>1, Zenon DEF WithField
<1> HIDE DEF n
<1>5. \A g \in {"flags", "numbers", "distribution", "weighted", "continuum",
                "continuum_count", "built_with", "servers"} : n[g] = m[g]
  BY <1>4 DEF HandleFields
<1>6. HandleInv(n)
  BY <1>3, <1>5, MinorUpdate
<1>7. QED
  BY <1>3, <1>4, <1>6, Zenon DEF n

(* memcached_create gives a sound handle.                                  *)
LEMMA CreateInv == HandleInv(memcached_create)
<1> DEFINE m == memcached_create
<1>1. m = [f \in HandleFields |-> m[f]]
  BY Zenon DEF HandleFields, memcached_create
<1>2. /\ m.flags \in [FlagNames -> BOOLEAN]
      /\ ~m.flags.use_udp /\ ~m.flags.binary_protocol /\ ~m.flags.use_sort_hosts
  <2> DEFINE f == m.flags
  <2>1. f = [auto_eject_hosts |-> FALSE, binary_protocol |-> FALSE,
             buffer_requests |-> FALSE, hash_with_namespace |-> FALSE,
             no_block |-> FALSE, reply |-> TRUE, randomize_replica_read |-> FALSE,
             support_cas |-> FALSE, tcp_nodelay |-> FALSE,
             use_sort_hosts |-> FALSE, use_udp |-> FALSE, verify_key |-> FALSE,
             tcp_keepalive |-> FALSE, is_fetching_version |-> FALSE]
    BY DEF memcached_create
  <2> HIDE DEF f
  <2>2. f = [g \in FlagNames |-> f[g]]
    BY <2>1, Zenon DEF FlagNames
  <2>3. \A g \in FlagNames : f[g] \in BOOLEAN
    <3>1. f["reply"] = TRUE /\ \A g \in FlagNames \ {"reply"} : f[g] = FALSE
      BY <2>1 DEF FlagNames
    <3>2. QED
      BY <3>1, Zenon
  <2>4. ~f.use_udp /\ ~f.binary_protocol /\ ~f.use_sort_hosts
    BY <2>1, Zenon
  <2>5. f \in [FlagNames -> BOOLEAN]
    BY <2>2, <2>3, Zenon
  <2>6. QED
    BY <2>4, <2>5, Zenon DEF f
<1>3. m.numbers \in [Numbers -> Int]
  <2>1. m.numbers = [b \in Numbers |->
                       IF b \in {"SOCKET_SEND_SIZE", "SOCKET_RECV_SIZE"} THEN -1 ELSE 1]
    BY DEF memcached_create
  <2>2. QED
    BY <2>1
<1>4. m.distribution = "MODULA" /\ m.weighted = FALSE /\ m.continuum_count = 0
  BY DEF memcached_create
<1>5. m.servers = << >>
  BY DEF memcached_create
<1> HIDE DEF m
<1>6. IsHandle(m)
  <2>1. m.servers \in Seq(Instance)
    <3>1. << >> \in Seq(Instance)
      OBVIOUS
    <3>2. QED
      BY <1>5, <3>1, Zenon
  <2>2. m.distribution \in Distributions /\ m.weighted \in BOOLEAN
    BY <1>4, Zenon DEF Distributions
  <2>3. m.continuum_count \in Nat
    BY <1>4
  <2>4. QED
    BY <1>1, <1>2, <1>3, <2>1, <2>2, <2>3, Zenon DEF IsHandle
<1>7. DOMAIN m.servers = {}
  BY <1>5
<1>8. FlagsApart(m) /\ Current(m) /\ HostsSorted(m)
  BY <1>2, <1>7, Zenon DEF FlagsApart, Current, HostsSorted
<1>9. WeightsUsed(m) /\ Rebuilt(m)
  BY <1>4, <1>5 DEF WeightsUsed, Rebuilt
<1>10. QED
  BY <1>6, <1>8, <1>9, Zenon DEF HandleInv, m

(* What holds of the result of a call that does nothing when it is refused.*)
IsSound(m, r) == HandleInv(r.m) /\ (r.rc # "SUCCESS" => r.m = m)

(* A call that is refused and does nothing.                                *)
LEMMA RefusedIsSound ==
    ASSUME NEW m, HandleInv(m), NEW rc
    PROVE  IsSound(m, Refused(m, rc))
BY DEF IsSound, Refused

(* A call that succeeds.                                                   *)
LEMMA OkIsSound ==
    ASSUME NEW m, NEW n, HandleInv(n)
    PROVE  IsSound(m, Ok(n))
BY DEF IsSound, Ok

(* memcached_set_namespace changes nothing when it refuses a key.          *)
LEMMA NamespaceSound ==
    ASSUME NEW m, HandleInv(m), NEW key
    PROVE  IsSound(m, memcached_set_namespace(m, key))
<1> DEFINE r == memcached_set_namespace(m, key)
           rc == memcached_key_test([m EXCEPT !.flags.verify_key = TRUE], key)
<1>1. \/ r = Ok(WithField(m, "namespace", NoName)) \/ r = Ok(WithField(m, "namespace", key))
      \/ r = Refused(m, "INVALID_ARGUMENTS") \/ r = Refused(m, rc)
      \/ r = Refused(m, "KEY_TOO_BIG")
  <2> HIDE DEF rc
  <2>1. r = CASE key = NoName -> Ok([m EXCEPT !.namespace = NoName])
              [] key # NoName /\ key.length = 0 -> Refused(m, "INVALID_ARGUMENTS")
              [] OTHER ->
                    CASE rc # "SUCCESS" -> Refused(m, rc)
                      [] rc = "SUCCESS" /\ key.length > MaxNamespace - 1 ->
                            Refused(m, "KEY_TOO_BIG")
                      [] OTHER -> Ok([m EXCEPT !.namespace = key])
    BY Zenon DEF memcached_set_namespace, rc
  <2> HIDE DEF r
  <2>2. QED
    BY <2>1, Zenon DEF WithField
<1>2. HandleInv(WithField(m, "namespace", NoName)) /\ HandleInv(WithField(m, "namespace", key))
  BY MinorField
<1> HIDE DEF r, rc
<1>3. QED
  BY <1>1, <1>2, RefusedIsSound, OkIsSound DEF r

(* memcached_callback_set changes nothing when it refuses.                 *)
LEMMA CallbackSound ==
    ASSUME NEW m, HandleInv(m), NEW callback, NEW data
    PROVE  IsSound(m, memcached_callback_set(m, callback, data))
<1> DEFINE r == memcached_callback_set(m, callback, data)
           x == [m.callbacks EXCEPT ![callback] = data]
<1>1. r = Ok(WithField(m, "callbacks", x)) \/ r = Refused(m, "INVALID_ARGUMENTS")
  BY Zenon DEF memcached_callback_set, WithField
<1> HIDE DEF x
<1>2. HandleInv(WithField(m, "callbacks", x))
  BY MinorField
<1> HIDE DEF r
<1>3. QED
  BY <1>1, <1>2, RefusedIsSound, OkIsSound DEF r

(* A server of the list is replaced.                                       *)
WithServer(m, i, t) == [m EXCEPT !.servers = [m.servers EXCEPT ![i] = t]]

(* A server is replaced that keeps its place on the continuum.             *)
LEMMA ServerUpdate ==
    ASSUME NEW m, HandleInv(m), NEW i \in DOMAIN m.servers, NEW t \in Instance,
           t.hostname = m.servers[i].hostname, t.port = m.servers[i].port,
           t.weight = m.servers[i].weight,
           t.next_retry = "never" => m.servers[i].next_retry = "never",
           t.socket # << >> => t.socket = << SocketOf(m, t) >>
    PROVE  HandleInv(WithServer(m, i, t))
<1> DEFINE q == [m.servers EXCEPT ![i] = t]
           n == [m EXCEPT !.servers = q]
<1>1. IsHandle(m) /\ FlagsApart(m) /\ Current(m) /\ m.servers \in Seq(Instance)
  BY Zenon DEF HandleInv, IsHandle
<1>2. /\ q \in Seq(Instance) /\ DOMAIN q = DOMAIN m.servers /\ q[i] = t
      /\ \A j \in DOMAIN m.servers \ {i} : q[j] = m.servers[j]
  <2>1. q \in Seq(Instance)
    BY <1>1
  <2>2. QED
    BY <2>1, Zenon
<1> HIDE DEF q
<1>3. IsHandle(n) /\ n.servers = q /\ \A f \in HandleFields \ {"servers"} : n[f] = m[f]
  BY <1>1, <1>2, UpdateServers
<1> HIDE DEF n
<1>4. /\ n.flags = m.flags /\ n.numbers = m.numbers /\ n.distribution = m.distribution
      /\ n.weighted = m.weighted /\ n.continuum = m.continuum
      /\ n.continuum_count = m.continuum_count /\ n.built_with = m.built_with
  BY <1>3 DEF HandleFields
<1>5. FlagsApart(n)
  BY <1>1, <1>4, Zenon DEF FlagsApart
<1>6. SameOptions(m, n)
  BY <1>4, Zenon DEF SameOptions
<1>7. Current(n)
  <2>1. \A s : SocketOf(n, s) = SocketOf(m, s)
    BY <1>6, SameSocket
  <2>2. ASSUME NEW j \in DOMAIN q, q[j].socket # << >>
        PROVE  q[j].socket = << SocketOf(n, q[j]) >>
    <3>1. CASE j = i
      BY <1>2, <2>1, <2>2, <3>1, Zenon
    <3>2. CASE j # i
      <4>1. j \in DOMAIN m.servers /\ q[j] = m.servers[j]
        BY <1>2, <3>2, Zenon
      <4>2. QED
        BY <1>1, <2>1, <2>2, <4>1, Zenon DEF Current
    <3>3. QED
      BY <3>1, <3>2, Zenon
  <2>3. QED
    BY <1>3, <2>2, Zenon DEF Current
<1>8. ASSUME NEW j \in DOMAIN m.servers
      PROVE  /\ q[j].hostname = m.servers[j].hostname
             /\ q[j].port = m.servers[j].port
             /\ q[j].weight = m.servers[j].weight
             /\ q[j].next_retry = "never" => m.servers[j].next_retry = "never"
  <2>1. CASE j = i
    BY <1>2, <2>1, Zenon
  <2>2. CASE j # i
    BY <1>2, <2>2, Zenon
  <2>3. QED
    BY <2>1, <2>2, Zenon
<1>9. HandleInv(n)
  <2>1. \A j \in DOMAIN m.servers :
           /\ n.servers[j].hostname = m.servers[j].hostname
           /\ n.servers[j].port = m.servers[j].port
           /\ n.servers[j].weight = m.servers[j].weight
           /\ n.servers[j].next_retry = "never" => m.servers[j].next_retry = "never"
    BY <1>3, <1>8, Zenon
  <2>2. n.flags.use_sort_hosts = m.flags.use_sort_hosts /\ DOMAIN n.servers = DOMAIN m.servers
    BY <1>2, <1>3, <1>4, Zenon
  <2>3. QED
    BY <1>3, <1>4, <1>5, <1>7, <2>1, <2>2, Transfer, Zenon
<1>10. QED
  BY <1>9, Zenon DEF n, q, WithServer

(* The type of what a connection is opened with.                           *)
LEMMA SocketType ==
    ASSUME NEW m, IsHandle(m), NEW s, s.type \in {"TCP", "UNIX_SOCKET"}
    PROVE  SocketOf(m, s) \in Socket
<1> DEFINE tcp == s.type = "TCP" /\ ~m.flags.use_udp
           size(b) == IF m.numbers[b] > 0 /\ tcp THEN m.numbers[b] ELSE 0
<1>1. /\ m.flags.binary_protocol \in BOOLEAN /\ m.flags.use_udp \in BOOLEAN
      /\ m.flags.no_block \in BOOLEAN /\ m.flags.tcp_nodelay \in BOOLEAN
      /\ m.flags.tcp_keepalive \in BOOLEAN
  BY Zenon DEF IsHandle, FlagNames
<1>2. /\ (tcp /\ m.flags.no_block) \in BOOLEAN /\ (tcp /\ m.flags.tcp_nodelay) \in BOOLEAN
      /\ (tcp /\ m.flags.tcp_keepalive) \in BOOLEAN
  BY Zenon
<1>3. \A b \in Numbers : m.numbers[b] \in Int
  BY Zenon DEF IsHandle
<1> HIDE DEF tcp
<1>4. ASSUME NEW b \in Numbers
      PROVE  size(b) \in Int
  BY <1>3
<1>5. {"TCP_KEEPIDLE", "SOCKET_SEND_SIZE", "SOCKET_RECV_SIZE"} \subseteq Numbers
  BY DEF Numbers, Signed, Unsigned
<1> HIDE DEF size
<1>6. /\ size("TCP_KEEPIDLE") \in Int /\ size("SOCKET_SEND_SIZE") \in Int
      /\ size("SOCKET_RECV_SIZE") \in Int
  BY <1>4, <1>5
<1>7. SocketOf(m, s) =
         [binary |-> m.flags.binary_protocol, udp |-> m.flags.use_udp,
          linger |-> tcp /\ m.flags.no_block, nodelay |-> tcp /\ m.flags.tcp_nodelay,
          keepalive |-> tcp /\ m.flags.tcp_keepalive, keepidle |-> size("TCP_KEEPIDLE"),
          sndbuf |-> size("SOCKET_SEND_SIZE"), rcvbuf |-> size("SOCKET_RECV_SIZE")]
  BY Zenon DEF SocketOf, tcp, size
<1>8. QED
  <2> DEFINE k == size("TCP_KEEPIDLE")
             o == size("SOCKET_SEND_SIZE")
             r == size("SOCKET_RECV_SIZE")
             l == tcp /\ m.flags.no_block
             d == tcp /\ m.flags.tcp_nodelay
             a == tcp /\ m.flags.tcp_keepalive
             b == m.flags.binary_protocol
             u == m.flags.use_udp
  <2>1. /\ k \in Int /\ o \in Int /\ r \in Int /\ l \in BOOLEAN /\ d \in BOOLEAN
        /\ a \in BOOLEAN /\ b \in BOOLEAN /\ u \in BOOLEAN
        /\ SocketOf(m, s) = [binary |-> b, udp |-> u, linger |-> l, nodelay |-> d,
                             keepalive |-> a, keepidle |-> k, sndbuf |-> o, rcvbuf |-> r]
    BY <1>1, <1>2, <1>6, <1>7, Zenon
  <2> HIDE DEF k, o, r, l, d, a, b, u
  <2>2. QED
    BY <2>1 DEF Socket

(* A connection is opened with the settings in force.                      *)
LEMMA ConnectInv ==
    ASSUME NEW m, HandleInv(m), NEW i \in DOMAIN m.servers
    PROVE  HandleInv(memcached_connect(m, i))
<1>1. CASE m.servers[i].socket # << >>
  BY <1>1, Zenon DEF memcached_connect
<1>2. CASE m.servers[i].socket = << >>
  <2> DEFINE s == m.servers[i]
             c == SocketOf(m, s)
             t == [s EXCEPT !.socket = << c >>]
  <2>1. IsHandle(m) /\ s \in Instance
    BY ListFacts DEF HandleInv, IsHandle
  <2>2. memcached_connect(m, i) = WithServer(m, i, t)
    BY <1>2, Zenon DEF memcached_connect, WithServer
  <2> HIDE DEF s
  <2>3. s.type \in {"TCP", "UNIX_SOCKET"}
    BY <2>1, Zenon DEF Instance
  <2>4. c \in Socket
    BY <2>1, <2>3, SocketType
  <2> HIDE DEF c
  <2>5. << c >> \in Seq(Socket)
    BY <2>4
  <2>6. /\ t \in Instance /\ t.hostname = s.hostname /\ t.port = s.port
        /\ t.weight = s.weight /\ t.next_retry = s.next_retry /\ t.type = s.type
        /\ t.socket = << c >>
    BY <2>1, <2>5, Zenon DEF Instance
  <2> HIDE DEF t
  <2>7. SocketOf(m, t) = c
    BY <2>6, Zenon DEF SocketOf, c
  <2>8. HandleInv(WithServer(m, i, t))
    BY <2>6, <2>7, ServerUpdate, Zenon DEF s
  <2>9. QED
    BY <2>2, <2>8, Zenon
<1>3. QED
  BY <1>1, <1>2, Zenon

(* A server is marked for retry, or the time of its retry passes.          *)
Retried(m, i) ==
    [m EXCEPT !.servers[i].next_retry = IF @ = "ahead" THEN "passed" ELSE "ahead"]

(* A server that failed leaves the continuum as it is.                     *)
LEMMA RetryInv ==
    ASSUME NEW m, HandleInv(m), NEW i \in DOMAIN m.servers
    PROVE  HandleInv(Retried(m, i))
<1> DEFINE s == m.servers[i]
           r == IF s.next_retry = "ahead" THEN "passed" ELSE "ahead"
           t == [s EXCEPT !.next_retry = r]
<1>1. s \in Instance
  BY ListFacts DEF HandleInv, IsHandle
<1>2. s.socket # << >> => s.socket = << SocketOf(m, s) >>
  BY Zenon DEF HandleInv, Current
<1>3. Retried(m, i) = WithServer(m, i, t)
  BY Zenon DEF Retried, WithServer
<1>4. r \in {"ahead", "passed"}
  BY Zenon
<1> HIDE DEF s, r
<1>5. /\ t \in Instance /\ t.hostname = s.hostname /\ t.port = s.port
      /\ t.weight = s.weight /\ t.next_retry = r /\ t.type = s.type
      /\ t.socket = s.socket
  BY <1>1, <1>4, Zenon DEF Instance
<1> HIDE DEF t
<1>6. SocketOf(m, t) = SocketOf(m, s)
  BY <1>5, Zenon DEF SocketOf
<1>7. t.next_retry # "never"
  BY <1>4, <1>5
<1>8. HandleInv(WithServer(m, i, t))
  BY <1>2, <1>5, <1>6, <1>7, ServerUpdate, Zenon DEF s
<1>9. QED
  BY <1>3, <1>8, Zenon

(* memcached_servers_reset leaves no server and no point.                  *)
LEMMA ServersResetInv ==
    ASSUME NEW m, HandleInv(m)
    PROVE  HandleInv(memcached_servers_reset(m))
<1> DEFINE n == memcached_servers_reset(m)
<1>1. m = [f \in HandleFields |-> m[f]] /\ IsHandle(m)
  BY Zenon DEF HandleInv, IsHandle
<1>2. /\ n = [f \in HandleFields |-> n[f]] /\ n.servers = << >> /\ n.continuum_count = 0
      /\ \A f \in HandleFields \ {"servers", "continuum", "continuum_count"} : n[f] = m[f]
  BY <1>1, Zenon DEF memcached_servers_reset, HandleFields
<1> HIDE DEF n
<1>3. /\ n.flags = m.flags /\ n.numbers = m.numbers /\ n.distribution = m.distribution
      /\ n.weighted = m.weighted
  BY <1>2, Zenon DEF HandleFields
<1>4. n.continuum_count \in Nat /\ n.servers \in Seq(Instance) /\ DOMAIN n.servers = {}
  <2>1. 0 \in Nat /\ << >> \in Seq(Instance) /\ DOMAIN << >> = {}
    OBVIOUS
  <2>2. QED
    BY <1>2, <2>1, Zenon
<1>5. IsHandle(n)
  BY <1>1, <1>2, <1>3, <1>4, Zenon DEF IsHandle
<1>6. Current(n) /\ HostsSorted(n) /\ Rebuilt(n)
  BY <1>2, <1>4, Zenon DEF Current, HostsSorted, Rebuilt
<1>7. FlagsApart(n) /\ WeightsUsed(n)
  BY <1>3, Zenon DEF FlagsApart, WeightsUsed, HandleInv
<1>8. QED
  BY <1>5, <1>6, <1>7, Zenon DEF HandleInv, n

-----------------------------------------------------------------------------
(* A distribution that is run again.                                       *)

(* Sorted hosts stay where they are.                                       *)
LEMMA SortAgain ==
    ASSUME Sorting, NEW m, m = [f \in HandleFields |-> m[f]], m.servers \in Seq(Instance),
           HostsSorted(m)
    PROVE  (IF m.flags.use_sort_hosts THEN sort_hosts(m) ELSE m) = m
<1>1. CASE m.flags.use_sort_hosts
  <2>1. InOrder(m.servers) = m.servers
    BY <1>1, Zenon DEF Sorting, HostsSorted
  <2>2. [m EXCEPT !.servers = m.servers] = m
    BY Zenon DEF HandleFields
  <2>3. QED
    BY <2>1, <2>2, Zenon DEF sort_hosts
<1>2. CASE ~m.flags.use_sort_hosts
  BY <1>2, Zenon
<1>3. QED
  BY <1>1, <1>2, Zenon

(* run_distribution changes nothing in a sound handle whose continuum is   *)
(* up to date.                                                             *)
LEMMA RunAgain ==
    ASSUME Sorting, NEW m, HandleInv(m),
           memcached_is_consistent_distribution(m) => UpToDate(m)
    PROVE  run_distribution(m) = m
<1>1. m = [f \in HandleFields |-> m[f]] /\ m.servers \in Seq(Instance) /\ HostsSorted(m)
  BY Zenon DEF HandleInv, IsHandle
<1>2. (IF m.flags.use_sort_hosts THEN sort_hosts(m) ELSE m) = m
  BY <1>1, SortAgain
<1>3. CASE ~memcached_is_consistent_distribution(m)
  BY <1>2, <1>3, Zenon DEF run_distribution
<1>4. CASE memcached_is_consistent_distribution(m)
  <2>1. run_distribution(m) = update_continuum(m)
    BY <1>2, <1>4, Zenon DEF run_distribution
  <2>2. CASE Live(m) = {}
    BY <2>1, <2>2, Zenon DEF update_continuum
  <2>3. CASE Live(m) # {}
    <3>1. m.servers # << >>
      BY <2>3 DEF Live
    <3>2. NeverFailed(m) /\ m.built_with = m.base_hash
      BY <1>4, Zenon DEF UpToDate, NeverFailed
    <3>3. [m EXCEPT !.base_hash = m.built_with] = m
      BY <1>1, <3>2, Zenon DEF HandleFields
    <3>4. /\ m.continuum = SortedPoints(AllPoints(m))
          /\ m.continuum_count = continuum_count(m)
      BY <1>4, <3>1, <3>2, <3>3, Zenon DEF HandleInv, Rebuilt
    <3>5. update_continuum(m) = [m EXCEPT !.continuum_count = m.continuum_count,
                                          !.continuum = m.continuum,
                                          !.built_with = m.built_with]
      BY <2>3, <3>2, <3>4, Zenon DEF update_continuum
    <3>6. QED
      BY <1>1, <2>1, <3>5, Zenon DEF HandleFields
  <2>4. QED
    BY <2>2, <2>3, Zenon
<1>5. QED
  BY <1>3, <1>4, Zenon

(* memcached_bucket_set gives a sound handle.                              *)
LEMMA BucketInv ==
    ASSUME Sorting, NEW m, HandleInv(m), NEW host_map
    PROVE  HandleInv(memcached_bucket_set(m, host_map).m)
<1> DEFINE v == run_distribution(Distributed(m, "VIRTUAL_BUCKET"))
           w == run_distribution(Distributed(v, m.distribution))
           r == memcached_bucket_set(m, host_map)
<1>1. IsHandle(m) /\ FlagsApart(m) /\ Current(m) /\ m.distribution \in Distributions
  BY Zenon DEF HandleInv, IsHandle
<1>2. "VIRTUAL_BUCKET" \in Distributions
  BY DEF Distributions
<1>3. /\ memcached_behavior_set_distribution(m, "VIRTUAL_BUCKET") = Ok(v)
      /\ IsDistributed(m, v, "VIRTUAL_BUCKET")
  BY <1>1, <1>2, SetDistribution
<1>4. memcached_behavior_set_distribution(m, "VIRTUAL_BUCKET").m = v
  BY <1>3 DEF Ok
<1> HIDE DEF v
<1>5. HandleInv(v)
  BY <1>3, Zenon DEF IsDistributed
<1>6. IsHandle(v) /\ FlagsApart(v) /\ Current(v)
  BY <1>5, Zenon DEF HandleInv
<1>7. /\ memcached_behavior_set_distribution(v, m.distribution) = Ok(w)
      /\ IsDistributed(v, w, m.distribution)
  BY <1>1, <1>6, SetDistribution
<1>8. memcached_behavior_set_distribution(v, m.distribution).m = w
  BY <1>7 DEF Ok
<1> HIDE DEF w
<1>9. HandleInv(w)
  BY <1>7, Zenon DEF IsDistributed
<1>10. CASE host_map = << >>
  <2>1. r = Refused(w, "INVALID_ARGUMENTS")
    BY <1>4, <1>8, <1>10, Zenon DEF memcached_bucket_set
  <2>2. r.m = w
    BY <2>1 DEF Refused
  <2>3. QED
    BY <1>9, <2>2, Zenon
<1>11. CASE host_map # << >>
  <2>1. r = Ok(WithField(v, "virtual_bucket", host_map))
    BY <1>4, <1>11, Zenon DEF memcached_bucket_set, WithField
  <2>2. r.m = WithField(v, "virtual_bucket", host_map)
    BY <2>1 DEF Ok
  <2>3. HandleInv(WithField(v, "virtual_bucket", host_map))
    BY <1>5, MinorField
  <2>4. QED
    BY <2>2, <2>3, Zenon
<1>12. QED
  BY <1>10, <1>11, Zenon

(* memcached_bucket_set without buckets sets the old distribution again:   *)
(* without weights and with a continuum that is up to date, that is the    *)
(* handle as it was.                                                       *)
LEMMA BucketRefused ==
    ASSUME Sorting, NEW m, HandleInv(m), NEW host_map,
           memcached_bucket_set(m, host_map).rc # "SUCCESS",
           memcached_is_consistent_distribution(m) => ~m.weighted /\ UpToDate(m)
    PROVE  memcached_bucket_set(m, host_map).m = m
<1> DEFINE h == Distributed(m, "VIRTUAL_BUCKET")
           r == memcached_bucket_set(m, host_map)
<1>1. /\ IsHandle(m) /\ FlagsApart(m) /\ Current(m) /\ WeightsUsed(m) /\ HostsSorted(m)
      /\ m = [f \in HandleFields |-> m[f]] /\ m.distribution \in Distributions
      /\ m.weighted \in BOOLEAN /\ m.servers \in Seq(Instance)
  BY Zenon DEF HandleInv, IsHandle
<1>2. host_map = << >>
  <2>1. SUFFICES ASSUME host_map # << >> PROVE FALSE
    BY Zenon
  <2>2. QED
    BY <2>1 DEF memcached_bucket_set, Ok
<1>3. h = [m EXCEPT !.distribution = "VIRTUAL_BUCKET", !.weighted = m.weighted]
  BY DEF Distributed
<1>4. /\ h = [f \in HandleFields |-> h[f]] /\ h.distribution = "VIRTUAL_BUCKET"
      /\ h.weighted = m.weighted
      /\ \A f \in HandleFields \ {"distribution"} : h[f] = m[f]
  BY <1>1, <1>3, Zenon DEF HandleFields
<1> HIDE DEF h
<1>5. h.flags = m.flags /\ h.servers = m.servers
  BY <1>4 DEF HandleFields
<1>6. HostsSorted(h)
  BY <1>1, <1>5, Zenon DEF HostsSorted
<1>7. (IF h.flags.use_sort_hosts THEN sort_hosts(h) ELSE h) = h
  BY <1>1, <1>4, <1>5, <1>6, SortAgain
<1>8. run_distribution(h) = h
  <2>1. ~memcached_is_consistent_distribution(h)
    BY <1>4 DEF memcached_is_consistent_distribution
  <2>2. QED
    BY <1>7, <2>1, Zenon DEF run_distribution
<1>9. memcached_behavior_set_distribution(m, "VIRTUAL_BUCKET").m = h
  <2>1. memcached_behavior_set_distribution(m, "VIRTUAL_BUCKET") = Ok(run_distribution(h))
    BY <1>1, SetDistribution DEF Distributions, h
  <2>2. QED
    BY <1>8, <2>1 DEF Ok
<1>10. Distributed(h, m.distribution) = m
  <2> DEFINE x == CASE m.distribution \in {"CONSISTENT", "CONSISTENT_KETAMA"} -> FALSE
                    [] m.distribution = "CONSISTENT_WEIGHTED" -> TRUE
                    [] OTHER -> h.weighted
  <2>1. x = m.weighted
    <3>1. CASE m.distribution \in {"CONSISTENT", "CONSISTENT_KETAMA"}
      <4>1. m.weighted = FALSE
        BY <1>1, <3>1, Zenon DEF memcached_is_consistent_distribution
      <4>2. x = FALSE
        BY <3>1
      <4>3. QED
        BY <4>1, <4>2, Zenon
    <3>2. CASE m.distribution = "CONSISTENT_WEIGHTED"
      BY <1>1, <3>2, Zenon DEF memcached_is_consistent_distribution, WeightsUsed
    <3>3. CASE m.distribution \notin {"CONSISTENT", "CONSISTENT_KETAMA", "CONSISTENT_WEIGHTED"}
      BY <1>4, <3>3, Zenon
    <3>4. QED
      BY <3>1, <3>2, <3>3, Zenon
  <2>2. Distributed(h, m.distribution) = [h EXCEPT !.distribution = m.distribution,
                                                   !.weighted = x]
    BY DEF Distributed
  <2> HIDE DEF x
  <2>3. [h EXCEPT !.distribution = m.distribution, !.weighted = m.weighted] = m
    BY <1>1, <1>4, Zenon DEF HandleFields
  <2>4. QED
    BY <2>1, <2>2, <2>3, Zenon
<1>11. memcached_behavior_set_distribution(h, m.distribution).m = m
  <2>1. memcached_behavior_set_distribution(h, m.distribution)
        = Ok(run_distribution(Distributed(h, m.distribution)))
    BY <1>1, Zenon DEF memcached_behavior_set_distribution, Distributed
  <2>2. run_distribution(m) = m
    BY RunAgain, Zenon
  <2>3. QED
    BY <1>10, <2>1, <2>2 DEF Ok
<1>12. r = Refused(m, "INVALID_ARGUMENTS")
  BY <1>2, <1>9, <1>11, Zenon DEF memcached_bucket_set
<1>13. QED
  BY <1>12 DEF Refused

-----------------------------------------------------------------------------
(* memcached_clone.                                                        *)

(* What of a handle decides where a key goes.                              *)
SameDispatch(m, n) ==
    /\ m.distribution \in Distributions
    /\ n.flags = m.flags /\ n.namespace = m.namespace /\ n.base_hash = m.base_hash
    /\ n.distribution = m.distribution
    /\ n.virtual_bucket = << >> /\ m.virtual_bucket = << >>
    /\ Len(n.servers) = Len(m.servers) /\ DOMAIN n.servers = DOMAIN m.servers
    /\ n.servers = << >> <=> m.servers = << >>
    /\ memcached_is_consistent_distribution(m) /\ m.servers # << >> => n.continuum = m.continuum

(* Handles that dispatch alike send a key to the same server.              *)
LEMMA SameServer ==
    ASSUME NEW m, NEW n, SameDispatch(m, n), NEW key
    PROVE  memcached_server_by_key(n, key) = memcached_server_by_key(m, key)
<1>1. CASE m.servers = << >>
  BY <1>1, Zenon DEF SameDispatch, memcached_server_by_key
<1>2. CASE m.servers # << >>
  <2>1. generate_hash_wrapper(n, key) = generate_hash_wrapper(m, key)
    BY Zenon DEF SameDispatch, generate_hash_wrapper
  <2>2. ASSUME NEW hash
        PROVE  dispatch_host(n, hash) = dispatch_host(m, hash)
    <3>1. memcached_is_consistent_distribution(n) = memcached_is_consistent_distribution(m)
      BY Zenon DEF SameDispatch, memcached_is_consistent_distribution
    <3>2. memcached_virtual_bucket_get(n, hash) = memcached_virtual_bucket_get(m, hash)
      BY Zenon DEF SameDispatch, memcached_virtual_bucket_get
    <3>3. CASE memcached_is_consistent_distribution(m)
      <4>1. n.continuum = m.continuum
        BY <1>2, <3>3, Zenon DEF SameDispatch
      <4>2. n.distribution = m.distribution
        BY Zenon DEF SameDispatch
      <4>3. m.distribution \notin {"MODULA", "RANDOM", "VIRTUAL_BUCKET"}
        BY <3>3 DEF memcached_is_consistent_distribution
      <4>4. dispatch_host(m, hash) =
               IF m.continuum = << >> THEN {} ELSE {ContinuumSearch(m.continuum, hash)}
        BY <3>3, <4>3, Zenon DEF dispatch_host
      <4>5. dispatch_host(n, hash) =
               IF n.continuum = << >> THEN {} ELSE {ContinuumSearch(n.continuum, hash)}
        BY <3>1, <3>3, <4>2, <4>3, Zenon DEF dispatch_host
      <4>6. QED
        BY <4>1, <4>4, <4>5, Zenon
    <3>4. CASE ~memcached_is_consistent_distribution(m)
      <4>1. /\ n.distribution = m.distribution /\ Len(n.servers) = Len(m.servers)
            /\ DOMAIN n.servers = DOMAIN m.servers
        BY Zenon DEF SameDispatch
      <4>2. CASE m.distribution = "MODULA"
        BY <3>1, <3>4, <4>1, <4>2 DEF dispatch_host
      <4>3. CASE m.distribution = "RANDOM"
        BY <3>1, <3>4, <4>1, <4>3 DEF dispatch_host
      <4>4. CASE m.distribution = "VIRTUAL_BUCKET"
        BY <3>1, <3>2, <3>4, <4>1, <4>4 DEF dispatch_host
      <4>5. m.distribution \in {"MODULA", "RANDOM", "VIRTUAL_BUCKET"}
        BY <3>4 DEF SameDispatch, Distributions, memcached_is_consistent_distribution
      <4>6. QED
        BY <4>2, <4>3, <4>4, <4>5
    <3>5. QED
      BY <3>3, <3>4, Zenon
  <2>3. memcached_generate_hash(n, key) = memcached_generate_hash(m, key)
    BY <2>1, <2>2, Zenon DEF memcached_generate_hash
  <2>4. memcached_key_test(n, key) = memcached_key_test(m, key)
    BY Zenon DEF SameDispatch, memcached_key_test
  <2>5. QED
    BY <2>3, <2>4, Zenon DEF SameDispatch, memcached_server_by_key
<1>3. QED
  BY <1>1, <1>2, Zenon

(* What run_distribution does to any handle.                               *)
LEMMA RunFields ==
    ASSUME NEW h, h = [f \in HandleFields |-> h[f]]
    PROVE  LET n == run_distribution(h)
               q == IF h.flags.use_sort_hosts THEN InOrder(h.servers) ELSE h.servers
           IN  /\ n = [f \in HandleFields |-> n[f]] /\ n.servers = q
               /\ \A f \in HandleFields \ {"servers", "continuum", "continuum_count",
                                           "built_with"} : n[f] = h[f]
<1> DEFINE n == run_distribution(h)
           q == IF h.flags.use_sort_hosts THEN InOrder(h.servers) ELSE h.servers
           s == IF h.flags.use_sort_hosts THEN sort_hosts(h) ELSE h
<1>1. /\ s = [f \in HandleFields |-> s[f]] /\ s.servers = q
      /\ \A f \in HandleFields \ {"servers"} : s[f] = h[f]
  <2>1. CASE h.flags.use_sort_hosts
    <3>1. s = [h EXCEPT !.servers = InOrder(h.servers)] /\ q = InOrder(h.servers)
      BY <2>1, Zenon DEF sort_hosts
    <3> HIDE DEF s, q
    <3>2. QED
      BY <3>1, Zenon DEF HandleFields
  <2>2. CASE ~h.flags.use_sort_hosts
    BY <2>2, Zenon
  <2>3. QED
    BY <2>1, <2>2, Zenon
<1> DEFINE x == continuum_count(s)
           y == SortedPoints(AllPoints(s))
           z == s.base_hash
<1>2. n = s \/ n = [s EXCEPT !.continuum_count = x, !.continuum = y, !.built_with = z]
  <2>1. n = IF memcached_is_consistent_distribution(h) THEN update_continuum(s) ELSE s
    BY Zenon DEF run_distribution
  <2> HIDE DEF n, s
  <2>2. \/ update_continuum(s) = s
        \/ update_continuum(s) = [s EXCEPT !.continuum_count = x, !.continuum = y,
                                           !.built_with = z]
    BY Zenon DEF update_continuum
  <2>3. QED
    BY <2>1, <2>2, Zenon
<1> HIDE DEF n, s, q, x, y, z
<1>3. CASE n = s
  <2>1. /\ n = [f \in HandleFields |-> n[f]] /\ n.servers = q
        /\ \A f \in HandleFields \ {"servers"} : n[f] = h[f]
    BY <1>1, <1>3, Zenon
  <2>2. QED
    BY <2>1, Zenon DEF n, q
<1>4. CASE n = [s EXCEPT !.continuum_count = x, !.continuum = y, !.built_with = z]
  <2>1. /\ n = [f \in HandleFields |-> n[f]] /\ n.servers = s.servers
        /\ \A f \in HandleFields \ {"continuum", "continuum_count", "built_with"} : n[f] = s[f]
    <3>1. s = [f \in HandleFields |-> s[f]]
      BY <1>1, Zenon
    <3>2. QED
      BY <1>4, <3>1, Zenon DEF HandleFields
  <2>2. /\ n = [f \in HandleFields |-> n[f]] /\ n.servers = q
        /\ \A f \in HandleFields \ {"servers", "continuum", "continuum_count",
                                    "built_with"} : n[f] = h[f]
    BY <1>1, <2>1, Zenon
  <2>3. QED
    BY <2>2, Zenon DEF n, q
<1>5. QED
  BY <1>2, <1>3, <1>4, Zenon

(* The handle that memcached_clone distributes last.                       *)
Copied(m) ==
    [memcached_instance_push(CopySettings(m), m.servers)
     EXCEPT !.namespace = m.namespace, !.filename = m.namespace]

(* The settings that memcached_clone copies first.                         *)
LEMMA CopySettingsFields ==
    ASSUME NEW m
    PROVE  LET c == CopySettings(m)
           IN  /\ c = [f \in HandleFields |-> c[f]]
               /\ c.servers = << >> /\ c.weighted = FALSE /\ c.virtual_bucket = << >>
               /\ c.flags = m.flags /\ c.distribution = m.distribution
               /\ c.base_hash = m.base_hash
<1> DEFINE e == memcached_create
           c == CopySettings(m)
<1>1. /\ e = [f \in HandleFields |-> e[f]]
      /\ e.servers = << >> /\ e.weighted = FALSE /\ e.virtual_bucket = << >>
  <2>1. HandleInv(e)
    BY CreateInv
  <2>2. e.servers = << >> /\ e.weighted = FALSE /\ e.virtual_bucket = << >>
    BY DEF memcached_create
  <2>3. QED
    BY <2>1, <2>2, Zenon DEF HandleInv, IsHandle
<1> HIDE DEF e
<1>2. c = [e EXCEPT !.flags = m.flags, !.numbers = m.numbers,
                    !.distribution = m.distribution, !.base_hash = m.base_hash,
                    !.distribution_hash = m.distribution_hash, !.callbacks = m.callbacks]
  BY Zenon DEF CopySettings, e
<1> HIDE DEF c
<1>3. c = [f \in HandleFields |-> c[f]]
  BY <1>1, <1>2, Zenon DEF HandleFields
<1>4. c.servers = << >> /\ c.weighted = FALSE /\ c.virtual_bucket = << >>
  BY <1>1, <1>2, Zenon DEF HandleFields
<1>5. c.flags = m.flags /\ c.distribution = m.distribution /\ c.base_hash = m.base_hash
  BY <1>1, <1>2, Zenon DEF HandleFields
<1>6. QED
  BY <1>3, <1>4, <1>5, Zenon DEF c

(* The list of a handle, made anew, is sorted as the list was.             *)
LEMMA ListAnew ==
    ASSUME Sorting, NEW m, HandleInv(m)
    PROVE  LET q == Instances(m.servers)
           IN  /\ IsList(m.servers) /\ q \in Seq(Instance)
               /\ DOMAIN q = DOMAIN m.servers /\ Len(q) = Len(m.servers)
               /\ \A i \in DOMAIN q :
                     /\ q[i].hostname = m.servers[i].hostname
                     /\ q[i].port = m.servers[i].port
                     /\ q[i].weight = m.servers[i].weight
                     /\ q[i].next_retry = "never"
               /\ m.flags.use_sort_hosts => InOrder(q) = q
<1> DEFINE q == Instances(m.servers)
<1>1. m.servers \in Seq(Instance)
  BY Zenon DEF HandleInv, IsHandle
<1>2. /\ DOMAIN m.servers = 1..Len(m.servers) /\ Len(m.servers) \in Nat
      /\ \A i \in DOMAIN m.servers : m.servers[i] \in Instance
  BY <1>1, ListFacts
<1>3. ASSUME NEW s \in Instance
      PROVE  /\ s.hostname \in Nat /\ s.port \in Nat /\ s.weight \in Nat /\ s.weight # 0
             /\ s.type \in {"TCP", "UNIX_SOCKET"}
  BY DEF Instance
<1>4. IsList(m.servers)
  BY <1>2, <1>3, Zenon DEF IsList
<1>5. /\ q \in Seq(Instance) /\ DOMAIN q = DOMAIN m.servers
      /\ \A i \in DOMAIN m.servers :
            /\ q[i].next_retry = "never"
            /\ q[i].hostname = m.servers[i].hostname /\ q[i].port = m.servers[i].port
            /\ m.servers[i].weight # 0 => q[i].weight = m.servers[i].weight
  BY <1>4, InstancesOfList, Zenon
<1> HIDE DEF q
<1>6. \A i \in DOMAIN q :
         /\ q[i].hostname = m.servers[i].hostname /\ q[i].port = m.servers[i].port
         /\ q[i].weight = m.servers[i].weight /\ q[i].next_retry = "never"
  BY <1>2, <1>3, <1>5, Zenon
<1>7. m.flags.use_sort_hosts => InOrder(q) = q
  <2>1. SUFFICES ASSUME m.flags.use_sort_hosts
                 PROVE  InOrder(q) = q
    BY Zenon
  <2>2. \A i, j \in DOMAIN m.servers : i < j => ~compare_servers(m.servers[j], m.servers[i])
    BY <2>1, Zenon DEF HandleInv, HostsSorted
  <2>3. \A i, j \in DOMAIN q : i < j => ~compare_servers(q[j], q[i])
    BY <1>5, <1>6, <2>2, Zenon DEF compare_servers
  <2>4. QED
    BY <1>5, <2>3, Zenon DEF Sorting
<1>8. Len(q) = Len(m.servers)
  <2>1. DOMAIN q = 1..Len(q) /\ Len(q) \in Nat
    BY <1>5, ListFacts
  <2>2. QED
    BY <1>2, <1>5, <2>1
<1>9. QED
  BY <1>4, <1>5, <1>6, <1>7, <1>8, Zenon DEF q

(* The handle that memcached_clone distributes last has the settings of    *)
(* its source and its servers made anew.                                   *)
LEMMA CopiedHandle ==
    ASSUME Sorting, NEW m, HandleInv(m)
    PROVE  LET p == Copied(m)
           IN  /\ p = [f \in HandleFields |-> p[f]]
               /\ p.flags = m.flags /\ p.distribution = m.distribution
               /\ p.base_hash = m.base_hash /\ p.namespace = m.namespace
               /\ p.virtual_bucket = << >>
               /\ m.servers = << >> => p.servers = << >>
               /\ m.servers # << >> =>
                     /\ p.servers = Instances(m.servers)
                     /\ p.weighted = (\E i \in DOMAIN m.servers : m.servers[i].weight > 1)
<1> DEFINE c == CopySettings(m)
           o == memcached_instance_push(c, m.servers)
           p == Copied(m)
           q == Instances(m.servers)
           w == \E i \in DOMAIN m.servers : m.servers[i].weight > 1
<1>1. /\ c = [f \in HandleFields |-> c[f]]
      /\ c.servers = << >> /\ c.weighted = FALSE /\ c.virtual_bucket = << >>
      /\ c.flags = m.flags /\ c.distribution = m.distribution /\ c.base_hash = m.base_hash
  BY CopySettingsFields, Zenon
<1> HIDE DEF c
<1>2. /\ o = [f \in HandleFields |-> o[f]]
      /\ o.flags = m.flags /\ o.distribution = m.distribution /\ o.base_hash = m.base_hash
      /\ o.virtual_bucket = << >>
      /\ m.servers = << >> => o.servers = << >>
      /\ m.servers # << >> => o.servers = q /\ o.weighted = w
  <2>1. CASE m.servers = << >>
    <3>1. o = c
      BY <2>1, Zenon DEF memcached_instance_push
    <3>2. QED
      BY <1>1, <2>1, <3>1, Zenon
  <2>2. CASE m.servers # << >>
    <3> DEFINE v == c.weighted \/ \E i \in DOMAIN m.servers : m.servers[i].weight > 1
               g == Grown(c, q, v)
               n == run_distribution(g)
    <3>1. q \in Seq(Instance) /\ (m.flags.use_sort_hosts => InOrder(q) = q)
      BY ListAnew, Zenon
    <3>2. o = n
      <4>1. [c EXCEPT !.servers = @ \o [i \in DOMAIN m.servers |->
                                          instance_create_with(
                                            m.servers[i].hostname, m.servers[i].port,
                                            m.servers[i].weight, m.servers[i].type)],
                      !.weighted = @ \/ \E i \in DOMAIN m.servers : m.servers[i].weight > 1]
            = g
        BY Zenon DEF Grown, Instances
      <4>2. QED
        BY <2>2, <4>1, Zenon DEF memcached_instance_push
    <3>3. v = w
      BY <1>1, Zenon
    <3> HIDE DEF q, v, w
    <3>4. /\ g = [f \in HandleFields |-> g[f]] /\ g.servers = << >> \o q /\ g.weighted = v
          /\ \A f \in HandleFields \ {"servers", "weighted"} : g[f] = c[f]
      BY <1>1, Zenon DEF Grown, HandleFields
    <3> HIDE DEF g
    <3>5. g.servers = q
      <4>1. << >> \o q = q
        BY <3>1
      <4>2. QED
        BY <3>4, <4>1, Zenon
    <3>6. /\ n = [f \in HandleFields |-> n[f]]
          /\ n.servers = IF g.flags.use_sort_hosts THEN InOrder(g.servers) ELSE g.servers
          /\ \A f \in HandleFields \ {"servers", "continuum", "continuum_count",
                                      "built_with"} : n[f] = g[f]
      BY <3>4, RunFields, Zenon
    <3> HIDE DEF n
    <3>7. /\ n.flags = m.flags /\ n.distribution = m.distribution
          /\ n.base_hash = m.base_hash /\ n.virtual_bucket = << >> /\ n.weighted = w
          /\ g.flags = m.flags
      BY <1>1, <3>3, <3>4, <3>6, Zenon DEF HandleFields
    <3>8. n.servers = q
      BY <3>1, <3>5, <3>6, <3>7, Zenon
    <3> HIDE DEF o
    <3>9. QED
      BY <2>2, <3>2, <3>6, <3>7, <3>8, Zenon
  <2>3. QED
    BY <2>1, <2>2, Zenon
<1>3. p = [o EXCEPT !.namespace = m.namespace, !.filename = m.namespace]
  BY Zenon DEF Copied, c
<1> HIDE DEF o, p, q, w
<1>4. /\ p = [f \in HandleFields |-> p[f]] /\ p.namespace = m.namespace
      /\ \A f \in HandleFields \ {"namespace", "filename"} : p[f] = o[f]
  <2>1. o = [f \in HandleFields |-> o[f]]
    BY <1>2, Zenon
  <2>2. QED
    BY <1>3, <2>1, Zenon DEF HandleFields
<1>5. /\ p.flags = o.flags /\ p.distribution = o.distribution /\ p.base_hash = o.base_hash
      /\ p.virtual_bucket = o.virtual_bucket /\ p.servers = o.servers
      /\ p.weighted = o.weighted
  BY <1>4 DEF HandleFields
<1>6. QED
  BY <1>2, <1>4, <1>5, Zenon DEF p, q, w

(* A clone has the flags of its source.                                    *)
LEMMA CloneFlags ==
    ASSUME Sorting, NEW m, HandleInv(m)
    PROVE  FlagsApart(memcached_clone(m))
<1> DEFINE p == Copied(m)
           n == run_distribution(p)
<1>1. memcached_clone(m) = n
  BY Zenon DEF memcached_clone, Copied
<1>2. p = [f \in HandleFields |-> p[f]] /\ p.flags = m.flags
  BY CopiedHandle, Zenon
<1> HIDE DEF p
<1>3. \A f \in HandleFields \ {"servers", "continuum", "continuum_count", "built_with"} :
         n[f] = p[f]
  BY <1>2, RunFields, Zenon
<1> HIDE DEF n
<1>4. n.flags = m.flags
  BY <1>2, <1>3 DEF HandleFields
<1>5. QED
  BY <1>1, <1>4, Zenon DEF HandleInv, FlagsApart

(* A clone dispatches as its source does.                                  *)
LEMMA CloneDispatch ==
    ASSUME Sorting, NEW m, HandleInv(m), m.virtual_bucket = << >>,
           memcached_is_consistent_distribution(m) =>
              /\ UpToDate(m)
              /\ m.weighted = (\E i \in DOMAIN m.servers : m.servers[i].weight > 1)
    PROVE  SameDispatch(m, memcached_clone(m))
<1> DEFINE p == Copied(m)
           n == run_distribution(p)
           q == Instances(m.servers)
<1>1. memcached_clone(m) = n
  BY Zenon DEF memcached_clone, Copied
<1>2. /\ p = [f \in HandleFields |-> p[f]]
      /\ p.flags = m.flags /\ p.distribution = m.distribution
      /\ p.base_hash = m.base_hash /\ p.namespace = m.namespace
      /\ p.virtual_bucket = << >>
      /\ m.servers = << >> => p.servers = << >>
      /\ m.servers # << >> =>
            /\ p.servers = q
            /\ p.weighted = (\E i \in DOMAIN m.servers : m.servers[i].weight > 1)
  BY CopiedHandle, Zenon
<1> HIDE DEF p
<1>3. /\ q \in Seq(Instance)
      /\ DOMAIN q = DOMAIN m.servers /\ Len(q) = Len(m.servers)
      /\ \A i \in DOMAIN q :
            /\ q[i].hostname = m.servers[i].hostname
            /\ q[i].port = m.servers[i].port
            /\ q[i].weight = m.servers[i].weight
            /\ q[i].next_retry = "never"
      /\ m.flags.use_sort_hosts => InOrder(q) = q
  BY ListAnew, Zenon
<1> HIDE DEF q
<1>4. /\ n.servers = IF p.flags.use_sort_hosts THEN InOrder(p.servers) ELSE p.servers
      /\ \A f \in HandleFields \ {"servers", "continuum", "continuum_count", "built_with"} :
            n[f] = p[f]
  BY <1>2, RunFields, Zenon
<1>5. /\ n.flags = m.flags /\ n.distribution = m.distribution
      /\ n.base_hash = m.base_hash /\ n.namespace = m.namespace
      /\ n.virtual_bucket = << >>
  <2> HIDE DEF n
  <2>1. QED
    BY <1>2, <1>4, Zenon DEF HandleFields
<1>6. m.servers \in Seq(Instance) /\ m.distribution \in Distributions
  BY Zenon DEF HandleInv, IsHandle
<1>7. CASE m.servers = << >>
  <2>1. n.servers = << >>
    <3>1. InOrder(<< >>) = << >>
      BY DEF InOrder
    <3>2. QED
      BY <1>2, <1>4, <1>7, <3>1, Zenon
  <2> HIDE DEF n
  <2>2. QED
    BY <1>1, <1>5, <1>6, <1>7, <2>1, Zenon DEF SameDispatch
<1>8. CASE m.servers # << >>
  <2>1. p.servers = q /\ n.servers = q
    BY <1>2, <1>3, <1>4, <1>8, Zenon
  <2>2. q # << >> /\ DOMAIN m.servers # {}
    BY <1>3, <1>6, <1>8
  <2>3. ASSUME memcached_is_consistent_distribution(m)
        PROVE  n.continuum = m.continuum
    <3>1. (IF p.flags.use_sort_hosts THEN sort_hosts(p) ELSE p) = p
      <4>1. CASE p.flags.use_sort_hosts
        <5>1. InOrder(p.servers) = p.servers
          BY <1>2, <1>3, <2>1, <4>1, Zenon
        <5>2. [p EXCEPT !.servers = p.servers] = p
          BY <1>2, Zenon DEF HandleFields
        <5>3. QED
          BY <5>1, <5>2, Zenon DEF sort_hosts
      <4>2. CASE ~p.flags.use_sort_hosts
        BY <4>2, Zenon
      <4>3. QED
        BY <4>1, <4>2, Zenon
    <3>2. memcached_is_consistent_distribution(p)
      BY <1>2, <2>3, Zenon DEF memcached_is_consistent_distribution
    <3>3. n = update_continuum(p)
      BY <3>1, <3>2, Zenon DEF run_distribution
    <3>4. NeverFailed(p) /\ NeverFailed(m) /\ m.built_with = m.base_hash
      BY <1>3, <2>1, <2>3, Zenon DEF NeverFailed, UpToDate
    <3>5. Live(p) # {}
      BY <1>3, <2>1, <2>2, <3>4, AllLive, Zenon
    <3>6. n.continuum = SortedPoints(AllPoints(p))
      <4> DEFINE x == continuum_count(p)
                 y == SortedPoints(AllPoints(p))
      <4>1. n = [p EXCEPT !.continuum_count = x, !.continuum = y, !.built_with = p.base_hash]
        BY <3>3, <3>5, Zenon DEF update_continuum
      <4> HIDE DEF n, x, y
      <4>2. n.continuum = y
        BY <1>2, <4>1, Zenon DEF HandleFields
      <4>3. QED
        BY <4>2, Zenon DEF y
    <3>7. SamePlacement(p, m)
      BY <1>2, <1>3, <1>8, <2>1, <2>3, <3>4, Zenon DEF SamePlacement
    <3>8. AllPoints(p) = AllPoints(m)
      BY <3>7, SamePoints
    <3>9. [m EXCEPT !.base_hash = m.built_with] = m
      <4>1. m = [f \in HandleFields |-> m[f]]
        BY Zenon DEF HandleInv, IsHandle
      <4>2. QED
        BY <3>4, <4>1, Zenon DEF HandleFields
    <3>10. m.continuum = SortedPoints(AllPoints(m))
      BY <1>8, <2>3, <3>4, <3>9, Zenon DEF HandleInv, Rebuilt
    <3>11. QED
      BY <3>6, <3>8, <3>10, Zenon
  <2> HIDE DEF n
  <2>4. QED
    BY <1>1, <1>3, <1>5, <1>6, <1>8, <2>1, <2>2, <2>3, Zenon DEF SameDispatch
<1>9. QED
  BY <1>7, <1>8, Zenon

-----------------------------------------------------------------------------
(* Configuration strings.                                                  *)

(* The frames of the parser.                                               *)
Frames == [string : Seq(Statement), lines : Seq(Seq(Statement)), has_hash : BOOLEAN]

(* A configuration that is being parsed configures a sound handle.         *)
IsParse(p) ==
    /\ p = [f \in {"status", "call", "m", "frames"} |-> p[f]]
    /\ p.status \in {"open", "SUCCESS", "PARSE_ERROR"}
    /\ "op" \in DOMAIN p.call
    /\ p.call.op \in {"parse", "memcached", "memcached_file"}
    /\ HandleInv(p.m)
    /\ p.frames \in Seq(Frames)
    /\ p.status = "open" => p.frames # << >>

(* The parser is idle or configures a sound handle.                        *)
ParseInv == parse = Idle \/ IsParse(parse)

(* The types of the arguments of a statement.                              *)
LEMMA Statements ==
    ASSUME NEW s \in Statement
    PROVE  /\ s.token \in {"SERVER", "SOCKET"} => s.server \in Server
           /\ s.token \in {"CONFIGURE_FILE", "NAMESPACE", "INCLUDE"} => s.key \in Name
           /\ s.token \in BehaviorNumbers => s.number \in Data
           /\ s.token = "DISTRIBUTION" => s.name \in Distributions
<1>1. CASE s \in [token : {"SERVER", "SOCKET"}, server : Server]
  BY <1>1 DEF BehaviorNumbers
<1>2. CASE s \in [token : {"CONFIGURE_FILE", "NAMESPACE", "INCLUDE"}, key : Name]
  BY <1>2 DEF BehaviorNumbers
<1>3. CASE s \in [token : BehaviorNumbers \cup {"POOL_MIN", "POOL_MAX"}, number : Data]
  BY <1>3 DEF BehaviorNumbers
<1>4. CASE s \in [token : {"DISTRIBUTION"}, name : Distributions, hash : Hashes \cup {"none"}]
  BY <1>4 DEF BehaviorNumbers
<1>5. CASE s \in [token : {"HASH"}, name : Hashes]
  BY <1>5 DEF BehaviorNumbers
<1>6. CASE s \in [token : BehaviorBooleans \cup
                            {"FETCH_VERSION", "USER_DATA", "COMMENT", "EMPTY_LINE",
                             "PARSER_DEBUG", "END", "ERROR", "UNKNOWN", "RESET"}]
  BY <1>6 DEF BehaviorNumbers, BehaviorBooleans
<1>7. QED
  BY <1>1, <1>2, <1>3, <1>4, <1>5, <1>6, Zenon DEF Statement

(* The frame on top is replaced.                                           *)
WithTop(p, m, top) == [p EXCEPT !.m = m, !.frames = [p.frames EXCEPT ![1] = top]]

(* A parser that reads has a frame.                                        *)
LEMMA TopOfParse ==
    ASSUME NEW p, IsParse(p), p.status = "open"
    PROVE  p.frames[1] \in Frames /\ 1 \in DOMAIN p.frames
<1>1. p.frames \in Seq(Frames) /\ p.frames # << >>
  BY Zenon DEF IsParse
<1>2. QED
  BY <1>1

(* A statement changes the handle and the frame on top.                    *)
LEMMA TopUpdate ==
    ASSUME NEW p, IsParse(p), p.status = "open", NEW m, HandleInv(m), NEW top \in Frames
    PROVE  IsParse(WithTop(p, m, top))
<1> DEFINE x == [p.frames EXCEPT ![1] = top]
           n == WithTop(p, m, top)
<1>1. /\ p = [f \in {"status", "call", "m", "frames"} |-> p[f]]
      /\ p.frames \in Seq(Frames) /\ p.frames # << >>
  BY Zenon DEF IsParse
<1>2. x \in Seq(Frames) /\ x # << >>
  BY <1>1
<1> HIDE DEF x
<1>3. /\ n = [f \in {"status", "call", "m", "frames"} |-> n[f]]
      /\ n.m = m /\ n.frames = x /\ n.status = p.status /\ n.call = p.call
  BY <1>1, Zenon DEF WithTop, x
<1> HIDE DEF n
<1>4. IsParse(n)
  BY <1>2, <1>3, Zenon DEF IsParse
<1>5. QED
  BY <1>4, Zenon DEF n

(* A parser that ends.                                                     *)
LEMMA Aborted ==
    ASSUME NEW p, IsParse(p), NEW m, HandleInv(m),
           NEW status \in {"SUCCESS", "PARSE_ERROR"}
    PROVE  IsParse([p EXCEPT !.status = status, !.m = m])
<1> DEFINE n == [p EXCEPT !.status = status, !.m = m]
<1>1. p = [f \in {"status", "call", "m", "frames"} |-> p[f]]
  BY Zenon DEF IsParse
<1>2. /\ n = [f \in {"status", "call", "m", "frames"} |-> n[f]]
      /\ n.m = m /\ n.frames = p.frames /\ n.status = status /\ n.call = p.call
  BY <1>1, Zenon
<1> HIDE DEF n
<1>3. n.status \in {"open", "SUCCESS", "PARSE_ERROR"} /\ n.status # "open"
  BY <1>2
<1>4. IsParse(n)
  BY <1>2, <1>3, Zenon DEF IsParse
<1>5. QED
  BY <1>4, Zenon DEF n

(* The rest of a string.                                                   *)
Rest(top) == [top EXCEPT !.string = Tail(top.string)]

(* A statement is taken off a string.                                      *)
LEMMA RestOfFrame ==
    ASSUME NEW top \in Frames, top.string # << >>
    PROVE  Rest(top) \in Frames /\ Head(top.string) \in Statement
<1>1. top.string \in Seq(Statement)
  BY DEF Frames
<1>2. Tail(top.string) \in Seq(Statement) /\ Head(top.string) \in Statement
  <2> DEFINE s == top.string
  <2> HIDE DEF s
  <2>1. s \in Seq(Statement) /\ s # << >>
    BY <1>1 DEF s
  <2>2. Tail(s) \in Seq(Statement) /\ Head(s) \in Statement
    BY <2>1
  <2>3. QED
    BY <2>2 DEF s
<1>3. Rest(top) \in Frames
  BY <1>2, Zenon DEF Rest, Frames
<1>4. QED
  BY <1>2, <1>3

(* What holds before a statement.                                          *)
LEMMA ReadStatement ==
    ASSUME ParseInv, NEW T, Reading(T)
    PROVE  /\ IsParse(parse) /\ parse.status = "open" /\ HandleInv(parse.m)
           /\ Top \in Frames /\ Rest(Top) \in Frames
           /\ Head(Top.string) \in Statement /\ Head(Top.string).token \in T
<1>1. parse.status = "open" /\ Top.string # << >> /\ Head(Top.string).token \in T
  BY Zenon DEF Reading
<1>2. IsParse(parse)
  BY <1>1 DEF ParseInv, Idle
<1>3. Top \in Frames
  BY <1>1, <1>2, TopOfParse DEF Top
<1>4. Rest(Top) \in Frames /\ Head(Top.string) \in Statement
  BY <1>1, <1>3, RestOfFrame
<1>5. QED
  BY <1>1, <1>2, <1>3, <1>4, Zenon DEF IsParse

(* The end of a statement.                                                 *)
LEMMA ProceedInv ==
    ASSUME IsParse(parse), parse.status = "open", Rest(Top) \in Frames,
           NEW result, HandleInv(result.m), Proceed(result)
    PROVE  IsParse(parse')
<1>1. CASE result.rc = "SUCCESS"
  <2>1. parse' = WithTop(parse, result.m, Rest(Top))
    BY <1>1, Zenon DEF Proceed, WithTop, Rest, Top
  <2>2. QED
    BY <2>1, TopUpdate, Zenon
<1>2. CASE result.rc # "SUCCESS"
  <2>1. parse' = [parse EXCEPT !.status = "PARSE_ERROR", !.m = result.m]
    BY <1>2, Zenon DEF Proceed, parser_abort
  <2>2. QED
    BY <2>1, Aborted, Zenon
<1>3. QED
  BY <1>1, <1>2, Zenon

(* The calls that add one server are never refused.                        *)
LEMMA ServerAddSound ==
    ASSUME Sorting, NEW m, HandleInv(m), NEW s \in Server
    PROVE  /\ IsSound(m, memcached_server_add_with_weight(m, s))
           /\ IsSound(m, memcached_server_add_unix_socket_with_weight(m, s))
<1> DEFINE port == IF s.port = 0 THEN DefaultPort ELSE s.port
<1>1. /\ s.hostname \in Nat /\ port \in Nat /\ s.weight \in Nat
      /\ s.type \in {"TCP", "UNIX_SOCKET"}
  BY ContinuumAssumption DEF Server
<1>2. /\ memcached_server_add_with_weight(m, s) =
            Ok(server_add(m, s.hostname, port, s.weight, s.type))
      /\ memcached_server_add_unix_socket_with_weight(m, s) =
            Ok(server_add(m, s.hostname, 0, s.weight, "UNIX_SOCKET"))
  BY Zenon DEF memcached_server_add_with_weight, memcached_server_add_unix_socket_with_weight
<1> HIDE DEF port
<1>3. HandleInv(server_add(m, s.hostname, port, s.weight, s.type))
  BY <1>1, ServerAddInv, Zenon
<1>4. HandleInv(server_add(m, s.hostname, 0, s.weight, "UNIX_SOCKET"))
  BY <1>1, ServerAddInv
<1>5. QED
  BY <1>2, <1>3, <1>4, OkIsSound, Zenon

(* --SERVER and --SOCKET.                                                  *)
LEMMA ServerStatementInv ==
    ASSUME Sorting, ParseInv, ServerStatement
    PROVE  IsParse(parse')
<1> DEFINE s == Head(Top.string)
           r == IF s.token = "SERVER"
                THEN memcached_server_add_with_weight(parse.m, s.server)
                ELSE memcached_server_add_unix_socket_with_weight(parse.m, s.server)
<1>1. Reading({"SERVER", "SOCKET"}) /\ Proceed(r)
  BY Zenon DEF ServerStatement
<1>2. /\ IsParse(parse) /\ parse.status = "open" /\ HandleInv(parse.m)
      /\ Rest(Top) \in Frames /\ s \in Statement /\ s.token \in {"SERVER", "SOCKET"}
  BY <1>1, ReadStatement, Zenon
<1> HIDE DEF s
<1>3. s.server \in Server
  BY <1>2, Statements
<1>4. HandleInv(r.m)
  BY <1>2, <1>3, ServerAddSound, Zenon DEF IsSound
<1> HIDE DEF r
<1>5. QED
  BY <1>1, <1>2, <1>4, ProceedInv, Zenon

(* The statements that set a field nothing depends on.                     *)
LEMMA PlainStatementInv ==
    ASSUME ParseInv, PlainStatement
    PROVE  IsParse(parse')
<1> DEFINE s == Head(Top.string)
           T == {"CONFIGURE_FILE", "POOL_MIN", "POOL_MAX", "FETCH_VERSION", "USER_DATA",
                 "COMMENT", "EMPTY_LINE", "PARSER_DEBUG"}
           n == CASE s.token = "CONFIGURE_FILE" -> [parse.m EXCEPT !.filename = s.key]
                  [] s.token = "POOL_MIN" -> [parse.m EXCEPT !.pool.initial = uint32(s.number)]
                  [] s.token = "POOL_MAX" -> [parse.m EXCEPT !.pool.max = uint32(s.number)]
                  [] s.token = "FETCH_VERSION" ->
                        [parse.m EXCEPT !.flags.is_fetching_version = TRUE]
                  [] OTHER -> parse.m
<1>1. Reading(T) /\ Proceed(Ok(n))
  BY Zenon DEF PlainStatement
<1>2. /\ IsParse(parse) /\ parse.status = "open" /\ HandleInv(parse.m)
      /\ Rest(Top) \in Frames /\ s \in Statement
  BY <1>1, ReadStatement, Zenon
<1> HIDE DEF s
<1> DEFINE x == [parse.m.pool EXCEPT !.initial = uint32(s.number)]
           y == [parse.m.pool EXCEPT !.max = uint32(s.number)]
<1>3. \/ n = WithField(parse.m, "filename", s.key) \/ n = WithField(parse.m, "pool", x)
      \/ n = WithField(parse.m, "pool", y)
      \/ n = WithFlag(parse.m, "is_fetching_version", TRUE)
      \/ n = parse.m
  BY Zenon DEF WithField, WithFlag
<1> HIDE DEF n, x, y
<1>4. /\ HandleInv(WithField(parse.m, "filename", s.key))
      /\ HandleInv(WithField(parse.m, "pool", x)) /\ HandleInv(WithField(parse.m, "pool", y))
  BY <1>2, MinorField
<1>5. HandleInv(WithFlag(parse.m, "is_fetching_version", TRUE))
  <2>1. "is_fetching_version" \in FlagNames \ {"binary_protocol", "use_udp", "no_block",
                                    "tcp_nodelay", "tcp_keepalive", "use_sort_hosts"}
    BY DEF FlagNames
  <2>2. QED
    BY <1>2, <2>1, PlainFlag, Zenon
<1>6. HandleInv(Ok(n).m)
  <2>1. HandleInv(n)
    BY <1>2, <1>3, <1>4, <1>5, Zenon
  <2>2. QED
    BY <2>1 DEF Ok
<1>7. QED
  BY <1>1, <1>2, <1>6, ProceedInv, Zenon

(* --NAMESPACE.                                                            *)
LEMMA NamespaceStatementInv ==
    ASSUME ParseInv, NamespaceStatement
    PROVE  IsParse(parse')
<1> DEFINE r == memcached_set_namespace(parse.m, Head(Top.string).key)
<1>1. /\ Reading({"NAMESPACE"})
      /\ IF parse.m.namespace # NoName THEN parser_abort(parse.m) ELSE Proceed(r)
  BY Zenon DEF NamespaceStatement
<1>2. /\ IsParse(parse) /\ parse.status = "open" /\ HandleInv(parse.m)
      /\ Rest(Top) \in Frames
  BY <1>1, ReadStatement, Zenon
<1>3. HandleInv(r.m)
  BY <1>2, NamespaceSound, Zenon DEF IsSound
<1> HIDE DEF r
<1>4. CASE Proceed(r)
  BY <1>2, <1>3, <1>4, ProceedInv, Zenon
<1>5. CASE parser_abort(parse.m)
  BY <1>2, <1>5, Aborted, Zenon DEF parser_abort
<1>6. QED
  BY <1>1, <1>4, <1>5, Zenon

(* --DISTRIBUTION.                                                         *)
LEMMA DistributionStatementInv ==
    ASSUME Sorting, ParseInv, DistributionStatement
    PROVE  IsParse(parse')
<1> DEFINE s == Head(Top.string)
           o == memcached_behavior_set_distribution(parse.m, s.name).m
           h == memcached_behavior_set_distribution_hash(o, s.hash)
           t == memcached_behavior_set_distribution(o, s.name)
<1>1. Reading({"DISTRIBUTION"}) /\ (Proceed(h) \/ Proceed(t))
  <2>1. Reading({"DISTRIBUTION"}) /\ Proceed(IF s.hash # "none" THEN h ELSE t)
    BY Zenon DEF DistributionStatement
  <2> HIDE DEF h, t
  <2>2. QED
    BY <2>1, Zenon
<1>2. /\ IsParse(parse) /\ parse.status = "open" /\ HandleInv(parse.m)
      /\ Rest(Top) \in Frames /\ s \in Statement /\ s.token \in {"DISTRIBUTION"}
  BY <1>1, ReadStatement, Zenon
<1> HIDE DEF s
<1>3. s.name \in Distributions
  BY <1>2, Statements
<1>4. ASSUME NEW m, HandleInv(m)
      PROVE  HandleInv(memcached_behavior_set_distribution(m, s.name).m)
  <2> DEFINE n == run_distribution(Distributed(m, s.name))
  <2>1. IsHandle(m) /\ FlagsApart(m) /\ Current(m)
    BY <1>4, Zenon DEF HandleInv
  <2>2. memcached_behavior_set_distribution(m, s.name) = Ok(n) /\ IsDistributed(m, n, s.name)
    BY <1>3, <2>1, SetDistribution
  <2> HIDE DEF n
  <2>3. memcached_behavior_set_distribution(m, s.name).m = n
    BY <2>2 DEF Ok
  <2>4. QED
    BY <2>2, <2>3, Zenon DEF IsDistributed
<1>5. HandleInv(o)
  BY <1>2, <1>4, Zenon
<1> HIDE DEF o
<1>6. HandleInv(h.m) /\ HandleInv(t.m)
  BY <1>4, <1>5, DistributionHash, Zenon
<1> HIDE DEF h, t
<1>7. QED
  BY <1>1, <1>2, <1>6, ProceedInv, Zenon

(* --HASH.                                                                 *)
LEMMA HashStatementInv ==
    ASSUME ParseInv, set_hash
    PROVE  IsParse(parse')
<1> DEFINE r == memcached_behavior_set_key_hash(parse.m, Head(Top.string).name)
           top == [Top EXCEPT !.string = Tail(Top.string), !.has_hash = TRUE]
<1>1. /\ Reading({"HASH"})
      /\ parser_abort(parse.m) \/ parse' = [parse EXCEPT !.m = r.m, !.frames[1] = top]
  BY Zenon DEF set_hash
<1>2. /\ IsParse(parse) /\ parse.status = "open" /\ HandleInv(parse.m)
      /\ Top \in Frames /\ Rest(Top) \in Frames
  BY <1>1, ReadStatement, Zenon
<1>3. HandleInv(r.m)
  BY <1>2, KeyHash, Zenon
<1> HIDE DEF r
<1>4. CASE parser_abort(parse.m)
  BY <1>2, <1>4, Aborted, Zenon DEF parser_abort
<1>5. CASE parse' = [parse EXCEPT !.m = r.m, !.frames[1] = top]
  <2>1. top \in Frames
    <3>1. top = [Rest(Top) EXCEPT !.has_hash = TRUE]
      BY Zenon DEF Rest
    <3>2. QED
      BY <1>2, <3>1, Zenon DEF Frames
  <2> HIDE DEF top
  <2>2. parse' = WithTop(parse, r.m, top)
    <3>1. parse = [f \in {"status", "call", "m", "frames"} |-> parse[f]]
      BY <1>2, Zenon DEF IsParse
    <3>2. QED
      BY <1>5, <3>1, Zenon DEF WithTop
  <2>3. QED
    BY <1>2, <1>3, <2>1, <2>2, TopUpdate, Zenon
<1>6. QED
  BY <1>1, <1>4, <1>5, Zenon

(* The statements that set a behaviour.                                    *)
LEMMA BehaviorStatementInv ==
    ASSUME Sorting, ParseInv, BehaviorStatement
    PROVE  IsParse(parse')
<1> DEFINE s == Head(Top.string)
           data == IF s.token \in BehaviorNumbers THEN s.number ELSE 1
           r == memcached_behavior_set(parse.m, s.token, data, "")
<1>1. Reading(BehaviorNumbers \cup BehaviorBooleans) /\ Proceed(r)
  BY Zenon DEF BehaviorStatement
<1>2. /\ IsParse(parse) /\ parse.status = "open" /\ HandleInv(parse.m)
      /\ Rest(Top) \in Frames /\ s \in Statement
      /\ s.token \in BehaviorNumbers \cup BehaviorBooleans
  BY <1>1, ReadStatement, Zenon
<1> HIDE DEF s
<1>3. s.token \in Behaviors
  <2>1. BehaviorNumbers \subseteq Behaviors
    BY DEF BehaviorNumbers, Behaviors, Limits, Timeouts, Numbers, Unsigned, Signed
  <2>2. BehaviorBooleans \subseteq Behaviors
    BY DEF BehaviorBooleans, Behaviors, Transports, Placements, Readings, Limits, Timeouts,
           Numbers, Unsigned
  <2>3. QED
    BY <1>2, <2>1, <2>2
<1>4. data \in Data
  <2>1. 1 \in Data
    <3>1. Word * Word > 1
      BY WordAssumption
    <3>2. QED
      BY WordAssumption, <3>1 DEF Data
  <2>2. s.token \in BehaviorNumbers => s.number \in Data
    BY <1>2, Statements, Zenon
  <2>3. QED
    BY <2>1, <2>2, Zenon
<1> HIDE DEF data
<1>5. IsSet(parse.m, r, s.token, data, "")
  BY <1>2, <1>3, <1>4, BehaviorIsSet, Zenon
<1>6. HandleInv(r.m)
  BY <1>5, Zenon DEF IsSet
<1> HIDE DEF r
<1>7. QED
  BY <1>1, <1>2, <1>6, ProceedInv, Zenon

(* END, ERROR and what is no statement.                                    *)
LEMMA EndStatementInv ==
    ASSUME ParseInv, EndStatement
    PROVE  IsParse(parse')
<1> DEFINE top == [Top EXCEPT !.string = << >>]
<1>1. /\ Reading({"END", "ERROR", "UNKNOWN"})
      /\ parser_abort(parse.m) \/ parse' = [parse EXCEPT !.frames[1].string = << >>]
  BY Zenon DEF EndStatement
<1>2. /\ IsParse(parse) /\ parse.status = "open" /\ HandleInv(parse.m) /\ Top \in Frames
  BY <1>1, ReadStatement, Zenon
<1>3. CASE parser_abort(parse.m)
  BY <1>2, <1>3, Aborted, Zenon DEF parser_abort
<1>4. CASE parse' = [parse EXCEPT !.frames[1].string = << >>]
  <2>1. top \in Frames
    <3>1. << >> \in Seq(Statement)
      OBVIOUS
    <3>2. QED
      BY <1>2, <3>1, Zenon DEF Frames
  <2>2. parse' = WithTop(parse, parse.m, top)
    <3>1. parse = [f \in {"status", "call", "m", "frames"} |-> parse[f]]
      BY <1>2, Zenon DEF IsParse
    <3>2. parse' = [parse EXCEPT !.frames = [parse.frames EXCEPT ![1] = top]]
      BY <1>4, Zenon DEF Top
    <3> DEFINE x == [parse.frames EXCEPT ![1] = top]
    <3> HIDE DEF x
    <3>3. [parse EXCEPT !.frames = x] = [parse EXCEPT !.m = parse.m, !.frames = x]
      BY <3>1, Zenon
    <3>4. QED
      BY <3>2, <3>3, Zenon DEF WithTop, x
  <2> HIDE DEF top
  <2>3. QED
    BY <1>2, <2>1, <2>2, TopUpdate, Zenon
<1>5. QED
  BY <1>1, <1>3, <1>4, Zenon

(* RESET gives a handle that is new.                                       *)
LEMMA ResetStatementInv ==
    ASSUME ParseInv, ResetStatement
    PROVE  IsParse(parse')
<1> DEFINE r == Ok(memcached_reset(parse.m))
<1>1. Reading({"RESET"}) /\ Proceed(r)
  BY Zenon DEF ResetStatement
<1>2. /\ IsParse(parse) /\ parse.status = "open" /\ Rest(Top) \in Frames
  BY <1>1, ReadStatement, Zenon
<1>3. HandleInv(r.m)
  <2>1. r.m = memcached_create
    BY DEF Ok, memcached_reset
  <2>2. QED
    BY <2>1, CreateInv, Zenon
<1> HIDE DEF r
<1>4. QED
  BY <1>1, <1>2, <1>3, ProceedInv, Zenon

(* A frame for a file is put on top, or the file fails.                    *)
LEMMA ConfigureFile ==
    ASSUME NEW p, IsParse(p), p.status = "open", NEW file
    PROVE  IsParse(memcached_parse_configure_file(p, file))
<1> DEFINE n == memcached_parse_configure_file(p, file)
           x == << Frame(<< >>, Files[file.name]) >> \o p.frames
<1>1. /\ p = [f \in {"status", "call", "m", "frames"} |-> p[f]] /\ HandleInv(p.m)
      /\ p.frames \in Seq(Frames) /\ p.frames # << >>
  BY Zenon DEF IsParse
<1>2. CASE file.length = 0 \/ file.name \notin DOMAIN Files \/ Files[file.name] = << >>
  <2>1. n = [p EXCEPT !.status = "PARSE_ERROR"]
    BY <1>2, Zenon DEF memcached_parse_configure_file
  <2>2. [p EXCEPT !.status = "PARSE_ERROR"] = [p EXCEPT !.status = "PARSE_ERROR", !.m = p.m]
    BY <1>1, Zenon
  <2>3. IsParse([p EXCEPT !.status = "PARSE_ERROR", !.m = p.m])
    BY <1>1, Aborted, Zenon
  <2>4. QED
    BY <2>1, <2>2, <2>3, Zenon
<1>3. CASE ~(file.length = 0 \/ file.name \notin DOMAIN Files \/ Files[file.name] = << >>)
  <2>1. n = [p EXCEPT !.frames = x]
    BY <1>3, Zenon DEF memcached_parse_configure_file
  <2>2. Frame(<< >>, Files[file.name]) \in Frames
    <3>1. Files[file.name] \in Seq(Seq(Statement))
      BY <1>3, FilesAssumption, Zenon
    <3>2. << >> \in Seq(Statement)
      OBVIOUS
    <3>3. QED
      BY <3>1, <3>2, Zenon DEF Frame, Frames
  <2>3. x \in Seq(Frames) /\ x # << >>
    <3> DEFINE g == Frame(<< >>, Files[file.name])
    <3> HIDE DEF g
    <3>1. << g >> \o p.frames \in Seq(Frames) /\ << g >> \o p.frames # << >>
      BY <1>1, <2>2 DEF g
    <3>2. QED
      BY <3>1, Zenon DEF g
  <2> HIDE DEF x, n
  <2>4. /\ n = [f \in {"status", "call", "m", "frames"} |-> n[f]]
        /\ n.m = p.m /\ n.frames = x /\ n.status = p.status /\ n.call = p.call
    BY <1>1, <2>1, Zenon
  <2>5. IsParse(n)
    BY <2>3, <2>4, Zenon DEF IsParse
  <2>6. QED
    BY <2>5, Zenon DEF n
<1>4. QED
  BY <1>2, <1>3, Zenon

(* INCLUDE.                                                                *)
LEMMA IncludeStatementInv ==
    ASSUME ParseInv, IncludeStatement
    PROVE  IsParse(parse')
<1> DEFINE file == Head(Top.string).key
           p == [parse EXCEPT !.frames[1].string = Tail(@)]
<1>1. Reading({"INCLUDE"}) /\ parse' = memcached_parse_configure_file(p, file)
  BY Zenon DEF IncludeStatement
<1>2. /\ IsParse(parse) /\ parse.status = "open" /\ HandleInv(parse.m)
      /\ Rest(Top) \in Frames
  BY <1>1, ReadStatement, Zenon
<1>3. parse = [f \in {"status", "call", "m", "frames"} |-> parse[f]]
  BY <1>2, Zenon DEF IsParse
<1>4. p = WithTop(parse, parse.m, Rest(Top))
  <2> DEFINE x == [parse.frames EXCEPT ![1] = Rest(Top)]
  <2>1. p = [parse EXCEPT !.frames = x]
    BY Zenon DEF Rest, Top
  <2> HIDE DEF p, x
  <2>2. [parse EXCEPT !.frames = x] = [parse EXCEPT !.m = parse.m, !.frames = x]
    BY <1>3, Zenon
  <2>3. QED
    BY <2>1, <2>2, Zenon DEF WithTop, x
<1> HIDE DEF p
<1>5. IsParse(p) /\ p.status = "open"
  <2>1. WithTop(parse, parse.m, Rest(Top)).status = parse.status
    BY <1>3, Zenon DEF WithTop
  <2>2. IsParse(WithTop(parse, parse.m, Rest(Top)))
    BY <1>2, TopUpdate
  <2>3. QED
    BY <1>2, <1>4, <2>1, <2>2, Zenon
<1>6. QED
  BY <1>1, <1>5, ConfigureFile

(* The next line of a file.                                                *)
LEMMA FileLineInv ==
    ASSUME ParseInv, parse_file_options
    PROVE  IsParse(parse')
<1> DEFINE top == Frame(Head(Top.lines), Tail(Top.lines))
<1>1. /\ parse.status = "open" /\ Top.lines # << >>
      /\ parse' = [parse EXCEPT !.frames[1] = top]
  BY Zenon DEF parse_file_options
<1>2. IsParse(parse)
  BY <1>1 DEF ParseInv, Idle
<1>3. Top \in Frames
  BY <1>1, <1>2, TopOfParse DEF Top
<1>4. top \in Frames
  <2> DEFINE l == Top.lines
  <2>1. l \in Seq(Seq(Statement)) /\ l # << >>
    BY <1>1, <1>3, Zenon DEF Frames
  <2> HIDE DEF l
  <2>2. Head(l) \in Seq(Statement) /\ Tail(l) \in Seq(Seq(Statement))
    BY <2>1
  <2>3. QED
    BY <2>2, Zenon DEF Frame, Frames, l
<1> HIDE DEF top
<1>5. parse' = WithTop(parse, parse.m, top)
  <2> DEFINE x == [parse.frames EXCEPT ![1] = top]
  <2>1. parse = [f \in {"status", "call", "m", "frames"} |-> parse[f]]
    BY <1>2, Zenon DEF IsParse
  <2>2. parse' = [parse EXCEPT !.frames = x]
    BY <1>1, Zenon
  <2> HIDE DEF x
  <2>3. [parse EXCEPT !.frames = x] = [parse EXCEPT !.m = parse.m, !.frames = x]
    BY <2>1, Zenon
  <2>4. QED
    BY <2>2, <2>3, Zenon DEF WithTop, x
<1>6. HandleInv(parse.m)
  BY <1>2, Zenon DEF IsParse
<1>7. IsParse(WithTop(parse, parse.m, top))
  BY <1>1, <1>2, <1>4, <1>6, TopUpdate
<1>8. QED
  BY <1>5, <1>7, Zenon

(* The end of a string or file, and the file that memcached() goes on      *)
(* with.                                                                   *)
LEMMA ParseReturnInv ==
    ASSUME ParseInv, ParseReturn
    PROVE  IsParse(parse')
<1> DEFINE e == << Frame(<< >>, << >>) >>
           p == [parse EXCEPT !.call.op = "memcached_file", !.frames = e]
<1>1. /\ parse.status = "open"
      /\ \/ Len(parse.frames) > 1 /\ parse' = [parse EXCEPT !.frames = Tail(@)]
         \/ parse' = memcached_parse_configure_file(p, parse.m.filename)
         \/ parse' = [parse EXCEPT !.status = "SUCCESS"]
  BY Zenon DEF ParseReturn
<1>2. IsParse(parse)
  BY <1>1 DEF ParseInv, Idle
<1>3. /\ parse = [f \in {"status", "call", "m", "frames"} |-> parse[f]]
      /\ parse.frames \in Seq(Frames) /\ HandleInv(parse.m) /\ "op" \in DOMAIN parse.call
  BY <1>2, Zenon DEF IsParse
<1>4. CASE Len(parse.frames) > 1 /\ parse' = [parse EXCEPT !.frames = Tail(@)]
  <2> DEFINE x == Tail(parse.frames)
             n == [parse EXCEPT !.frames = x]
  <2>1. x \in Seq(Frames) /\ x # << >>
    <3> DEFINE s == parse.frames
    <3>1. s \in Seq(Frames) /\ Len(s) > 1
      BY <1>3, <1>4, Zenon
    <3> HIDE DEF s
    <3>2. Tail(s) \in Seq(Frames) /\ Len(Tail(s)) = Len(s) - 1
      BY <3>1
    <3>3. Len(s) \in Nat /\ Len(<< >>) = 0
      BY <3>1
    <3>4. Len(Tail(s)) # Len(<< >>)
      BY <3>1, <3>2, <3>3
    <3>5. QED
      BY <3>2, <3>4, Zenon DEF s
  <2> HIDE DEF x
  <2>2. /\ n = [f \in {"status", "call", "m", "frames"} |-> n[f]]
        /\ n.m = parse.m /\ n.frames = x /\ n.status = parse.status /\ n.call = parse.call
    BY <1>3, Zenon
  <2>3. parse' = n
    BY <1>4, Zenon DEF x
  <2> HIDE DEF n
  <2>4. IsParse(n)
    BY <1>2, <2>1, <2>2, Zenon DEF IsParse
  <2>5. QED
    BY <2>3, <2>4, Zenon
<1>5. CASE parse' = memcached_parse_configure_file(p, parse.m.filename)
  <2> DEFINE c == [parse.call EXCEPT !.op = "memcached_file"]
  <2>1. e \in Seq(Frames) /\ e # << >>
    <3>1. << >> \in Seq(Statement) /\ << >> \in Seq(Seq(Statement))
      OBVIOUS
    <3> DEFINE g == Frame(<< >>, << >>)
    <3>2. g \in Frames
      BY <3>1, Zenon DEF Frame, Frames
    <3> HIDE DEF g
    <3>3. << g >> \in Seq(Frames) /\ << g >> # << >>
      BY <3>2
    <3>4. QED
      BY <3>3, Zenon DEF g
  <2> HIDE DEF e
  <2>2. "op" \in DOMAIN c /\ c.op = "memcached_file"
    BY <1>3, Zenon
  <2>3. p = [parse EXCEPT !.call = c, !.frames = e]
    BY Zenon
  <2> HIDE DEF c, p
  <2>4. /\ p = [f \in {"status", "call", "m", "frames"} |-> p[f]]
        /\ p.m = parse.m /\ p.frames = e /\ p.status = parse.status /\ p.call = c
    BY <1>3, <2>3, Zenon
  <2>5. IsParse(p) /\ p.status = "open"
    <3>1. p.call.op \in {"parse", "memcached", "memcached_file"} /\ "op" \in DOMAIN p.call
      BY <2>2, <2>4
    <3>2. QED
      BY <1>1, <1>2, <2>1, <2>4, <3>1, Zenon DEF IsParse
  <2>6. QED
    BY <1>5, <2>5, ConfigureFile, Zenon
<1>6. CASE parse' = [parse EXCEPT !.status = "SUCCESS"]
  <2>1. [parse EXCEPT !.status = "SUCCESS"] = [parse EXCEPT !.status = "SUCCESS", !.m = parse.m]
    BY <1>3, Zenon
  <2>2. QED
    BY <1>2, <1>3, <1>6, <2>1, Aborted, Zenon
<1>7. QED
  BY <1>1, <1>4, <1>5, <1>6, Zenon

(* Every step of the parser keeps the handle it configures sound.          *)
LEMMA ParseStepInv ==
    ASSUME Sorting, ParseInv, Parse
    PROVE  IsParse(parse')
BY ServerStatementInv, PlainStatementInv, NamespaceStatementInv, DistributionStatementInv,
   HashStatementInv, BehaviorStatementInv, EndStatementInv, ResetStatementInv,
   IncludeStatementInv, FileLineInv, ParseReturnInv, Zenon DEF Parse
=============================================================================
