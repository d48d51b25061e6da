---------------------------- MODULE HandleProofs ----------------------------
(***************************************************************************)
(* Theorems about the handle of a program, for every program, every        *)
(* configuration string and file, every hash function and every key: that  *)
(* sort_hosts sorts, what a call does to a handle, and that its settings,  *)
(* its connections and its clones agree.                                   *)
(***************************************************************************)
EXTENDS HandleLemmas, FiniteSetTheorems

-----------------------------------------------------------------------------
(* Sorting: every place of a list is the rank of one of its servers.       *)

(* The order of sort_hosts is strict and total on the places of a list.    *)
LEMMA PrecedesTotal ==
    ASSUME NEW s \in Seq(Instance),
           NEW i \in DOMAIN s, NEW j \in DOMAIN s, NEW k \in DOMAIN s
    PROVE  /\ ~precedes(s, i, i)
           /\ ~(precedes(s, i, j) /\ precedes(s, j, i))
           /\ precedes(s, i, j) /\ precedes(s, j, k) => precedes(s, i, k)
           /\ i # j => precedes(s, i, j) \/ precedes(s, j, i)
<1>1. s[i] \in Instance /\ s[j] \in Instance /\ s[k] \in Instance
  OBVIOUS
<1>2. i \in Nat /\ j \in Nat /\ k \in Nat
  OBVIOUS
<1>3. \A x \in Instance : x.hostname \in Nat /\ x.port \in Nat
  BY DEF Instance
<1> DEFINE before(h, p, x, g, q, y) == \/ h < g \/ (h = g /\ p < q)
                                       \/ ~(g < h \/ (g = h /\ q < p)) /\ x < y
           a == s[i].hostname
           b == s[j].hostname
           c == s[k].hostname
           p == s[i].port
           q == s[j].port
           r == s[k].port
<1>4. a \in Nat /\ b \in Nat /\ c \in Nat /\ p \in Nat /\ q \in Nat /\ r \in Nat
  BY <1>1, <1>3, Zenon
<1>5. /\ precedes(s, i, i) <=> before(a, p, i, a, p, i)
      /\ precedes(s, i, j) <=> before(a, p, i, b, q, j)
      /\ precedes(s, j, i) <=> before(b, q, j, a, p, i)
      /\ precedes(s, j, k) <=> before(b, q, j, c, r, k)
      /\ precedes(s, i, k) <=> before(a, p, i, c, r, k)
  BY Zenon DEF precedes, compare_servers
<1> HIDE DEF a, b, c, p, q, r
<1>6. ~before(a, p, i, a, p, i) /\ ~(before(a, p, i, b, q, j) /\ before(b, q, j, a, p, i))
  BY <1>2, <1>4
<1>7. before(a, p, i, b, q, j) /\ before(b, q, j, c, r, k) => before(a, p, i, c, r, k)
  BY <1>2, <1>4
<1>8. i # j => before(a, p, i, b, q, j) \/ before(b, q, j, a, p, i)
  BY <1>2, <1>4
<1> HIDE DEF before
<1>9. QED
  BY <1>5, <1>6, <1>7, <1>8, Zenon

(* A rank is a place of the list.                                          *)
LEMMA RankType ==
    ASSUME NEW s \in Seq(Instance), NEW i \in DOMAIN s
    PROVE  Rank(s, i) \in DOMAIN s
<1> DEFINE P == {j \in DOMAIN s : precedes(s, j, i)}
<1>1. DOMAIN s = 1..Len(s) /\ Len(s) \in Nat
  BY ListFacts
<1>2. IsFiniteSet(1..Len(s)) /\ Cardinality(1..Len(s)) = Len(s)
  <2>1. 1 \in Int /\ Len(s) \in Int /\ Len(s) - 1 + 1 = Len(s) /\ (1 > Len(s) => Len(s) = 0)
    BY <1>1
  <2>2. QED
    BY <2>1, FS_Interval
<1>3. P \subseteq (1..Len(s)) \ {i}
  BY <1>1, PrecedesTotal
<1>4. /\ IsFiniteSet((1..Len(s)) \ {i})
      /\ Cardinality((1..Len(s)) \ {i}) = Len(s) - 1
  <2>1. i \in 1..Len(s)
    BY <1>1
  <2>2. QED
    BY <1>2, <2>1, FS_RemoveElement, Zenon
<1>5. Cardinality(P) <= Len(s) - 1 /\ IsFiniteSet(P)
  BY <1>3, <1>4, FS_Subset
<1>6. Cardinality(P) \in Nat
  BY <1>5, FS_CardinalityType
<1>7. Rank(s, i) = Cardinality(P) + 1
  BY DEF Rank
<1> HIDE DEF P
<1>8. QED
  BY <1>1, <1>5, <1>6, <1>7

(* What precedes has the lower rank.                                       *)
LEMMA RankMonotonic ==
    ASSUME NEW s \in Seq(Instance), NEW i \in DOMAIN s, NEW j \in DOMAIN s,
           precedes(s, i, j)
    PROVE  Rank(s, i) < Rank(s, j)
<1> DEFINE P(x) == {y \in DOMAIN s : precedes(s, y, x)}
<1>1. DOMAIN s = 1..Len(s) /\ Len(s) \in Nat
  BY ListFacts
<1>2. IsFiniteSet(1..Len(s))
  BY <1>1, FS_Interval
<1>3. P(j) \subseteq 1..Len(s)
  BY <1>1
<1>4. IsFiniteSet(P(j))
  BY <1>2, <1>3, FS_Subset
<1>5. P(i) \subseteq P(j)
  BY PrecedesTotal
<1>6. i \in P(j) /\ i \notin P(i)
  BY PrecedesTotal
<1>7. /\ Cardinality(P(i)) <= Cardinality(P(j))
      /\ Cardinality(P(i)) # Cardinality(P(j))
      /\ IsFiniteSet(P(i))
  BY <1>4, <1>5, <1>6, FS_Subset
<1>8. Cardinality(P(i)) \in Nat /\ Cardinality(P(j)) \in Nat
  BY <1>4, <1>7, FS_CardinalityType
<1>9. Rank(s, i) = Cardinality(P(i)) + 1 /\ Rank(s, j) = Cardinality(P(j)) + 1
  BY DEF Rank
<1> HIDE DEF P
<1>10. QED
  BY <1>7, <1>8, <1>9

(* Every place is the rank of one: ranks are different, and as many as     *)
(* places.                                                                 *)
LEMMA RankOnto ==
    ASSUME NEW s \in Seq(Instance), NEW k \in DOMAIN s
    PROVE  \E i \in DOMAIN s : Rank(s, i) = k
<1> DEFINE D == DOMAIN s
           f == [i \in D |-> Rank(s, i)]
<1>1. D = 1..Len(s) /\ Len(s) \in Nat
  BY ListFacts
<1>2. IsFiniteSet(D)
  BY <1>1, FS_Interval
<1>3. f \in [D -> D]
  BY RankType
<1>4. \A i, j \in D : f[i] = f[j] => i = j
  <2>1. SUFFICES ASSUME NEW i \in D, NEW j \in D, i # j
                 PROVE  f[i] # f[j]
    OBVIOUS
  <2>2. f[i] \in Nat /\ f[j] \in Nat
    BY <1>1, <1>3
  <2>3. f[i] < f[j] \/ f[j] < f[i]
    BY <2>1, PrecedesTotal, RankMonotonic
  <2>4. QED
    BY <2>2, <2>3
<1>5. f \in Injection(D, D)
  BY <1>3, <1>4 DEF Injection, IsInjective
<1>6. f \in Surjection(D, D)
  BY <1>2, <1>5, FS_Injection
<1>7. \E i \in D : f[i] = k
  BY <1>6 DEF Surjection
<1>8. QED
  BY <1>7

(* The sorted list has the elements of the list.                           *)
LEMMA InOrderElements ==
    ASSUME NEW s \in Seq(Instance)
    PROVE  /\ InOrder(s) \in Seq(Instance)
           /\ Len(InOrder(s)) = Len(s)
           /\ DOMAIN InOrder(s) = DOMAIN s
           /\ \A k \in DOMAIN s :
                 \E i \in DOMAIN s : InOrder(s)[k] = s[i] /\ Rank(s, i) = k
<1> DEFINE t == InOrder(s)
<1>1. DOMAIN s = 1..Len(s) /\ Len(s) \in Nat /\ \A i \in DOMAIN s : s[i] \in Instance
  BY ListFacts
<1>2. DOMAIN t = DOMAIN s
  BY DEF InOrder
<1>3. ASSUME NEW k \in DOMAIN s
      PROVE  \E i \in DOMAIN s : t[k] = s[i] /\ Rank(s, i) = k
  <2> DEFINE p == CHOOSE i \in DOMAIN s : Rank(s, i) = k
  <2>1. p \in DOMAIN s /\ Rank(s, p) = k
    BY RankOnto
  <2>2. t[k] = s[p]
    BY DEF InOrder
  <2>3. QED
    BY <2>1, <2>2, Zenon
<1>4. \A k \in DOMAIN s : t[k] \in Instance
  BY <1>1, <1>3, Zenon
<1>5. t \in [1..Len(s) -> Instance]
  BY <1>1, <1>4 DEF InOrder
<1> HIDE DEF t
<1>6. t \in Seq(Instance) /\ Len(t) = Len(s)
  BY <1>1, <1>5
<1>7. QED
  BY <1>2, <1>3, <1>6 DEF t

(* No server of the sorted list belongs before an earlier one.             *)
LEMMA InOrderSorted ==
    ASSUME NEW s \in Seq(Instance),
           NEW k \in DOMAIN s, NEW l \in DOMAIN s, k < l
    PROVE  ~compare_servers(InOrder(s)[l], InOrder(s)[k])
<1>1. PICK i \in DOMAIN s : InOrder(s)[k] = s[i] /\ Rank(s, i) = k
  BY InOrderElements, Zenon
<1>2. PICK j \in DOMAIN s : InOrder(s)[l] = s[j] /\ Rank(s, j) = l
  BY InOrderElements
<1>3. k \in Nat /\ l \in Nat
  BY ListFacts
<1>4. ~precedes(s, j, i)
  BY <1>1, <1>2, <1>3, RankMonotonic
<1>5. QED
  BY <1>1, <1>2, <1>4 DEF precedes

(* sort_hosts leaves a sorted list alone.                                  *)
LEMMA InOrderIdentity ==
    ASSUME NEW s \in Seq(Instance),
           \A i, j \in DOMAIN s : i < j => ~compare_servers(s[j], s[i])
    PROVE  InOrder(s) = s
<1>1. DOMAIN s = 1..Len(s) /\ Len(s) \in Nat
  BY ListFacts
<1>2. ASSUME NEW i \in DOMAIN s
      PROVE  Rank(s, i) = i
  <2>1. {j \in DOMAIN s : precedes(s, j, i)} = 1..(i - 1)
    <3>1. ASSUME NEW j \in DOMAIN s
          PROVE  precedes(s, j, i) <=> j < i
      <4>1. i \in Nat /\ j \in Nat
        BY <1>1
      <4>2. CASE j < i
        <5>1. ~compare_servers(s[i], s[j])
          BY <4>2
        <5>2. QED
          BY <4>2, <5>1 DEF precedes
      <4>3. CASE i < j
        <5>1. precedes(s, i, j)
          BY <4>3 DEF precedes
        <5>2. QED
          BY <4>1, <4>3, <5>1, PrecedesTotal
      <4>4. CASE i = j
        BY <4>1, <4>4, PrecedesTotal
      <4>5. QED
        BY <4>1, <4>2, <4>3, <4>4
    <3>2. QED
      BY <1>1, <3>1
  <2>2. i \in Nat /\ i - 1 \in Int /\ 1 \in Int /\ i >= 1
    BY <1>1
  <2>3. Cardinality(1..(i - 1)) = IF 1 > i - 1 THEN 0 ELSE i - 1 - 1 + 1
    BY <2>2, FS_Interval, Zenon
  <2>4. Rank(s, i) = Cardinality(1..(i - 1)) + 1
    BY <2>1, Zenon DEF Rank
  <2>5. QED
    BY <2>2, <2>3, <2>4
<1>3. ASSUME NEW k \in DOMAIN s
      PROVE  InOrder(s)[k] = s[k]
  <2>1. PICK i \in DOMAIN s : InOrder(s)[k] = s[i] /\ Rank(s, i) = k
    BY InOrderElements
  <2>2. QED
    BY <1>2, <2>1
<1> DEFINE t == InOrder(s)
<1>4. t \in Seq(Instance) /\ Len(t) = Len(s)
  BY InOrderElements, Zenon
<1>5. \A k \in 1..Len(s) : t[k] = s[k]
  BY <1>1, <1>3, Zenon
<1> HIDE DEF t
<1>6. t = s
  BY <1>4, <1>5
<1>7. QED
  BY <1>6, Zenon DEF t

(* What HandleLemmas uses of sort_hosts holds.                             *)
LEMMA ListsSort == Sorting
<1> SUFFICES ASSUME NEW s \in Seq(Instance)
             PROVE  /\ InOrder(s) \in Seq(Instance)
                    /\ DOMAIN InOrder(s) = DOMAIN s
                    /\ \A k \in DOMAIN s : \E i \in DOMAIN s : InOrder(s)[k] = s[i]
                    /\ \A k, l \in DOMAIN s :
                          k < l => ~compare_servers(InOrder(s)[l], InOrder(s)[k])
                    /\ (\A i, j \in DOMAIN s : i < j => ~compare_servers(s[j], s[i]))
                         => InOrder(s) = s
                    /\ \A D \in SUBSET DOMAIN s : Cardinality(D) \in Nat
  BY Zenon DEF Sorting
<1>1. /\ InOrder(s) \in Seq(Instance)
      /\ DOMAIN InOrder(s) = DOMAIN s
      /\ \A k \in DOMAIN s : \E i \in DOMAIN s : InOrder(s)[k] = s[i]
  BY InOrderElements, Zenon
<1>2. \A k, l \in DOMAIN s : k < l => ~compare_servers(InOrder(s)[l], InOrder(s)[k])
  BY InOrderSorted, Zenon
<1>3. (\A i, j \in DOMAIN s : i < j => ~compare_servers(s[j], s[i])) => InOrder(s) = s
  BY InOrderIdentity, Zenon
<1>4. ASSUME NEW D \in SUBSET DOMAIN s
      PROVE  Cardinality(D) \in Nat
  <2>1. DOMAIN s = 1..Len(s) /\ Len(s) \in Int /\ 1 \in Int
    BY ListFacts
  <2>2. IsFiniteSet(DOMAIN s)
    BY <2>1, FS_Interval, Zenon
  <2>3. QED
    BY <2>2, FS_Subset, FS_CardinalityType
<1>5. QED
  BY <1>1, <1>2, <1>3, <1>4, Zenon

-----------------------------------------------------------------------------
(* The invariant.                                                          *)

(* The inductive invariant of a program and its handle.                    *)
Inv ==
    /\ program \in Programs
    /\ HandleInv(memc)
    /\ ParseInv
    /\ clone = Nobody \/ FlagsApart(clone)
    /\ last.op = "clone" => clone = memcached_clone(memc)
    /\ ReadsBack

-----------------------------------------------------------------------------
(* The program.                                                            *)

(* The types of the arguments of a call.                                   *)
LEMMA CallArguments ==
    ASSUME NEW c \in Call
    PROVE  /\ c.op = "behavior_set" => c.behavior \in Behaviors /\ c.data \in Data
           /\ c.op = "server_add" => c.server \in Server
           /\ c.op = "server_push" => c.list \in Seq(Server)
           /\ c.op \in {"parse", "memcached"} => c.string \in Seq(Statement)
           /\ "op" \in DOMAIN c
<1>1. CASE c \in [op : {"behavior_set"}, behavior : Behaviors, data : Data,
                  name : Distributions \cup Hashes \cup {"MAX", ""}]
  BY <1>1, Zenon
<1>2. CASE c \in [op : {"callback_set"}, callback : Callbacks, data : Nat]
  BY <1>2
<1>3. CASE c \in [op : {"set_namespace"}, key : Name]
  BY <1>3
<1>4. CASE c \in [op : {"server_add"}, server : Server]
  BY <1>4
<1>5. CASE c \in [op : {"server_push"}, list : Seq(Server)]
  BY <1>5
<1>6. CASE c \in [op : {"bucket_set"}, host_map : Seq(Nat)]
  BY <1>6
<1>7. CASE c \in [op : {"buffer_size"}, behavior : {"SOCKET_SEND_SIZE", "SOCKET_RECV_SIZE"}]
  BY <1>7
<1>8. CASE c \in [op : {"parse", "memcached"}, string : Seq(Statement)]
  BY <1>8
<1>9. CASE c \in [op : {"servers_reset", "reset", "clone", "quit", "request", "retry"}]
  BY <1>9
<1>10. QED
  BY <1>1, <1>2, <1>3, <1>4, <1>5, <1>6, <1>7, <1>8, <1>9, Zenon DEF Call

(* The calls of a program.                                                 *)
LEMMA CallsOf ==
    ASSUME program \in Programs, NEW op, NEW c \in Calls(op)
    PROVE  c \in Call /\ c.op = op
<1>1. program \in [servers : Seq(Server), calls : SUBSET Call, max : Nat]
  BY ProgramsAssumption, Zenon
<1>2. program.calls \in SUBSET Call
  BY <1>1, Zenon
<1>3. QED
  BY <1>2, Zenon DEF Calls

(* What RefusedChangesNothing says of a step.                              *)
RefusedStep == last'.rc # "SUCCESS" /\ ~Exempt(last'.call) => memc' = memc

(* A call that returns a sound handle: a behaviour that is set reads back, *)
(* and a refused call leaves the handle alone unless it is exempt.         *)
Honoured(c, r) ==
    /\ HandleInv(r.m)
    /\ c.op # "clone"
    /\ c.op = "behavior_set" /\ r.rc = "SUCCESS" => Reads(r.m, c.behavior, c.data, c.name)
    /\ r.rc # "SUCCESS" /\ ~Exempt(c) => r.m = memc

(* A call that is honoured keeps the invariant.                            *)
LEMMA ReturnInv ==
    ASSUME Inv, NEW c, NEW r, Honoured(c, r), Return(c, r), ParseInv', UNCHANGED clone
    PROVE  Inv' /\ RefusedStep
<1>1. /\ memc' = r.m /\ program' = program
      /\ last' = [op |-> c.op, call |-> c, rc |-> r.rc]
  BY Zenon DEF Return
<1>2. last'.op = c.op /\ last'.call = c /\ last'.rc = r.rc
  BY <1>1, Zenon
<1>3. ReadsBack'
  <2>1. last'.op = "behavior_set" /\ last'.rc = "SUCCESS" =>
           Reads(memc', last'.call.behavior, last'.call.data, last'.call.name)
    BY <1>1, <1>2, Zenon DEF Honoured
  <2>2. QED
    BY <2>1, Zenon DEF ReadsBack, Reads
<1>4. HandleInv(memc')
  BY <1>1, Zenon DEF Honoured
<1>5. (clone = Nobody \/ FlagsApart(clone))'
  BY Zenon DEF Inv, FlagsApart
<1>6. (program \in Programs)'
  BY <1>1, Zenon DEF Inv
<1>7. Inv'
  <2>1. HandleInv(memc)'
    BY <1>4, Zenon DEF HandleInv, IsHandle, FlagsApart, Current, WeightsUsed, HostsSorted,
                       NeverFailed, Rebuilt, memcached_is_consistent_distribution
  <2>2. (last.op = "clone" => clone = memcached_clone(memc))'
    BY <1>2, Zenon DEF Honoured
  <2>3. QED
    BY <1>3, <1>5, <1>6, <2>1, <2>2, Zenon DEF Inv
<1>8. RefusedStep
  BY <1>1, <1>2, Zenon DEF RefusedStep, Honoured
<1>9. QED
  BY <1>7, <1>8, Zenon

(* A call of the program that is made in one step.                         *)
LEMMA MakeInv ==
    ASSUME Inv, NEW c, NEW r, Honoured(c, r), Make(c, r), UNCHANGED clone
    PROVE  Inv' /\ RefusedStep
<1>1. Return(c, r) /\ parse = Idle /\ parse' = parse
  BY Zenon DEF Make
<1>2. ParseInv'
  BY <1>1, Zenon DEF ParseInv, Idle
<1>3. QED
  BY <1>1, <1>2, ReturnInv, Zenon

(* A call that is sound.                                                   *)
LEMMA SoundIsHonoured ==
    ASSUME NEW c, c.op \notin {"clone", "behavior_set"}, NEW r, IsSound(memc, r)
    PROVE  Honoured(c, r)
BY DEF Honoured, IsSound

(* memcached_behavior_set.                                                 *)
LEMMA BehaviorSetInv ==
    ASSUME Inv, BehaviorSet
    PROVE  Inv' /\ RefusedStep
<1>1. PICK c \in Calls("behavior_set") :
         /\ Make(c, memcached_behavior_set(memc, c.behavior, c.data, c.name))
         /\ UNCHANGED clone
  BY Zenon DEF BehaviorSet
<1> DEFINE r == memcached_behavior_set(memc, c.behavior, c.data, c.name)
<1>2. c \in Call /\ c.op = "behavior_set"
  BY CallsOf, Zenon DEF Inv
<1>3. c.behavior \in Behaviors /\ c.data \in Data
  BY <1>2, CallArguments
<1>4. IsSet(memc, r, c.behavior, c.data, c.name)
  BY <1>3, BehaviorIsSet, ListsSort DEF Inv
<1> HIDE DEF r
<1>5. Honoured(c, r)
  BY <1>2, <1>4, Zenon DEF Honoured, IsSet, Exempt
<1>6. QED
  BY <1>1, <1>5, MakeInv, Zenon DEF r

(* memcached_callback_set.                                                 *)
LEMMA CallbackSetInv ==
    ASSUME Inv, CallbackSet
    PROVE  Inv' /\ RefusedStep
<1>1. PICK c \in Calls("callback_set") :
         Make(c, memcached_callback_set(memc, c.callback, c.data)) /\ UNCHANGED clone
  BY Zenon DEF CallbackSet
<1> DEFINE r == memcached_callback_set(memc, c.callback, c.data)
<1>2. c.op = "callback_set"
  BY CallsOf, Zenon DEF Inv
<1>3. IsSound(memc, r)
  BY CallbackSound, Zenon DEF Inv
<1> HIDE DEF r
<1>4. Honoured(c, r)
  BY <1>2, <1>3, SoundIsHonoured
<1>5. QED
  BY <1>1, <1>4, MakeInv, Zenon DEF r

(* memcached_set_namespace.                                                *)
LEMMA SetNamespaceInv ==
    ASSUME Inv, SetNamespace
    PROVE  Inv' /\ RefusedStep
<1>1. PICK c \in Calls("set_namespace") :
         Make(c, memcached_set_namespace(memc, c.key)) /\ UNCHANGED clone
  BY Zenon DEF SetNamespace
<1> DEFINE r == memcached_set_namespace(memc, c.key)
<1>2. c.op = "set_namespace"
  BY CallsOf, Zenon DEF Inv
<1>3. IsSound(memc, r)
  BY NamespaceSound, Zenon DEF Inv
<1> HIDE DEF r
<1>4. Honoured(c, r)
  BY <1>2, <1>3, SoundIsHonoured
<1>5. QED
  BY <1>1, <1>4, MakeInv, Zenon DEF r

(* memcached_server_add and its variants.                                  *)
LEMMA ServerAddCallInv ==
    ASSUME Inv, ServerAdd
    PROVE  Inv' /\ RefusedStep
<1> DEFINE result(c) == IF c.server.type = "UNIX_SOCKET"
                        THEN memcached_server_add_unix_socket_with_weight(memc, c.server)
                        ELSE memcached_server_add_with_weight(memc, c.server)
<1>1. PICK c \in Calls("server_add") : Make(c, result(c)) /\ UNCHANGED clone
  BY Zenon DEF ServerAdd
<1> DEFINE r == result(c)
<1>2. c \in Call /\ c.op = "server_add"
  BY CallsOf, Zenon DEF Inv
<1>3. c.server \in Server
  BY <1>2, CallArguments
<1>4. IsSound(memc, r)
  <2>1. /\ IsSound(memc, memcached_server_add_with_weight(memc, c.server))
        /\ IsSound(memc, memcached_server_add_unix_socket_with_weight(memc, c.server))
    BY <1>3, ServerAddSound, ListsSort, Zenon DEF Inv
  <2>2. QED
    BY <2>1, Zenon
<1>5. Make(c, r)
  BY <1>1, Zenon
<1> HIDE DEF r, result
<1>6. Honoured(c, r)
  BY <1>2, <1>4, SoundIsHonoured
<1>7. QED
  BY <1>1, <1>5, <1>6, MakeInv, Zenon

(* A list of servers, as it is or as it was appended to.                   *)
LEMMA ListOfServers ==
    ASSUME NEW list \in Seq(Server)
    PROVE  IsList(list)
<1>1. Len(list) \in Nat /\ DOMAIN list = 1..Len(list)
  OBVIOUS
<1>2. ASSUME NEW i \in DOMAIN list
      PROVE  /\ list[i].hostname \in Nat /\ list[i].port \in Nat /\ list[i].weight \in Nat
             /\ list[i].type \in {"TCP", "UNIX_SOCKET"}
  <2>1. list[i] \in Server
    OBVIOUS
  <2>2. QED
    BY <2>1, Zenon DEF Server
<1>3. QED
  BY <1>1, <1>2, Zenon DEF IsList

(* The entries of memcached_server_list_append_with_weight are servers.    *)
LEMMA AppendedList ==
    ASSUME NEW list \in Seq(Server)
    PROVE  IsList([i \in DOMAIN list |-> memcached_server_list_append_with_weight(list[i])])
<1> DEFINE a == [i \in DOMAIN list |-> memcached_server_list_append_with_weight(list[i])]
<1>1. Len(list) \in Nat /\ DOMAIN list = 1..Len(list)
  OBVIOUS
<1>2. DOMAIN a = 1..Len(list)
  BY <1>1, Zenon
<1>3. ASSUME NEW i \in DOMAIN list
      PROVE  /\ a[i].hostname \in Nat /\ a[i].port \in Nat /\ a[i].weight \in Nat
             /\ a[i].type \in {"TCP", "UNIX_SOCKET"}
  <2> DEFINE s == list[i]
  <2>1. s \in Server
    OBVIOUS
  <2>2. a[i] = memcached_server_list_append_with_weight(s)
    BY Zenon
  <2> HIDE DEF a, s
  <2>3. s.hostname \in Nat /\ s.port \in Nat /\ s.weight \in Nat
    BY <2>1, Zenon DEF Server
  <2>4. QED
    BY <2>2, <2>3, ContinuumAssumption DEF memcached_server_list_append_with_weight
<1> HIDE DEF a
<1>4. Len(a) = Len(list)
  BY <1>1, <1>2
<1>5. IsList(a)
  BY <1>1, <1>2, <1>3, <1>4, Zenon DEF IsList
<1>6. QED
  BY <1>5, Zenon DEF a

(* memcached_server_push is never refused.                                 *)
LEMMA ServerPushSound ==
    ASSUME NEW m, HandleInv(m), NEW list, IsList(list)
    PROVE  IsSound(m, memcached_server_push(m, list)) /\ memcached_server_push(m, list).rc = "SUCCESS"
<1>1. HandleInv(memcached_instance_push(m, list))
  BY InstancePush, ListsSort, Zenon
<1>2. QED
  BY <1>1 DEF memcached_server_push, IsSound, Ok

(* memcached_server_push.                                                  *)
LEMMA ServerPushInv ==
    ASSUME Inv, ServerPush
    PROVE  Inv' /\ RefusedStep
<1> DEFINE appended(c) == [i \in DOMAIN c.list |->
                             memcached_server_list_append_with_weight(c.list[i])]
<1>1. PICK c \in Calls("server_push") :
         Make(c, memcached_server_push(memc, appended(c))) /\ UNCHANGED clone
  BY Zenon DEF ServerPush
<1> DEFINE r == memcached_server_push(memc, appended(c))
<1>2. c \in Call /\ c.op = "server_push"
  BY CallsOf, Zenon DEF Inv
<1>3. c.list \in Seq(Server)
  BY <1>2, CallArguments
<1>4. IsList(appended(c))
  BY <1>3, AppendedList, Zenon
<1> HIDE DEF appended
<1>5. IsSound(memc, r)
  BY <1>4, ServerPushSound, Zenon DEF Inv
<1> HIDE DEF r
<1>6. Honoured(c, r)
  BY <1>2, <1>5, SoundIsHonoured
<1>7. QED
  BY <1>1, <1>6, MakeInv, Zenon DEF r

(* memcached_servers_reset.                                                *)
LEMMA ServersResetCallInv ==
    ASSUME Inv, ServersReset
    PROVE  Inv' /\ RefusedStep
<1>1. PICK c \in Calls("servers_reset") :
         Make(c, Ok(memcached_servers_reset(memc))) /\ UNCHANGED clone
  BY Zenon DEF ServersReset
<1> DEFINE r == Ok(memcached_servers_reset(memc))
<1>2. c.op = "servers_reset"
  BY CallsOf, Zenon DEF Inv
<1>3. IsSound(memc, r)
  BY ServersResetInv, OkIsSound, Zenon DEF Inv
<1> HIDE DEF r
<1>4. Honoured(c, r)
  BY <1>2, <1>3, SoundIsHonoured
<1>5. QED
  BY <1>1, <1>4, MakeInv, Zenon DEF r

(* memcached_bucket_set.                                                   *)
LEMMA BucketSetInv ==
    ASSUME Inv, BucketSet
    PROVE  Inv' /\ RefusedStep
<1>1. PICK c \in Calls("bucket_set") :
         Make(c, memcached_bucket_set(memc, c.host_map)) /\ UNCHANGED clone
  BY Zenon DEF BucketSet
<1> DEFINE r == memcached_bucket_set(memc, c.host_map)
<1>2. c.op = "bucket_set"
  BY CallsOf, Zenon DEF Inv
<1>3. HandleInv(memc)
  BY Zenon DEF Inv
<1>4. HandleInv(r.m)
  BY <1>3, BucketInv, ListsSort, Zenon
<1>5. ASSUME r.rc # "SUCCESS", ~Exempt(c)
      PROVE  r.m = memc
  <2>1. memc.weighted \in BOOLEAN
    BY <1>3, Zenon DEF HandleInv, IsHandle
  <2>2. memcached_is_consistent_distribution(memc) => ~memc.weighted /\ UpToDate(memc)
    BY <1>2, <1>5, Zenon DEF Exempt
  <2>3. QED
    BY <1>3, <1>5, <2>2, BucketRefused, ListsSort, Zenon
<1> HIDE DEF r
<1>6. Honoured(c, r)
  BY <1>2, <1>4, <1>5 DEF Honoured
<1>7. QED
  BY <1>1, <1>6, MakeInv, Zenon DEF r

(* memcached_reset.                                                        *)
LEMMA ResetInv ==
    ASSUME Inv, Reset
    PROVE  Inv' /\ RefusedStep
<1>1. PICK c \in Calls("reset") : Make(c, Ok(memcached_reset(memc))) /\ UNCHANGED clone
  BY Zenon DEF Reset
<1> DEFINE r == Ok(memcached_reset(memc))
<1>2. c.op = "reset"
  BY CallsOf, Zenon DEF Inv
<1>3. IsSound(memc, r)
  BY CreateInv, OkIsSound, Zenon DEF memcached_reset
<1> HIDE DEF r
<1>4. Honoured(c, r)
  BY <1>2, <1>3, SoundIsHonoured
<1>5. QED
  BY <1>1, <1>4, MakeInv, Zenon DEF r

(* memcached_quit.                                                         *)
LEMMA QuitCallInv ==
    ASSUME Inv, Quit
    PROVE  Inv' /\ RefusedStep
<1> DEFINE r == IF memc.servers = << >> THEN Refused(memc, "NO_SERVERS") ELSE Ok(send_quit(memc))
<1>1. PICK c \in Calls("quit") : Make(c, r) /\ UNCHANGED clone
  BY Zenon DEF Quit
<1>2. c.op = "quit"
  BY CallsOf, Zenon DEF Inv
<1>3. HandleInv(memc)
  BY Zenon DEF Inv
<1>4. HandleInv(send_quit(memc))
  <2>1. IsHandle(memc) /\ FlagsApart(memc)
    BY <1>3, Zenon DEF HandleInv
  <2>2. QED
    BY <1>3, <2>1, QuitInv, Zenon
<1>5. IsSound(memc, Refused(memc, "NO_SERVERS")) /\ IsSound(memc, Ok(send_quit(memc)))
  BY <1>3, <1>4, RefusedIsSound, OkIsSound, Zenon
<1>6. IsSound(memc, r)
  BY <1>5, Zenon
<1> HIDE DEF r
<1>7. Honoured(c, r)
  BY <1>2, <1>6, SoundIsHonoured
<1>8. QED
  BY <1>1, <1>7, MakeInv, Zenon

(* A request.                                                              *)
LEMMA RequestInv ==
    ASSUME Inv, Request
    PROVE  Inv' /\ RefusedStep
<1>1. PICK c \in Calls("request"), i \in DOMAIN memc.servers :
         Make(c, Ok(memcached_connect(memc, i))) /\ UNCHANGED clone
  BY Zenon DEF Request
<1> DEFINE r == Ok(memcached_connect(memc, i))
<1>2. c.op = "request"
  BY CallsOf, Zenon DEF Inv
<1>3. IsSound(memc, r)
  BY ConnectInv, OkIsSound, Zenon DEF Inv
<1> HIDE DEF r
<1>4. Honoured(c, r)
  BY <1>2, <1>3, SoundIsHonoured
<1>5. QED
  BY <1>1, <1>4, MakeInv, Zenon DEF r

(* memcached_behavior_get of a buffer size.                                *)
LEMMA BufferSizeGetInv ==
    ASSUME Inv, BufferSizeGet
    PROVE  Inv' /\ RefusedStep
<1> DEFINE result(c, success) ==
             IF memc.numbers[c.behavior] = -1 /\ memc.servers # << >> /\ success
             THEN memcached_connect(memc, 1) ELSE memc
<1>1. PICK c \in Calls("buffer_size"), success \in BOOLEAN :
         Make(c, Ok(result(c, success))) /\ UNCHANGED clone
  BY Zenon DEF BufferSizeGet
<1> DEFINE n == result(c, success)
<1>2. c.op = "buffer_size"
  BY CallsOf, Zenon DEF Inv
<1>3. HandleInv(memc)
  BY Zenon DEF Inv
<1>4. memc.servers # << >> => HandleInv(memcached_connect(memc, 1))
  <2>1. memc.servers \in Seq(Instance)
    BY <1>3, Zenon DEF HandleInv, IsHandle
  <2>2. memc.servers # << >> => 1 \in DOMAIN memc.servers
    BY <2>1
  <2>3. QED
    BY <1>3, <2>2, ConnectInv, Zenon
<1>5. HandleInv(n)
  BY <1>3, <1>4, Zenon
<1>6. Make(c, Ok(n)) /\ UNCHANGED clone
  BY <1>1, Zenon
<1> HIDE DEF n, result
<1>7. IsSound(memc, Ok(n))
  BY <1>5, OkIsSound, Zenon
<1>8. Honoured(c, Ok(n))
  BY <1>2, <1>7, SoundIsHonoured
<1>9. QED
  BY <1>6, <1>8, MakeInv, Zenon

(* A server that fails, and the time of its retry.                         *)
LEMMA RetryCallInv ==
    ASSUME Inv, Retry
    PROVE  Inv' /\ RefusedStep
<1>1. PICK c \in Calls("retry"), i \in DOMAIN memc.servers :
         Make(c, Ok(Retried(memc, i))) /\ UNCHANGED clone
  BY Zenon DEF Retry, Retried
<1> DEFINE r == Ok(Retried(memc, i))
<1>2. c.op = "retry"
  BY CallsOf, Zenon DEF Inv
<1>3. IsSound(memc, r)
  BY RetryInv, OkIsSound, Zenon DEF Inv
<1> HIDE DEF r
<1>4. Honoured(c, r)
  BY <1>2, <1>3, SoundIsHonoured
<1>5. QED
  BY <1>1, <1>4, MakeInv, Zenon DEF r

(* The parser in the next state.                                           *)
LEMMA IsParsePrimed ==
    ASSUME NEW p, IsParse(p), parse' = p
    PROVE  ParseInv'
BY Zenon DEF ParseInv, IsParse

(* The parser does nothing.                                                *)
LEMMA ParseUnchanged ==
    ASSUME ParseInv, parse' = parse
    PROVE  ParseInv'
BY Zenon DEF ParseInv, IsParse, Idle

(* memcached_clone.                                                        *)
LEMMA CloneCallInv ==
    ASSUME Inv, Clone
    PROVE  Inv' /\ RefusedStep
<1>1. PICK c \in Calls("clone") : Make(c, Ok(memc)) /\ clone' = memcached_clone(memc)
  BY Zenon DEF Clone
<1>2. c.op = "clone"
  BY CallsOf, Zenon DEF Inv
<1>3. /\ memc' = Ok(memc).m /\ program' = program /\ parse' = parse
      /\ last' = [op |-> c.op, call |-> c, rc |-> Ok(memc).rc]
  BY <1>1, Zenon DEF Make, Return
<1>4. memc' = memc /\ last'.op = "clone"
  BY <1>2, <1>3 DEF Ok
<1>5. HandleInv(memc) /\ program \in Programs /\ ParseInv
  BY Zenon DEF Inv
<1>6. HandleInv(memc)'
  BY <1>4, <1>5, Zenon DEF HandleInv, IsHandle, FlagsApart, Current, WeightsUsed, HostsSorted,
                           NeverFailed, Rebuilt, memcached_is_consistent_distribution
<1>7. FlagsApart(clone)'
  <2>1. FlagsApart(memcached_clone(memc))
    BY <1>5, CloneFlags, ListsSort, Zenon
  <2> DEFINE n == memcached_clone(memc)
  <2> HIDE DEF n
  <2>2. FlagsApart(n) /\ clone' = n
    BY <1>1, <2>1, Zenon DEF n
  <2>3. QED
    BY <2>2, Zenon DEF FlagsApart
<1>8. ParseInv'
  BY <1>3, <1>5, ParseUnchanged, Zenon
<1>9. (last.op = "clone" => clone = memcached_clone(memc))'
  BY <1>1, <1>4, Zenon
<1>10. ReadsBack'
  BY <1>4 DEF ReadsBack
<1>11. Inv'
  BY <1>3, <1>5, <1>6, <1>7, <1>8, <1>9, <1>10, Zenon DEF Inv
<1>12. QED
  BY <1>4, <1>11, Zenon DEF RefusedStep

(* A step that leaves all but the parser alone.                            *)
LEMMA QuietStep ==
    ASSUME Inv, UNCHANGED << program, memc, clone, last >>, ParseInv'
    PROVE  Inv' /\ RefusedStep
<1>1. program' = program /\ memc' = memc /\ clone' = clone /\ last' = last
  OBVIOUS
<1>2. HandleInv(memc)'
  BY <1>1, Zenon DEF Inv, HandleInv, IsHandle, FlagsApart, Current, WeightsUsed, HostsSorted,
                     NeverFailed, Rebuilt, memcached_is_consistent_distribution
<1>3. ReadsBack'
  BY <1>1, Zenon DEF Inv, ReadsBack
<1>4. (clone = Nobody \/ FlagsApart(clone))'
  BY <1>1, Zenon DEF Inv, FlagsApart
<1>5. (last.op = "clone" => clone = memcached_clone(memc))'
  BY <1>1, Zenon DEF Inv
<1>6. QED
  BY <1>1, <1>2, <1>3, <1>4, <1>5, Zenon DEF Inv, RefusedStep

(* memcached_parse_configuration or memcached() begins.                    *)
LEMMA ConfigureInv ==
    ASSUME Inv, Configure
    PROVE  Inv' /\ RefusedStep
<1> DEFINE m(c) == IF c.op = "parse" THEN memc ELSE memcached_create
<1>1. /\ UNCHANGED << program, memc, clone, last >>
      /\ \E c \in Calls("parse") \cup Calls("memcached") : memcached_parse_configuration(c, m(c))
  BY Zenon DEF Configure
<1>2. PICK c \in Calls("parse") \cup Calls("memcached") : memcached_parse_configuration(c, m(c))
  BY <1>1, Zenon
<1> DEFINE h == m(c)
           e == << Frame(c.string, << >>) >>
           p == [status |-> "open", call |-> c, m |-> h, frames |-> e]
<1>3. c \in Call /\ c.op \in {"parse", "memcached"}
  <2>1. CASE c \in Calls("parse")
    BY <2>1, CallsOf, Zenon DEF Inv
  <2>2. CASE c \in Calls("memcached")
    BY <2>2, CallsOf, Zenon DEF Inv
  <2>3. QED
    BY <2>1, <2>2, Zenon
<1>4. c.string \in Seq(Statement) /\ "op" \in DOMAIN c
  BY <1>3, CallArguments
<1>5. HandleInv(h)
  <2>1. HandleInv(memc)
    BY Zenon DEF Inv
  <2>2. QED
    BY <2>1, CreateInv, Zenon
<1>6. e \in Seq(Frames) /\ e # << >>
  <2> DEFINE g == Frame(c.string, << >>)
  <2>1. << >> \in Seq(Seq(Statement))
    OBVIOUS
  <2>2. g \in Frames
    BY <1>4, <2>1, Zenon DEF Frame, Frames
  <2> HIDE DEF g
  <2>3. << g >> \in Seq(Frames) /\ << g >> # << >>
    BY <2>2
  <2>4. QED
    BY <2>3, Zenon DEF g
<1>7. parse' = p
  BY <1>2, Zenon DEF memcached_parse_configuration
<1> HIDE DEF h, e, m
<1>8. /\ p = [f \in {"status", "call", "m", "frames"} |-> p[f]]
      /\ p.status = "open" /\ p.call = c /\ p.m = h /\ p.frames = e
  OBVIOUS
<1> HIDE DEF p
<1>9. IsParse(p)
  BY <1>3, <1>4, <1>5, <1>6, <1>8, Zenon DEF IsParse
<1>10. ParseInv'
  BY <1>7, <1>9, IsParsePrimed, Zenon
<1>11. QED
  BY <1>1, <1>10, QuietStep, Zenon

(* The program gets the configured handle back, or NULL.                   *)
LEMMA ConfiguredInv ==
    ASSUME Inv, Configured
    PROVE  Inv' /\ RefusedStep
<1> DEFINE c == parse.call
           r == Parsed(memc)
<1>1. /\ parse.status \in {"SUCCESS", "PARSE_ERROR"} /\ Return(c, r)
      /\ parse' = Idle /\ UNCHANGED clone
  BY Zenon DEF Configured
<1>2. HandleInv(memc) /\ ParseInv
  BY Zenon DEF Inv
<1>3. IsParse(parse)
  BY <1>1, <1>2 DEF ParseInv, Idle
<1>4. c.op \in {"parse", "memcached", "memcached_file"} /\ HandleInv(parse.m)
  BY <1>3, Zenon DEF IsParse
<1>5. Honoured(c, r)
  <2>1. CASE c.op = "parse" \/ parse.status = "SUCCESS"
    <3>1. r = [m |-> parse.m, rc |-> parse.status]
      BY <2>1, Zenon DEF Parsed
    <3> HIDE DEF r, c
    <3>2. r.m = parse.m /\ r.rc = parse.status
      BY <3>1, Zenon
    <3>3. Exempt(c) \/ r.rc = "SUCCESS"
      BY <2>1, <3>2, Zenon DEF Exempt
    <3>4. c.op \notin {"clone", "behavior_set"}
      BY <1>4
    <3>5. QED
      BY <1>4, <3>2, <3>3, <3>4, Zenon DEF Honoured
  <2>2. CASE ~(c.op = "parse" \/ parse.status = "SUCCESS")
    <3>1. r = Refused(memc, "NULL")
      BY <2>2, Zenon DEF Parsed
    <3> HIDE DEF r, c
    <3>2. IsSound(memc, r)
      BY <1>2, <3>1, RefusedIsSound, Zenon
    <3>3. c.op \notin {"clone", "behavior_set"}
      BY <1>4
    <3>4. QED
      BY <3>2, <3>3, SoundIsHonoured, Zenon
  <2>3. QED
    BY <2>1, <2>2, Zenon
<1>6. ParseInv'
  BY <1>1, Zenon DEF ParseInv, Idle
<1> HIDE DEF c, r
<1>7. QED
  BY <1>1, <1>5, <1>6, ReturnInv, Zenon

-----------------------------------------------------------------------------
(* Theorems.                                                               *)

(* A program begins with a sound handle.                                   *)
LEMMA InitInv == Init => Inv
<1> SUFFICES ASSUME Init PROVE Inv
  OBVIOUS
<1>1. /\ program \in Programs /\ clone = Nobody /\ parse = Idle
      /\ memc = memcached_server_push(memcached_create, program.servers).m
      /\ last = [op |-> "create", call |-> [op |-> "create"], rc |-> "SUCCESS"]
  BY Zenon DEF Init
<1>2. program.servers \in Seq(Server)
  <2>1. program \in [servers : Seq(Server), calls : SUBSET Call, max : Nat]
    BY <1>1, ProgramsAssumption, Zenon
  <2>2. QED
    BY <2>1, Zenon
<1>3. HandleInv(memc)
  <2>1. IsList(program.servers)
    BY <1>2, ListOfServers, Zenon
  <2>2. IsSound(memcached_create, memcached_server_push(memcached_create, program.servers))
    BY <2>1, CreateInv, ServerPushSound, Zenon
  <2>3. QED
    BY <1>1, <2>2, Zenon DEF IsSound
<1>4. last.op = "create"
  BY <1>1
<1>5. ReadsBack
  BY <1>4 DEF ReadsBack
<1>6. last.op = "clone" => clone = memcached_clone(memc)
  BY <1>4
<1>7. QED
  BY <1>1, <1>3, <1>5, <1>6, Zenon DEF Inv, ParseInv

(* Every step keeps the invariant, and a refused call changes nothing.     *)
LEMMA StepInv ==
    ASSUME Inv, [Next]_vars
    PROVE  Inv' /\ (Next => RefusedStep)
<1>1. CASE BehaviorSet
  BY <1>1, BehaviorSetInv, Zenon
<1>2. CASE CallbackSet
  BY <1>2, CallbackSetInv, Zenon
<1>3. CASE SetNamespace
  BY <1>3, SetNamespaceInv, Zenon
<1>4. CASE ServerAdd
  BY <1>4, ServerAddCallInv, Zenon
<1>5. CASE ServerPush
  BY <1>5, ServerPushInv, Zenon
<1>6. CASE ServersReset
  BY <1>6, ServersResetCallInv, Zenon
<1>7. CASE BucketSet
  BY <1>7, BucketSetInv, Zenon
<1>8. CASE Reset
  BY <1>8, ResetInv, Zenon
<1>9. CASE Clone
  BY <1>9, CloneCallInv, Zenon
<1>10. CASE Quit
  BY <1>10, QuitCallInv, Zenon
<1>11. CASE Request
  BY <1>11, RequestInv, Zenon
<1>12. CASE BufferSizeGet
  BY <1>12, BufferSizeGetInv, Zenon
<1>13. CASE Retry
  BY <1>13, RetryCallInv, Zenon
<1>14. CASE Configure
  BY <1>14, ConfigureInv, Zenon
<1>15. CASE ParseStep
  <2>1. Parse /\ UNCHANGED << program, memc, clone, last >>
    BY <1>15 DEF ParseStep
  <2>2. IsParse(parse')
    BY <2>1, ParseStepInv, ListsSort, Zenon DEF Inv
  <2>3. ParseInv'
    BY <2>2, Zenon DEF ParseInv, IsParse
  <2>4. QED
    BY <2>1, <2>3, QuietStep, Zenon
<1>16. CASE Configured
  BY <1>16, ConfiguredInv, Zenon
<1>17. CASE UNCHANGED vars
  <2>1. UNCHANGED << program, memc, clone, last >> /\ parse' = parse
    BY <1>17 DEF vars
  <2>2. ParseInv'
    BY <2>1, ParseUnchanged, Zenon DEF Inv
  <2>3. QED
    BY <2>1, <2>2, QuietStep, Zenon
<1>18. QED
  BY <1>1, <1>2, <1>3, <1>4, <1>5, <1>6, <1>7, <1>8, <1>9, <1>10, <1>11, <1>12, <1>13, <1>14,
     <1>15, <1>16, <1>17, Zenon DEF Next

(* Inv is an inductive invariant of the programs.                          *)
THEOREM HandleSound == Spec => []Inv
<1>1. Inv /\ [Next]_vars => Inv'
  BY StepInv, Zenon
<1>2. QED
  BY InitInv, <1>1, PTL DEF Spec

(* However a program changes the behaviours, the servers and the           *)
(* distribution of its handle, no connection in use was opened with other  *)
(* settings than the ones in force: memcached_behavior_set closes them.    *)
THEOREM ConnectionsStayCurrent == Spec => []ConnectionsCurrent
<1>1. Inv => ConnectionsCurrent
  BY Zenon DEF Inv, HandleInv, Current, ConnectionsCurrent
<1>2. QED
  BY <1>1, HandleSound, PTL

(* Flags that exclude each other are never set together, in the handle of  *)
(* the program and in its last clone: what SetUdp and SetBinary clear,     *)
(* the other cases of memcached_behavior_set refuse to set, and            *)
(* memcached_clone copies the flags as they are.                           *)
THEOREM FlagsNeverClash == Spec => []FlagsAgree
<1>1. Inv => FlagsAgree
  <2> SUFFICES ASSUME Inv,
                      NEW m \in {memc} \cup (IF clone = Nobody THEN {} ELSE {clone})
               PROVE  FlagsApart(m)
    BY Zenon DEF FlagsAgree, FlagsApart
  <2>1. FlagsApart(memc) /\ (clone = Nobody \/ FlagsApart(clone))
    BY Zenon DEF Inv, HandleInv
  <2>2. m = memc \/ (clone # Nobody /\ m = clone)
    OBVIOUS
  <2>3. QED
    BY <2>1, <2>2, Zenon
<1>2. QED
  BY <1>1, HandleSound, PTL

(* What memcached_behavior_set has set, memcached_behavior_get reads back, *)
(* for every behaviour and every value that fits in its field.             *)
THEOREM SettingsReadBack == Spec => []ReadsBack
<1>1. Inv => ReadsBack
  BY Zenon DEF Inv
<1>2. QED
  BY <1>1, HandleSound, PTL

(* memcached_clone builds a handle that sends every key where its source   *)
(* sends it, although it sorts the hosts and builds the continuum anew:    *)
(* both give what the source has.                                          *)
THEOREM ClonesDispatchAlike == Spec => []CloneCopies
<1>1. Inv => CloneCopies
  <2> SUFFICES ASSUME Inv, last.op = "clone", memc.virtual_bucket = << >>,
                      memcached_is_consistent_distribution(memc) =>
                         /\ UpToDate(memc)
                         /\ memc.weighted =
                               (\E i \in DOMAIN memc.servers : memc.servers[i].weight > 1),
                      NEW key \in Keys
               PROVE  memcached_server_by_key(clone, key) = memcached_server_by_key(memc, key)
    BY Zenon DEF CloneCopies
  <2>1. clone = memcached_clone(memc) /\ HandleInv(memc)
    BY Zenon DEF Inv
  <2>2. SameDispatch(memc, memcached_clone(memc))
    BY <2>1, CloneDispatch, ListsSort, Zenon
  <2>3. QED
    BY <2>1, <2>2, SameServer, Zenon
<1>2. QED
  BY <1>1, HandleSound, PTL

(* A call of the library that is refused leaves the handle as it was, but  *)
(* for the three that Exempt names: every case of memcached_behavior_set,  *)
(* of memcached_callback_set and of memcached_bucket_set looks at its      *)
(* arguments before it assigns, and memcached() frees what it could not    *)
(* configure.                                                              *)
THEOREM RefusalsChangeNothing == Spec => RefusedChangesNothing
<1> DEFINE Step == last'.rc # "SUCCESS" /\ ~Exempt(last'.call) => memc' = memc
<1>1. Inv /\ [Next]_vars => [Step]_vars
  BY StepInv, Zenon DEF RefusedStep
<1>2. QED
  BY <1>1, HandleSound, PTL DEF Spec, RefusedChangesNothing
=============================================================================
