---------------------------- MODULE StoreProofs -----------------------------
(***************************************************************************)
(* The stores of the example server stay in order: StoresOK, for any       *)
(* clients, keys, values and any number of commands.                       *)
(***************************************************************************)
EXTENDS Interfaces, SequenceTheorems, TLAPS

(* A store is a record with a sequence and a counter.                      *)
Items(q) == {q[i] : i \in DOMAIN q}
StoreInv(s) ==
    /\ s = [list |-> s.list, cas |-> s.cas]
    /\ s.list \in Seq(Items(s.list))
    /\ s.cas \in Nat
    /\ StoreOK(s)

(* A sequence is a sequence of its items.                                  *)
LEMMA SeqOfItems ==
    ASSUME NEW T, NEW q \in Seq(T)
    PROVE  q \in Seq(Items(q))
BY DEF Items

(* get_item finds the only item with the key, or nothing.                  *)
LEMMA GetItem ==
    ASSUME NEW s, StoreInv(s), NEW key
    PROVE  /\ get_item(s, key) \in 0 .. Len(s.list)
           /\ get_item(s, key) # 0 => s.list[get_item(s, key)].key = key
           /\ get_item(s, key) = 0 =>
                 \A i \in DOMAIN s.list : s.list[i].key # key
<1> DEFINE found == {i \in DOMAIN s.list : s.list[i].key = key}
<1>1. DOMAIN s.list = 1 .. Len(s.list) /\ Len(s.list) \in Nat BY DEF StoreInv
<1>2. CASE found = {} BY <1>1, <1>2 DEF get_item
<1>3. CASE found # {}
  <2>1. \A i, j \in found : i = j BY DEF StoreInv, StoreOK
  <2>2. \E i \in found : \A j \in found : i <= j BY <1>1, <1>3, <2>1
  <2>3. get_item(s, key) = CHOOSE i \in found : \A j \in found : i <= j
    BY <1>3 DEF get_item
  <2>4. get_item(s, key) \in found BY <2>2, <2>3
  <2> QED BY <1>1, <2>4
<1> QED BY <1>2, <1>3

(* delete_item takes the key out of the list.                              *)
LEMMA DeleteItem ==
    ASSUME NEW s, StoreInv(s), NEW key
    PROVE  /\ StoreInv(delete_item(s, key))
           /\ delete_item(s, key).cas = s.cas
           /\ \A i \in DOMAIN delete_item(s, key).list :
                 delete_item(s, key).list[i].key # key
<1> DEFINE i == get_item(s, key)
           n == Len(s.list)
           a == SubSeq(s.list, i + 1, n)
           b == SubSeq(s.list, 1, i - 1)
           t == delete_item(s, key)
<1>1. DOMAIN s.list = 1 .. n /\ n \in Nat BY DEF StoreInv
<1>2. CASE i = 0 BY <1>2, GetItem DEF delete_item
<1>3. CASE i # 0
  <2>1. i \in 1 .. n /\ s.list[i].key = key BY <1>1, <1>3, GetItem
  <2>2. t = [list |-> a \o b, cas |-> s.cas] BY <1>3 DEF delete_item, StoreInv
  <2>3. a \in Seq(Items(s.list)) /\ Len(a) = n - i
        /\ \A j \in 1 .. Len(a) : a[j] = s.list[i + j]
    BY <1>1, <2>1 DEF StoreInv
  <2>4. b \in Seq(Items(s.list)) /\ Len(b) = i - 1
        /\ \A j \in 1 .. Len(b) : b[j] = s.list[j]
    BY <1>1, <2>1 DEF StoreInv
  <2> HIDE DEF a, b, i, n
  <2> DEFINE q == a \o b
             old(j) == IF j <= n - i THEN i + j ELSE j - (n - i)
  <2> HIDE DEF q
  <2>0. /\ q \in Seq(Items(s.list))
        /\ Len(q) = Len(a) + Len(b)
        /\ \A j \in 1 .. Len(a) + Len(b) :
              q[j] = IF j <= Len(a) THEN a[j] ELSE b[j - Len(a)]
    BY <2>3, <2>4, ConcatProperties DEF q
  <2>5. q \in Seq(Items(s.list)) /\ Len(q) = n - 1
    BY <1>1, <2>1, <2>3, <2>4, <2>0
  <2>6. DOMAIN q = 1 .. (n - 1) BY <1>1, <2>1, <2>5
  <2>7. \A j \in 1 .. (n - 1) :
           old(j) \in (1 .. n) \ {i} /\ q[j] = s.list[old(j)]
    BY <1>1, <2>1, <2>3, <2>4, <2>0
  <2>8. \A j, k \in 1 .. (n - 1) : j # k => old(j) # old(k) BY <1>1, <2>1
  <2>9. q \in Seq(Items(q)) BY <2>5, SeqOfItems
  <2> HIDE DEF old
  <2>10. t.list = q /\ t.cas = s.cas BY <2>2 DEF q
  <2> HIDE DEF t
  <2>11. StoreOK(t)
    <3>1. \A j \in DOMAIN q : q[j].cas \in 1 .. s.cas
      BY <1>1, <2>6, <2>7 DEF StoreInv, StoreOK
    <3>2. ASSUME NEW j \in DOMAIN q, NEW k \in DOMAIN q, j # k
          PROVE  q[j].key # q[k].key /\ q[j].cas # q[k].cas
      <4>1. old(j) # old(k) /\ old(j) \in 1 .. n /\ old(k) \in 1 .. n
        BY <2>6, <2>7, <2>8, <3>2
      <4>2. q[j] = s.list[old(j)] /\ q[k] = s.list[old(k)]
        BY <2>6, <2>7
      <4> QED BY <1>1, <4>1, <4>2 DEF StoreInv, StoreOK
    <3> QED BY <2>10, <3>1, <3>2 DEF StoreOK
  <2>12. \A j \in DOMAIN q : q[j].key # key
    BY <1>1, <2>1, <2>6, <2>7 DEF StoreInv, StoreOK
  <2> QED BY <2>2, <2>9, <2>10, <2>11, <2>12 DEF StoreInv, q, t
<1> QED BY <1>2, <1>3

(* put_item of a key that is not in the list.                              *)
LEMMA PutItem ==
    ASSUME NEW s, StoreInv(s), NEW key, NEW data, NEW flags,
           \A i \in DOMAIN s.list : s.list[i].key # key
    PROVE  StoreInv(put_item(s, create_item(key, data, flags)))
<1> DEFINE it == [key |-> key, data |-> data, flags |-> flags, cas |-> s.cas + 1]
           q == << it >> \o s.list
           n == Len(s.list)
           t == put_item(s, create_item(key, data, flags))
           T == Items(s.list) \cup {it}
<1>1. DOMAIN s.list = 1 .. n /\ n \in Nat BY DEF StoreInv
<1>0. [create_item(key, data, flags) EXCEPT !.cas = s.cas + 1] = it
  BY DEF create_item
<1>2. t = [list |-> q, cas |-> s.cas + 1] BY <1>0 DEF put_item
<1>3. << it >> \in Seq(T) /\ Len(<< it >>) = 1 /\ << it >>[1] = it OBVIOUS
<1>4. s.list \in Seq(T) BY SeqMonotonic DEF StoreInv
<1>5. it.key = key /\ it.cas = s.cas + 1 OBVIOUS
<1> HIDE DEF it, T
<1>6. /\ q \in Seq(T)
      /\ Len(q) = 1 + n
      /\ \A j \in 1 .. 1 + n :
            q[j] = IF j <= 1 THEN << it >>[j] ELSE s.list[j - 1]
  BY <1>3, <1>4, ConcatProperties
<1> HIDE DEF q, n, t
<1>7. DOMAIN q = 1 .. 1 + n BY <1>6
<1>8. q[1] = it /\ \A j \in 2 .. 1 + n : j - 1 \in 1 .. n /\ q[j] = s.list[j - 1]
  BY <1>1, <1>3, <1>6
<1>9. q \in Seq(Items(q)) BY <1>6, SeqOfItems
<1>10. t.list = q /\ t.cas = s.cas + 1 /\ s.cas \in Nat BY <1>2 DEF StoreInv
<1>11. \A j \in DOMAIN q : q[j].cas \in 1 .. t.cas
  <2> TAKE j \in DOMAIN q
  <2>1. CASE j = 1 BY <1>5, <1>8, <1>10, <2>1
  <2>2. CASE j # 1 BY <1>1, <1>7, <1>8, <1>10, <2>2 DEF StoreInv, StoreOK
  <2> QED BY <2>1, <2>2
<1>12. ASSUME NEW j \in DOMAIN q, NEW k \in DOMAIN q, j # k
       PROVE  q[j].key # q[k].key /\ q[j].cas # q[k].cas
  <2>1. ASSUME NEW m \in 2 .. 1 + n
        PROVE  q[m].key # it.key /\ q[m].cas # it.cas
    <3>1. m - 1 \in DOMAIN s.list /\ q[m] = s.list[m - 1] BY <1>1, <1>8
    <3>2. q[m].cas \in 1 .. s.cas BY <3>1 DEF StoreInv, StoreOK
    <3> QED BY <1>5, <1>10, <3>1, <3>2
  <2>2. CASE j = 1 BY <1>1, <1>7, <1>8, <1>12, <2>1, <2>2
  <2>3. CASE k = 1 BY <1>1, <1>7, <1>8, <1>12, <2>1, <2>3
  <2>4. CASE j # 1 /\ k # 1
    <3>1. j - 1 \in DOMAIN s.list /\ k - 1 \in DOMAIN s.list /\ j - 1 # k - 1
      BY <1>1, <1>7, <1>12, <2>4
    <3>2. q[j] = s.list[j - 1] /\ q[k] = s.list[k - 1]
      BY <1>1, <1>7, <1>8, <2>4
    <3> QED BY <3>1, <3>2 DEF StoreInv, StoreOK
  <2> QED BY <2>2, <2>3, <2>4
<1>13. StoreOK(t) BY <1>10, <1>11, <1>12 DEF StoreOK
<1> QED BY <1>2, <1>9, <1>10, <1>13 DEF StoreInv, t

(* What the handlers do with the store: delete and put, or flush.          *)
LEMMA Replaced ==
    ASSUME NEW s, StoreInv(s), NEW key, NEW data, NEW flags
    PROVE  StoreInv(put_item(delete_item(s, key), create_item(key, data, flags)))
BY DeleteItem, PutItem

LEMMA Flushed ==
    ASSUME NEW s, StoreInv(s)
    PROVE  StoreInv(flush(s))
<1> DEFINE t == flush(s)
<1>1. t = [list |-> << >>, cas |-> s.cas] BY DEF flush, StoreInv
<1>2. t.list = << >> /\ t.cas = s.cas BY <1>1
<1>3. << >> \in Seq(Items(<< >>)) OBVIOUS
<1>4. DOMAIN t.list = {} BY <1>2
<1>5. StoreOK(t) BY <1>4 DEF StoreOK
<1> QED BY <1>1, <1>2, <1>3, <1>5 DEF StoreInv

(* A reply leaves the store alone.                                         *)
LEMMA ReplyStore ==
    ASSUME NEW st, NEW req
    PROVE  /\ \A out, rval : Result(st, out, rval).st = st
           /\ \A out, r : raw_response(st, out, r).st = st
           /\ \A cas, body : Positive(st, req, cas, body).st = st
           /\ \A cas, body, x :
                 [Positive(st, req, cas, body) EXCEPT !.rval = x].st = st
           /\ \A status : Negative(st, req, status).st = st
<1>1. \A out, rval : Result(st, out, rval).st = st BY DEF Result
<1>2. \A out, r : raw_response(st, out, r).st = st
  BY <1>1 DEF raw_response
<1>3. \A cas, body : Positive(st, req, cas, body).st = st
  BY <1>1, <1>2 DEF Positive
<1>4. ASSUME NEW cas, NEW body, NEW x
      PROVE  [Positive(st, req, cas, body) EXCEPT !.rval = x].st = st
  <2>1. \E out, rval : Positive(st, req, cas, body) = Result(st, out, rval)
    BY DEF Positive, raw_response
  <2>2. PICK out, rval : Positive(st, req, cas, body) = Result(st, out, rval)
    BY <2>1
  <2> QED BY <2>2 DEF Result
<1>5. \A status : Negative(st, req, status).st = st BY <1>2 DEF Negative
<1> QED BY <1>1, <1>2, <1>3, <1>4, <1>5

(* The handlers of version 0.                                              *)
LEMMA Version0 ==
    ASSUME NEW st, StoreInv(st), NEW req, NEW env
    PROVE  StoreInv(comcode_v0(st, req, env).st)
<1> USE ReplyStore
<1>0. StoreInv(delete_item(st, req.key)) BY DeleteItem
<1>1. StoreInv(v0_get(st, req).st)
  <2>1. CASE Has(st, req.key)
    <3>1. \E r : v0_get(st, req) = raw_response(st, << >>, r)
      BY <2>1, Zenon DEF v0_get
    <3> QED BY <3>1
  <2>2. CASE ~Has(st, req.key) BY <2>2 DEF v0_get
  <2> QED BY <2>1, <2>2
<1>2. StoreInv(v0_store(st, req, env).st)
  <2>1. StoreInv(Stored(st, req)) BY Replaced DEF Stored
  <2> QED BY <1>0, <2>1 DEF v0_store
<1>3. StoreInv(v0_set(st, req, env).st) BY <1>2 DEF v0_set
<1>4. StoreInv(v0_add(st, req, env).st) BY <1>2 DEF v0_add
<1>5. StoreInv(v0_replace(st, req, env).st) BY <1>2 DEF v0_replace
<1>6. StoreInv(v0_delete(st, req).st) BY DeleteItem DEF v0_delete
<1>7. StoreInv(v0_arithmetic(st, req, env).st)
  <2>1. CASE env.mem
    <3>1. \E data, flags, cas :
             v0_arithmetic(st, req, env)
               = Positive(put_item(delete_item(st, req.key),
                                   create_item(req.key, data, flags)),
                          req, cas, data)
      BY <2>1, Zenon DEF v0_arithmetic
    <3> QED BY <3>1, Replaced
  <2>2. CASE ~env.mem BY <1>0, <2>2 DEF v0_arithmetic
  <2> QED BY <2>1, <2>2
<1>8. StoreInv(v0_concat(st, req, env).st)
  <2> DEFINE it == Item(st, req.key)
             st1 == put_item(delete_item(st, req.key),
                             create_item(req.key, Concat(req, it), it.flags))
  <2>1. StoreInv(st1) BY Replaced
  <2>2. \/ \E rval : v0_concat(st, req, env) = Result(st, << >>, rval)
        \/ v0_concat(st, req, env) = Positive(st1, req, st1.cas, << >>)
    BY Zenon DEF v0_concat
  <2> HIDE DEF st1
  <2> QED BY <2>1, <2>2
<1>9. StoreInv(v0_flush(st, req).st) BY Flushed DEF v0_flush
<1>10. StoreInv(v0_noop(st, req).st) BY DEF v0_noop
<1>11. StoreInv(v0_stat(st, req).st) BY DEF v0_stat
<1>12. StoreInv(v0_version(st, req).st) BY DEF v0_version
<1>13. StoreInv(v0_quit(st, req).st) BY DEF v0_quit
<1>14. StoreInv(Result(st, << >>, "UNKNOWN_COMMAND").st) OBVIOUS
<1> QED
  BY <1>1, <1>3, <1>4, <1>5, <1>6, <1>7, <1>8, <1>9, <1>10, <1>11, <1>12,
     <1>13, <1>14
  DEF comcode_v0

(* The callbacks of version 1.                                             *)
LEMMA Callbacks ==
    ASSUME NEW st, StoreInv(st), NEW req, NEW env
    PROVE  /\ StoreInv(v1_add(st, req, env).st)
           /\ StoreInv(v1_set(st, req, env).st)
           /\ StoreInv(v1_replace(st, req, env).st)
           /\ StoreInv(v1_concat(st, req, env).st)
           /\ StoreInv(v1_arithmetic(st, req, env).st)
           /\ StoreInv(v1_delete(st, req).st)
           /\ StoreInv(v1_flush(st).st)
<1>0. \A s, rval, cas, value : Done(s, rval, cas, value).st = s BY DEF Done
<1>1. \A s, rval : Failed(s, rval).st = s BY <1>0 DEF Failed
<1>2. \A s, value : Put(s, value).st = s BY <1>0 DEF Put
<1>3. StoreInv(v1_store(st, req, env).st)
  BY <1>1, <1>2, Replaced, DeleteItem DEF v1_store, Stored
<1>4. StoreInv(v1_add(st, req, env).st) BY <1>1, <1>3 DEF v1_add
<1>5. StoreInv(v1_set(st, req, env).st) BY <1>1, <1>3 DEF v1_set
<1>6. StoreInv(v1_replace(st, req, env).st) BY <1>1, <1>3 DEF v1_replace
<1>7. StoreInv(v1_concat(st, req, env).st)
  BY <1>1, <1>2, Replaced DEF v1_concat
<1>8. StoreInv(v1_arithmetic(st, req, env).st)
  BY <1>1, <1>2, Replaced, DeleteItem DEF v1_arithmetic
<1>9. StoreInv(v1_delete(st, req).st)
  BY <1>0, <1>1, DeleteItem DEF v1_delete
<1>10. StoreInv(v1_flush(st).st) BY <1>0 DEF v1_flush
<1> QED BY <1>4, <1>5, <1>6, <1>7, <1>8, <1>9, <1>10

(* The binary protocol over the callbacks.                                 *)
LEMMA Version1 ==
    ASSUME NEW st, StoreInv(st), NEW req, NEW env
    PROVE  StoreInv(comcode_v0_v1_remap(st, req, env).st)
<1> USE ReplyStore
<1>0. ASSUME NEW done, NEW body, StoreInv(done.st)
      PROVE  StoreInv(Answer(done, req, body).st)
  BY <1>0 DEF Answer
<1>1. StoreInv(get_command(st, req).st)
  <2>1. \E out, rval : get_command(st, req) = Result(st, out, rval)
    BY Zenon DEF get_command
  <2> QED BY <2>1
<1>2. StoreInv(set_command(st, req, env).st)
  BY <1>0, Callbacks DEF set_command
<1>3. StoreInv(add_command(st, req, env).st)
  BY <1>0, Callbacks DEF add_command
<1>4. StoreInv(replace_command(st, req, env).st)
  BY <1>0, Callbacks DEF replace_command
<1>5. StoreInv(append_command(st, req, env).st)
  BY <1>0, Callbacks DEF append_command, v1_append
<1>6. StoreInv(prepend_command(st, req, env).st)
  BY <1>0, Callbacks DEF prepend_command, v1_prepend
<1>7. StoreInv(delete_command(st, req).st)
  BY <1>0, Callbacks DEF delete_command
<1>8. StoreInv(increment_command(st, req, env).st)
  BY <1>0, Callbacks DEF increment_command, v1_increment
<1>9. StoreInv(decrement_command(st, req, env).st)
  BY <1>0, Callbacks DEF decrement_command, v1_decrement
<1>10. StoreInv(flush_command(st, req).st)
  BY <1>0, Callbacks DEF flush_command
<1>11. StoreInv(noop_command(st, req).st) BY DEF noop_command
<1>12. StoreInv(stat_command(st, req).st) BY DEF stat_command
<1>13. StoreInv(version_command(st, req).st) BY DEF version_command
<1>14. StoreInv(quit_command(st, req).st) BY DEF quit_command
<1>15. StoreInv(Result(st, << >>, "UNKNOWN_COMMAND").st) OBVIOUS
<1> QED
  BY <1>1, <1>2, <1>3, <1>4, <1>5, <1>6, <1>7, <1>8, <1>9, <1>10, <1>11,
     <1>12, <1>13, <1>14, <1>15
  DEF comcode_v0_v1_remap

(* execute_command, for either interface.                                  *)
LEMMA ExecuteCommand ==
    ASSUME NEW iface, NEW st, StoreInv(st), NEW req, NEW env
    PROVE  StoreInv(execute_command(iface, st, req, env).st)
<1> DEFINE r == Handled(iface, st, req, env)
           u == OrUnknown(st, req, r)
<1>1. StoreInv(r.st) BY Version0, Version1 DEF Handled
<1> HIDE DEF r
<1>2. StoreInv(u.st) BY <1>1, ReplyStore DEF OrUnknown, unknown
<1> HIDE DEF u
<1>3. StoreInv(Answered(req, u).st) BY <1>2, ReplyStore DEF Answered
<1> QED BY <1>3 DEF execute_command, u, r

(* A line of the text protocol.                                            *)
LEMMA ProcessLine ==
    ASSUME NEW st, StoreInv(st), NEW line, NEW muted, NEW env
    PROVE  StoreInv(process_line(st, line, muted, env).st)
<1>1. StoreInv(usage(st).st) BY DEF usage, Line
<1>2. StoreInv(ascii_process_gets(st, line, muted).st)
  BY <1>1 DEF ascii_process_gets, Line
<1>3. ASSUME line.cmd \in {"set", "add", "replace", "cas", "append", "prepend"}
      PROVE  StoreInv(StorageCommand(st, line, env).st)
  <2>1. StoreInv(StorageCallback(st, line, env).st)
    <3> DEFINE a == Args(line)
    <3> HIDE DEF a
    <3>1. /\ StoreInv(v1_set(st, a, env).st)
          /\ StoreInv(v1_add(st, a, env).st)
          /\ StoreInv(v1_replace(st, a, env).st)
          /\ StoreInv(v1_append(st, a, env).st)
          /\ StoreInv(v1_prepend(st, a, env).st)
      BY Callbacks DEF v1_append, v1_prepend
    <3> QED BY <1>3, <3>1 DEF StorageCallback, a
  <2>2. StoreInv(process_storage_command(st, line, env).st)
    BY <2>1 DEF process_storage_command, Line
  <2> QED BY <1>1, <2>2 DEF StorageCommand
<1>4. StoreInv(process_delete(st, line).st)
  BY <1>1, Callbacks DEF process_delete, Line
<1>5. StoreInv(process_arithmetic(st, line, env).st)
  <2>1. /\ StoreInv(v1_increment(st, Args(line), env).st)
        /\ StoreInv(v1_decrement(st, Args(line), env).st)
    BY Callbacks DEF v1_increment, v1_decrement
  <2> QED BY <1>1, <2>1 DEF process_arithmetic, Line
<1>6. StoreInv(process_stats(st, line).st) BY <1>1 DEF process_stats, Line
<1>7. StoreInv(process_flush(st, line).st)
  BY <1>1, Callbacks DEF process_flush, Line
<1>8. StoreInv(process_version(st, line).st) BY <1>1 DEF process_version, Line
<1>9. StoreInv(process_quit(st, line).st) BY <1>1 DEF process_quit, Line
<1>10. StoreInv(process_verbosity(st, line).st)
  BY <1>1 DEF process_verbosity, Line
<1> QED
  BY <1>1, <1>2, <1>3, <1>4, <1>5, <1>6, <1>7, <1>8, <1>9, <1>10
  DEF process_line

(* Both stores of module Interfaces.                                       *)
BothStores == StoreInv(left) /\ StoreInv(right)

LEMMA InitStores == Init => BothStores
<1> DEFINE s == [list |-> << >>, cas |-> 0]
<1>1. s.list = << >> /\ s.cas = 0 /\ DOMAIN s.list = {} OBVIOUS
<1>2. << >> \in Seq(Items(<< >>)) OBVIOUS
<1>3. StoreInv(s) BY <1>1, <1>2 DEF StoreInv, StoreOK
<1> QED BY <1>3 DEF Init, EmptyStore, BothStores

LEMMA StepStores == BothStores /\ [Next]_vars => BothStores'
<1> SUFFICES ASSUME BothStores, [Next]_vars PROVE BothStores' OBVIOUS
<1>1. CASE UNCHANGED vars
  BY <1>1 DEF vars, BothStores, StoreInv, StoreOK, Items
<1>2. ASSUME NEW c, NEW req, NEW env, Command(c, req, env)
      PROVE  BothStores'
  <2>1. /\ \E iface : left' = execute_command(iface, left, req, env).st
        /\ right' = Right(req, env).st
    BY <1>2, Zenon DEF Command
  <2>2. StoreInv(left') BY <2>1, ExecuteCommand DEF BothStores
  <2>3. StoreInv(right') BY <2>1, ExecuteCommand, ProcessLine DEF BothStores, Right
  <2> QED BY <2>2, <2>3 DEF BothStores, StoreInv, StoreOK, Items
<1>3. CASE Next BY <1>2, <1>3, Zenon DEF Next
<1> QED BY <1>1, <1>3

(* Whatever commands arrive from however many clients, through the binary  *)
(* protocol over either interface or as lines of text, with or without     *)
(* memory: the lists of storage.cc never hold a key or a CAS value twice   *)
(* and no item's CAS value is ahead of the counter.                        *)
THEOREM InterfacesStoresOK == Spec => []StoresOK
<1>1. BothStores => StoresOK BY DEF BothStores, StoreInv, StoresOK
<1> QED BY <1>1, InitStores, StepStores, PTL DEF Spec
=============================================================================
