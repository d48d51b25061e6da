---------------------------- MODULE Interfaces -----------------------------
(***************************************************************************)
(* Two example servers get the same commands, in the same order, from the  *)
(* same clients.  Depending on pair they are the two versions of the       *)
(* interface behind the binary protocol ("versions"), or the binary and    *)
(* the text protocol in front of version 1 ("protocols").  A client        *)
(* remembers what it last read and may make a command conditional on that  *)
(* CAS value.  last is the last command with the answers of both servers;  *)
(* diverged says that a command has run that the two treat differently.    *)
(***************************************************************************)
EXTENDS LightServer

CONSTANTS Clients, Keys, Values, Flags, Deltas, Raw, MaxCommands

ASSUME InterfacesAssumption ==
    /\ MaxCommands \in Nat
    /\ Flags \subseteq Nat
    /\ Deltas \cup Raw \subseteq 0..(Word - 1)

VARIABLES pair, left, right, mute, seen, last, diverged, commands

vars == << pair, left, right, mute, seen, last, diverged, commands >>

NoRead == [key |-> "", cas |-> 0, data |-> << >>]

Request(op, quiet, key) ==
    [op |-> op, quiet |-> quiet, key |-> key, data |-> << >>, flags |-> 0,
     delta |-> 0, initial |-> 0, cas |-> 0]

NoCommand ==
    [client |-> "none", req |-> Request("NOOP", FALSE, ""),
     left |-> << >>, right |-> << >>]

Init ==
    /\ pair \in {"versions", "protocols"}
    /\ left = EmptyStore
    /\ right = EmptyStore
    /\ mute = FALSE
    /\ seen = [c \in Clients |-> NoRead]
    /\ last = NoCommand
    /\ diverged = FALSE
    /\ commands = 0

(* The replies of a result, in order; a command gives at most two lots.    *)
Replies(out) ==
    IF out = << >> THEN << >>
    ELSE IF Len(out) = 1 THEN out[1].replies
    ELSE out[1].replies \o out[2].replies

(* The line of the text protocol that says what a request says.            *)
TextName(req) ==
    CASE req.op = "GET" -> "gets"
      [] req.op = "SET" -> "set"
      [] req.op = "ADD" -> "add"
      [] req.op = "REPLACE" -> IF req.cas = 0 THEN "replace" ELSE "cas"
      [] req.op = "APPEND" -> "append"
      [] req.op = "PREPEND" -> "prepend"
      [] req.op = "DELETE" -> "delete"
      [] req.op = "INCREMENT" -> "incr"
      [] req.op = "DECREMENT" -> "decr"
      [] req.op = "FLUSH" -> "flush_all"

HasText(req) ==
    /\ req.op \in {"GET", "SET", "ADD", "REPLACE", "APPEND", "PREPEND",
                   "DELETE", "INCREMENT", "DECREMENT", "FLUSH"}
    /\ req.cas # 0 => req.op = "REPLACE"
    /\ req.op = "GET" => ~req.quiet

LineOf(req) ==
    [cmd |-> TextName(req), keys |-> << req.key >>, data |-> req.data,
     flags |-> req.flags, cas |-> req.cas, delta |-> req.delta,
     noreply |-> req.quiet, form |-> "ok"]

(* Version 1 does not flush, and version 0 deletes whatever the CAS value. *)
Differs(req) ==
    /\ pair = "versions"
    /\ \/ req.op = "FLUSH" /\ left.list # << >>
       \/ /\ req.op = "DELETE" /\ req.cas # 0 /\ Has(left, req.key)
          /\ Item(left, req.key).cas # req.cas

(* What a client learns from the reply to a get.                           *)
Learn(c, req, replies) ==
    IF req.op = "GET" /\ Len(replies) = 1 /\ replies[1].status = "SUCCESS"
    THEN [seen EXCEPT ![c] = [key |-> req.key, cas |-> replies[1].cas,
                              data |-> replies[1].body]]
    ELSE seen

(* What the server on the right does: the command again, by version 1 of   *)
(* the interface or as a line of the text protocol.                        *)
Right(req, env) ==
    IF pair = "versions" THEN execute_command(1, right, req, env)
    ELSE process_line(right, LineOf(req), mute, env)

Command(c, req, env) ==
    /\ commands < MaxCommands
    /\ pair = "protocols" => HasText(req)
    /\ \E l \in {execute_command(IF pair = "versions" THEN 0 ELSE 1, left, req, env)},
          r \in {Right(req, env)} :
          /\ left' = l.st
          /\ right' = r.st
          /\ seen' = Learn(c, req, Replies(l.out))
          /\ last' = [client |-> c, req |-> req,
                      left |-> Replies(l.out), right |-> Replies(r.out)]
          /\ mute' = IF pair = "versions" THEN mute ELSE r.mute
    /\ diverged' = (diverged \/ Differs(req))
    /\ commands' = commands + 1
    /\ UNCHANGED pair

(* Unconditional, or conditional on what the client saw of the key.        *)
CasOf(c, key) == {0} \cup (IF seen[c].key = key THEN {seen[c].cas} ELSE {})

Gets == {Request(op, q, k) : op \in {"GET", "GETK"}, q \in BOOLEAN, k \in Keys}

Stores(c) ==
    UNION {{[Request(op, q, k) EXCEPT !.data = << << v >> >>, !.flags = f, !.cas = cas] :
                op \in {"SET", "ADD", "REPLACE"}, q \in BOOLEAN, v \in Values,
                f \in Flags, cas \in CasOf(c, k)} : k \in Keys}

Extends(c) ==
    UNION {{[Request(op, q, k) EXCEPT !.data = << << v >> >>, !.cas = cas] :
                op \in {"APPEND", "PREPEND"}, q \in BOOLEAN, v \in Values,
                cas \in CasOf(c, k)} : k \in Keys}

Calculations ==
    {[Request(op, q, k) EXCEPT !.delta = d] :
        op \in {"INCREMENT", "DECREMENT"}, q \in BOOLEAN, k \in Keys, d \in Deltas}

Deletes(c) ==
    UNION {{[Request("DELETE", q, k) EXCEPT !.cas = cas] : q \in BOOLEAN, cas \in CasOf(c, k)} :
              k \in Keys}

Others == {Request(op, FALSE, "") : op \in {"FLUSH", "NOOP", "STAT", "VERSION", "UNKNOWN"}}

(* Only what puts an item needs memory.                                    *)
Next ==
    \E c \in Clients, mem \in BOOLEAN, raw \in Raw :
        \E req \in Stores(c) \cup Extends(c) \cup Calculations \cup
                   (IF mem THEN Gets \cup Deletes(c) \cup Others ELSE {}) :
            Command(c, req, [mem |-> mem, raw |-> raw])

Spec == Init /\ [][Next]_vars

(***************************************************************************)
(* Properties.                                                             *)
(***************************************************************************)
StoreOK(s) ==
    /\ \A i \in DOMAIN s.list : s.list[i].cas \in 1..s.cas
    /\ \A i, j \in DOMAIN s.list :
           i # j => /\ s.list[i].key # s.list[j].key
                    /\ s.list[i].cas # s.list[j].cas

(* The list of storage.cc never holds a key twice, although put_item does  *)
(* not look for the key, and no two items ever share a CAS value: every    *)
(* handler deletes before it puts, on every path.                          *)
StoresOK == StoreOK(left) /\ StoreOK(right)

(* Version 0 keeps the flags of what it counts, version 1 clears them.     *)
WasCounted(it) == \E i \in DOMAIN it.data : Len(it.data[i]) = 2

SameItem(x, y) ==
    /\ x.key = y.key /\ x.data = y.data /\ x.cas = y.cas
    /\ x.flags = y.flags \/ (pair = "versions" /\ WasCounted(x))

SameStores ==
    /\ left.cas = right.cas
    /\ Len(left.list) = Len(right.list)
    /\ \A i \in DOMAIN left.list : SameItem(left.list[i], right.list[i])

(* The replies of two versions are the same but for the number of          *)
(* terminators of stat, the text of version and the flags of counters.     *)
SameReplies ==
    LET l == last.left
        r == last.right
    IN  CASE last.req.op = "STAT" -> Len(l) = 1 /\ r = l \o l
          [] last.req.op = "VERSION" -> Len(l) = 1 /\ Len(r) = 1
          [] OTHER ->
               /\ Len(l) = Len(r)
               /\ \A i \in DOMAIN l :
                     \/ l[i] = r[i]
                     \/ /\ last.req.op \in {"GET", "GETK"}
                        /\ l[i] = [r[i] EXCEPT !.flags = l[i].flags]
                        /\ \E p \in DOMAIN l[i].body : Len(l[i].body[p]) = 2

(* What the text protocol says for a binary reply.                         *)
InText(req, b) ==
    CASE req.op = "GET" ->
           (IF b.status # "SUCCESS" THEN << >>
            ELSE << [line |-> "VALUE", key |-> req.key, cas |-> b.cas,
                     flags |-> b.flags, body |-> b.body] >>)
              \o << Text("END") >>
      [] req.op \in {"INCREMENT", "DECREMENT"} /\ b.status = "SUCCESS" ->
           << [Text("COUNT") EXCEPT !.body = b.body] >>
      [] req.op = "DELETE" ->
           << Text(IF b.status = "SUCCESS" THEN "DELETED" ELSE "NOT_FOUND") >>
      [] req.op = "FLUSH" -> << Text("OK") >>
      [] OTHER ->
           << Text(CASE b.status = "SUCCESS" -> "STORED"
                     [] req.op = "REPLACE" /\ req.cas # 0
                           /\ b.status = "KEY_ENOENT" -> "NOT_FOUND"
                     [] req.op = "REPLACE" /\ b.status = "KEY_EEXISTS" ->
                           "EXISTS"
                     [] req.op \in {"INCREMENT", "DECREMENT"} -> "NOT_FOUND"
                     [] OTHER -> "NOT_STORED") >>

(* Both servers hold the same items, in the same order and with the same   *)
(* CAS values, and give the same answers: interface_v0.cc and              *)
(* interface_v1.cc behind binary_handler.c as long as no flush and no      *)
(* delete with an outdated CAS value has come by, and the binary and the   *)
(* text protocol always.  A text command with noreply is answered by       *)
(* nothing, and so is a get that comes after one.                          *)
InterfacesAgree ==
    ~diverged =>
        /\ SameStores
        /\ commands > 0 =>
             IF pair = "versions" THEN SameReplies
             ELSE IF mute THEN last.right = << >>
             ELSE last.right = InText(last.req, last.left[1])

(* A conditional command that changes an item finds it exactly as the      *)
(* client last read it: nobody has written, counted, deleted and stored    *)
(* again, or flushed in between.                                           *)
NoLostUpdate ==
    [][(/\ last'.req.cas # 0
        /\ last'.req.op # "DELETE"
        /\ left' # left
        /\ Has(left, last'.req.key))
       => LET it == Item(left, last'.req.key)
          IN  it.cas = seen[last'.client].cas /\ it.data = seen[last'.client].data
      ]_vars
============================================================================
