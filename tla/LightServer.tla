---------------------------- MODULE LightServer ----------------------------
(***************************************************************************)
(* What the example server does with one command: the command handlers of  *)
(* the protocol library (binary_handler.c, ascii_handler.c, pedantic.c)    *)
(* over one of the two interfaces of the example (interface_v0.cc, which   *)
(* gets the packets, and interface_v1.cc, which gets decoded arguments).   *)
(*                                                                         *)
(* A binary request is a record: op is the command without its Q, quiet    *)
(* the Q.  A line of the text protocol is a record too: tokens counts its  *)
(* tokens without a trailing "noreply".  Handlers map the store to a       *)
(* result [st, out, rval]: the store, the replies in order and the status. *)
(* Replies go out in one of three ways: "send" (drain what is queued, then *)
(* write to the socket), "drain" (drain, then queue) or "queue".           *)
(***************************************************************************)
EXTENDS Storage

CONSTANT Word   \* the modulus of the counters, 2^64 in the code

ASSUME WordAssumption == Word \in Nat \ {0, 1}

(* What the environment decides while a command runs: whether malloc gives *)
(* memory, and what the 8 bytes are that an arithmetic command reads of an *)
(* item that holds text (it does not look at the size).                    *)
Calm == [mem |-> TRUE, raw |-> 48]

Result(st, out, rval) == [st |-> st, out |-> out, rval |-> rval]
Out(how, replies) == << [how |-> how, replies |-> replies] >>

(***************************************************************************)
(* Binary replies.  The opaque is always copied, so it is left out.        *)
(***************************************************************************)
Reply(req, status) ==
    [op |-> req.op, quiet |-> req.quiet, status |-> status,
     cas |-> 0, key |-> "", flags |-> 0, body |-> << >>]

(* memcached_binary_protocol_pedantic_check_response.                      *)
pedantic_check_response(r) ==
    IF r.status = "SUCCESS"
    THEN /\ r.quiet => r.op \in {"GET", "GETK"}
         /\ r.op \in {"ADD", "REPLACE", "SET", "APPEND", "PREPEND"}
                => r.key = "" /\ r.body = << >> /\ r.cas # 0
         /\ r.op \in {"FLUSH", "NOOP", "QUIT", "DELETE"}
                => r.key = "" /\ r.body = << >> /\ r.cas = 0
         /\ r.op \in {"INCREMENT", "DECREMENT"}
                => r.key = "" /\ Len(r.body) = 1 /\ r.cas # 0
         /\ r.op = "STAT" => r.cas = 0
         /\ r.op = "VERSION" => r.key = "" /\ r.body # << >> /\ r.cas = 0
         /\ r.op = "GET" => r.key = "" /\ r.cas # 0
         /\ r.op = "GETK" => r.key # "" /\ r.cas # 0
    ELSE r.cas = 0 /\ (r.op = "GETK" \/ r.key = "")

(* binary_raw_response_handler, in pedantic mode as memcached_light sets   *)
(* it; errors of the socket are in module ProtocolIO.                      *)
raw_response(st, out, r) ==
    IF pedantic_check_response(r)
    THEN Result(st, out \o Out("send", << r >>), "SUCCESS")
    ELSE Result(st, out, "EINVAL")

(* The reply a handler builds by hand after a success: quiet commands give *)
(* none.                                                                   *)
Positive(st, req, cas, body) ==
    IF req.quiet THEN Result(st, << >>, "SUCCESS")
    ELSE raw_response(st, << >>, [Reply(req, "SUCCESS")
                                      EXCEPT !.cas = cas, !.body = body])

Negative(st, req, status) == raw_response(st, << >>, Reply(req, status))

U64(n) == << << "u64", n >> >>
AsU64(data, env) ==
    IF Len(data) = 1 /\ Len(data[1]) = 2 THEN data[1][2] ELSE env.raw

(* The new value of a counter: addition wraps, subtraction stops at zero.  *)
Count(op, old, delta) ==
    IF op = "INCREMENT" THEN (old + delta) % Word
    ELSE IF delta > old THEN 0 ELSE old - delta

(***************************************************************************)
(* Version 0 of the interface (interface_v0.cc).                           *)
(***************************************************************************)
v0_get(st, req) ==
    IF Has(st, req.key)
    THEN LET it == Item(st, req.key)
         IN  raw_response(st, << >>,
                 [Reply(req, "SUCCESS") EXCEPT
                     !.cas = it.cas, !.flags = it.flags, !.body = it.data,
                     !.key = IF req.op = "GETK" THEN req.key ELSE ""])
    ELSE IF req.quiet THEN Result(st, << >>, "SUCCESS")
    ELSE Negative(st, req, "KEY_ENOENT")

v0_delete(st, req) ==
    IF Has(st, req.key)
    THEN Positive(delete_item(st, req.key), req, 0, << >>)
    ELSE Negative(st, req, "KEY_ENOENT")

v0_flush(st, req) == Positive(flush(st), req, 0, << >>)

v0_arithmetic(st, req, env) ==
    LET old == Has(st, req.key)
        it == Item(st, req.key)
        value == IF old THEN Count(req.op, AsU64(it.data, env), req.delta)
                 ELSE req.initial
        st1 == delete_item(st, req.key)
        st2 == put_item(st1, create_item(req.key, U64(value),
                                         IF old THEN it.flags ELSE 0))
    IN  IF env.mem THEN Positive(st2, req, st2.cas, U64(value))
        ELSE Negative(st1, req, "ENOMEM")

(* append and prepend.                                                     *)
Concat(req, it) == IF req.op = "APPEND" THEN it.data \o req.data
                   ELSE req.data \o it.data

(* Without a reply of its own, the status becomes execute_command's reply. *)
v0_concat(st, req, env) ==
    LET it == Item(st, req.key)
        st1 == put_item(delete_item(st, req.key),
                        create_item(req.key, Concat(req, it), it.flags))
    IN  IF ~Has(st, req.key) THEN Result(st, << >>, "KEY_ENOENT")
        ELSE IF req.cas # 0 /\ req.cas # it.cas
        THEN Result(st, << >>, "KEY_EEXISTS")
        ELSE IF ~env.mem THEN Result(st, << >>, "ENOMEM")
        ELSE Positive(st1, req, st1.cas, << >>)

Stored(st, req) ==
    put_item(delete_item(st, req.key),
             create_item(req.key, req.data, req.flags))

(* The item is gone before the new one is known to fit.                    *)
v0_store(st, req, env) ==
    IF env.mem THEN Positive(Stored(st, req), req, Stored(st, req).cas, << >>)
    ELSE Negative(delete_item(st, req.key), req, "ENOMEM")

v0_set(st, req, env) ==
    IF req.cas # 0 /\ Has(st, req.key) /\ Item(st, req.key).cas # req.cas
    THEN Negative(st, req, "KEY_EEXISTS")
    ELSE v0_store(st, req, env)

v0_add(st, req, env) ==
    IF Has(st, req.key) THEN Negative(st, req, "KEY_EEXISTS")
    ELSE v0_store(st, req, env)

v0_replace(st, req, env) ==
    IF ~Has(st, req.key) THEN Negative(st, req, "KEY_ENOENT")
    ELSE IF req.cas = 0 \/ req.cas = Item(st, req.key).cas
    THEN v0_store(st, req, env)
    ELSE Negative(st, req, "KEY_EEXISTS")

v0_noop(st, req) == Negative(st, req, "SUCCESS")
v0_stat(st, req) == Negative(st, req, "SUCCESS")
v0_version(st, req) == Positive(st, req, 0, << << "1.0.0" >> >>)

(* QUITQ closes the connection without a reply.                            *)
v0_quit(st, req) ==
    [Positive(st, req, 0, << >>) EXCEPT !.rval = "EINTERNAL"]

(* The table filled by initialize_interface_v0_handler.                    *)
comcode_v0(st, req, env) ==
    CASE req.op \in {"GET", "GETK"} -> v0_get(st, req)
      [] req.op = "SET" -> v0_set(st, req, env)
      [] req.op = "ADD" -> v0_add(st, req, env)
      [] req.op = "REPLACE" -> v0_replace(st, req, env)
      [] req.op = "DELETE" -> v0_delete(st, req)
      [] req.op \in {"INCREMENT", "DECREMENT"} -> v0_arithmetic(st, req, env)
      [] req.op \in {"APPEND", "PREPEND"} -> v0_concat(st, req, env)
      [] req.op = "FLUSH" -> v0_flush(st, req)
      [] req.op = "NOOP" -> v0_noop(st, req)
      [] req.op = "STAT" -> v0_stat(st, req)
      [] req.op = "VERSION" -> v0_version(st, req)
      [] req.op = "QUIT" -> v0_quit(st, req)
      [] OTHER -> Result(st, << >>, "UNKNOWN_COMMAND")

(***************************************************************************)
(* Version 1 of the interface (interface_v1.cc): the callbacks get decoded *)
(* arguments and give a status, the CAS value and, for counters, a value.  *)
(***************************************************************************)
Done(st, rval, cas, value) ==
    [st |-> st, rval |-> rval, cas |-> cas, value |-> value]
Failed(st, rval) == Done(st, rval, 0, 0)

(* An item was put: its CAS value is the last one given.                   *)
Put(st, value) == Done(st, "SUCCESS", st.cas, value)

v1_store(st, req, env) ==
    IF env.mem THEN Put(Stored(st, req), 0)
    ELSE Failed(delete_item(st, req.key), "ENOMEM")

v1_add(st, req, env) ==
    IF Has(st, req.key) THEN Failed(st, "KEY_EEXISTS")
    ELSE v1_store(st, req, env)

v1_set(st, req, env) ==
    IF req.cas # 0 /\ Has(st, req.key) /\ Item(st, req.key).cas # req.cas
    THEN Failed(st, "KEY_EEXISTS")
    ELSE v1_store(st, req, env)

(* Fault: an item with another CAS value is replaced too.                  *)
v1_replace_nocas(st, req, env) ==
    IF ~Has(st, req.key) THEN Failed(st, "KEY_ENOENT")
    ELSE v1_store(st, req, env)

v1_replace(st, req, env) ==
    IF ~Has(st, req.key) THEN Failed(st, "KEY_ENOENT")
    ELSE IF req.cas = 0 \/ req.cas = Item(st, req.key).cas
    THEN v1_store(st, req, env)
    ELSE Failed(st, "KEY_EEXISTS")

v1_concat(st, req, env) ==
    LET it == Item(st, req.key)
    IN  IF ~Has(st, req.key) THEN Failed(st, "KEY_ENOENT")
        ELSE IF req.cas # 0 /\ req.cas # it.cas THEN Failed(st, "KEY_EEXISTS")
        ELSE IF ~env.mem THEN Failed(st, "ENOMEM")
        ELSE Put(put_item(delete_item(st, req.key),
                          create_item(req.key, Concat(req, it), it.flags)), 0)

v1_append(st, req, env) == v1_concat(st, [req EXCEPT !.op = "APPEND"], env)
v1_prepend(st, req, env) == v1_concat(st, [req EXCEPT !.op = "PREPEND"], env)

(* The new counter has flags 0, whatever the old item had.                 *)
v1_arithmetic(st, req, env) ==
    LET value == IF Has(st, req.key)
                 THEN Count(req.op, AsU64(Item(st, req.key).data, env),
                            req.delta)
                 ELSE req.initial
        st1 == delete_item(st, req.key)
    IN  IF env.mem
        THEN Put(put_item(st1, create_item(req.key, U64(value), 0)), value)
        ELSE Failed(st1, "ENOMEM")

v1_increment(st, req, env) ==
    v1_arithmetic(st, [req EXCEPT !.op = "INCREMENT"], env)
v1_decrement(st, req, env) ==
    v1_arithmetic(st, [req EXCEPT !.op = "DECREMENT"], env)

v1_delete(st, req) ==
    IF ~Has(st, req.key) THEN Failed(st, "KEY_ENOENT")
    ELSE IF req.cas # 0 /\ Item(st, req.key).cas # req.cas
    THEN Failed(st, "KEY_EEXISTS")
    ELSE Done(delete_item(st, req.key), "SUCCESS", 0, 0)

(* The flush callback does nothing.                                        *)
v1_flush(st) == Done(st, "SUCCESS", 0, 0)
v1_version == << "0.1.1" >>

(***************************************************************************)
(* The binary protocol over the callbacks (binary_handler.c).              *)
(***************************************************************************)
(* After a callback: a positive reply unless the command is quiet; a       *)
(* failure is left to execute_command.                                     *)
Answer(done, req, body) ==
    IF done.rval # "SUCCESS" THEN Result(done.st, << >>, done.rval)
    ELSE Positive(done.st, req, done.cas, body)

add_command(st, req, env) == Answer(v1_add(st, req, env), req, << >>)
set_command(st, req, env) == Answer(v1_set(st, req, env), req, << >>)
replace_command(st, req, env) == Answer(v1_replace(st, req, env), req, << >>)
append_command(st, req, env) == Answer(v1_append(st, req, env), req, << >>)
prepend_command(st, req, env) == Answer(v1_prepend(st, req, env), req, << >>)
delete_command(st, req) == Answer(v1_delete(st, req), req, << >>)
flush_command(st, req) == Answer(v1_flush(st), req, << >>)
increment_command(st, req, env) ==
    LET done == v1_increment(st, req, env)
    IN  Answer(done, req, U64(done.value))
decrement_command(st, req, env) ==
    LET done == v1_decrement(st, req, env)
    IN  Answer(done, req, U64(done.value))
noop_command(st, req) == Negative(st, req, "SUCCESS")
quit_command(st, req) ==
    [Positive(st, req, 0, << >>) EXCEPT !.rval = "EINTERNAL"]

(* A hit is queued, not sent, and not looked at by the pedantic checks.    *)
get_command(st, req) ==
    IF Has(st, req.key)
    THEN LET it == Item(st, req.key)
         IN  Result(st,
                 Out("queue", << [Reply(req, "SUCCESS") EXCEPT
                     !.cas = it.cas, !.flags = it.flags, !.body = it.data,
                     !.key = IF req.op = "GETK" THEN req.key ELSE ""] >>),
                 "SUCCESS")
    ELSE Result(st, << >>, IF req.quiet THEN "SUCCESS" ELSE "KEY_ENOENT")

(* The callback's empty packet is already the terminator; the library      *)
(* sends another one.                                                      *)
stat_command(st, req) ==
    raw_response(st, Out("queue", << Reply(req, "SUCCESS") >>),
                 Reply(req, "SUCCESS"))

version_command(st, req) ==
    Result(st,
           Out("queue", << [Reply(req, "SUCCESS")
                                EXCEPT !.body = << v1_version >>] >>)
               \o Out("drain", << >>),
           "SUCCESS")

comcode_v0_v1_remap(st, req, env) ==
    CASE req.op \in {"GET", "GETK"} -> get_command(st, req)
      [] req.op = "SET" -> set_command(st, req, env)
      [] req.op = "ADD" -> add_command(st, req, env)
      [] req.op = "REPLACE" -> replace_command(st, req, env)
      [] req.op = "APPEND" -> append_command(st, req, env)
      [] req.op = "PREPEND" -> prepend_command(st, req, env)
      [] req.op = "DELETE" -> delete_command(st, req)
      [] req.op = "INCREMENT" -> increment_command(st, req, env)
      [] req.op = "DECREMENT" -> decrement_command(st, req, env)
      [] req.op = "FLUSH" -> flush_command(st, req)
      [] req.op = "NOOP" -> noop_command(st, req)
      [] req.op = "STAT" -> stat_command(st, req)
      [] req.op = "VERSION" -> version_command(st, req)
      [] req.op = "QUIT" -> quit_command(st, req)
      [] OTHER -> Result(st, << >>, "UNKNOWN_COMMAND")

(* The server's callback for commands it does not know.                    *)
unknown(st, req) == Negative(st, req, "UNKNOWN_COMMAND")

Handled(iface, st, req, env) ==
    IF iface = 0 THEN comcode_v0(st, req, env)
    ELSE comcode_v0_v1_remap(st, req, env)

OrUnknown(st, req, r) ==
    IF r.rval = "UNKNOWN_COMMAND" THEN unknown(st, req) ELSE r

Answered(req, r) ==
    IF r.rval \in {"SUCCESS", "EINTERNAL", "NOT_SUPPORTED"} THEN r
    ELSE raw_response(r.st, r.out, Reply(req, r.rval))

(* Fault: a command that fails is not answered.                            *)
execute_command_silent(iface, st, req, env) == Handled(iface, st, req, env)

(* execute_command: what the pedantic check of the request says is ignored *)
(* by the code.                                                            *)
execute_command(iface, st, req, env) ==
    Answered(req, OrUnknown(st, req, Handled(iface, st, req, env)))

(***************************************************************************)
(* The text protocol (ascii_handler.c), which needs the callbacks.  form   *)
(* says how a line parses: "ok", "count" (wrong number of tokens), "key"   *)
(* (a key that is too long or has control characters) or "number" (out of  *)
(* range).  The result has the mute flag of the connection, which a        *)
(* trailing noreply sets, and whether the connection is to be closed.      *)
(***************************************************************************)
Text(line) ==
    [line |-> line, key |-> "", cas |-> 0, flags |-> 0, body |-> << >>]

Line(st, out, mute, close) ==
    [st |-> st, out |-> out, mute |-> mute, close |-> close]

(* spool_output drops what is queued on a muted connection.                *)
Spool(how, mute, replies) == Out(how, IF mute THEN << >> ELSE replies)

ascii_raw_response(mute, reply) == Spool("drain", mute, << reply >>)

(* send_command_usage answers even a noreply command.                      *)
usage(st) ==
    Line(st, ascii_raw_response(FALSE, Text("CLIENT_ERROR")), FALSE, FALSE)

ascii_get_response(line, it) ==
    [Text("VALUE") EXCEPT !.key = it.key, !.flags = it.flags,
                          !.body = it.data,
                          !.cas = IF line.cmd = "gets" THEN it.cas ELSE 0]

Found(st, line) ==
    LET hits == SelectSeq(line.keys, LAMBDA k : Has(st, k))
    IN  [i \in DOMAIN hits |-> ascii_get_response(line, Item(st, hits[i]))]

(* get and gets keep the mute flag the line before them has set.           *)
ascii_process_gets(st, line, mute) ==
    IF line.keys = << >> THEN usage(st)
    ELSE Line(st,
              Spool("queue", mute, Found(st, line) \o << Text("END") >>),
              mute, FALSE)

(* The arguments a line hands to a callback.                               *)
Args(line) ==
    [op |-> line.cmd, quiet |-> FALSE, key |-> line.keys[1],
     data |-> line.data, flags |-> line.flags,
     cas |-> IF line.cmd = "cas" THEN line.cas ELSE 0,
     delta |-> line.delta, initial |-> 0]

process_delete(st, line) ==
    LET done == v1_delete(st, Args(line))
        said == IF done.rval = "SUCCESS" THEN "DELETED"
                ELSE IF done.rval = "KEY_ENOENT" THEN "NOT_FOUND"
                ELSE "SERVER_ERROR"
    IN  IF line.form \in {"count", "key"} THEN usage(st)
        ELSE Line(done.st, ascii_raw_response(line.noreply, Text(said)),
                  line.noreply, FALSE)

process_arithmetic(st, line, env) ==
    LET done == IF line.cmd = "incr" THEN v1_increment(st, Args(line), env)
                ELSE v1_decrement(st, Args(line), env)
        said == IF done.rval = "SUCCESS"
                THEN [Text("COUNT") EXCEPT !.body = U64(done.value)]
                ELSE Text("NOT_FOUND")
    IN  IF line.form \in {"count", "key"} THEN usage(st)
        ELSE IF line.form = "number" THEN Line(st, << >>, line.noreply, FALSE)
        ELSE Line(done.st, ascii_raw_response(line.noreply, said),
                  line.noreply, FALSE)

(* The callback gives no key: END.                                         *)
process_stats(st, line) ==
    IF line.noreply THEN usage(st)
    ELSE Line(st, ascii_raw_response(FALSE, Text("END")), FALSE, FALSE)

process_version(st, line) ==
    IF line.noreply \/ line.form = "count" THEN usage(st)
    ELSE Line(st, ascii_raw_response(FALSE,
                      [Text("VERSION") EXCEPT !.body = << v1_version >>]),
              FALSE, FALSE)

process_flush(st, line) ==
    IF line.form = "count" THEN usage(st)
    ELSE IF line.form = "number" THEN Line(st, << >>, line.noreply, FALSE)
    ELSE Line(v1_flush(st).st, ascii_raw_response(line.noreply, Text("OK")),
              line.noreply, FALSE)

(* The callback a storage command calls; cas calls replace.                *)
StorageCallback(st, line, env) ==
    CASE line.cmd = "set" -> v1_set(st, Args(line), env)
      [] line.cmd = "add" -> v1_add(st, Args(line), env)
      [] line.cmd \in {"cas", "replace"} -> v1_replace(st, Args(line), env)
      [] line.cmd = "append" -> v1_append(st, Args(line), env)
      [] line.cmd = "prepend" -> v1_prepend(st, Args(line), env)

StorageReply(line, rval) ==
    CASE rval = "SUCCESS" -> "STORED"
      [] line.cmd = "cas" /\ rval = "KEY_EEXISTS" -> "EXISTS"
      [] line.cmd = "cas" /\ rval = "KEY_ENOENT" -> "NOT_FOUND"
      [] OTHER -> "NOT_STORED"

process_storage_command(st, line, env) ==
    IF line.form \in {"key", "number"}
    THEN Line(st, ascii_raw_response(line.noreply, Text("CLIENT_ERROR")),
              line.noreply, TRUE)
    ELSE LET done == StorageCallback(st, line, env)
         IN  Line(done.st,
                  ascii_raw_response(line.noreply,
                                     Text(StorageReply(line, done.rval))),
                  line.noreply, FALSE)

(* process_cas_command, process_set_command and the others.                *)
StorageCommand(st, line, env) ==
    IF line.form = "count" THEN usage(st)
    ELSE process_storage_command(st, line, env)

process_quit(st, line) ==
    IF line.noreply \/ line.form = "count" THEN usage(st)
    ELSE Line(st, << >>, FALSE, TRUE)

process_verbosity(st, line) ==
    IF line.form = "count" THEN usage(st)
    ELSE Line(st, ascii_raw_response(line.noreply, Text("OK")),
              line.noreply, FALSE)

(* One turn of the loop of memcached_ascii_protocol_process_data.          *)
process_line(st, line, mute, env) ==
    CASE line.cmd \in {"get", "gets"} -> ascii_process_gets(st, line, mute)
      [] line.cmd \in {"set", "add", "replace", "cas", "append", "prepend"} ->
             StorageCommand(st, line, env)
      [] line.cmd = "delete" -> process_delete(st, line)
      [] line.cmd \in {"incr", "decr"} -> process_arithmetic(st, line, env)
      [] line.cmd = "stats" -> process_stats(st, line)
      [] line.cmd = "flush_all" -> process_flush(st, line)
      [] line.cmd = "version" -> process_version(st, line)
      [] line.cmd = "quit" -> process_quit(st, line)
      [] line.cmd = "verbosity" -> process_verbosity(st, line)
      [] OTHER -> usage(st)
============================================================================
