---------------------------- MODULE Memcapable -----------------------------
(***************************************************************************)
(* memcapable (memcapable.cc) run against the example server.  The client  *)
(* goes through its table of tests; each test is a script of writes and    *)
(* reads over one connection.  The server takes commands off the           *)
(* connection at its own pace.  The store outlives connections and runs of *)
(* the program.                                                            *)
(*                                                                         *)
(* Whether an accepted socket blocks is left to the platform: memcached_   *)
(* light makes only the listening socket non-blocking, and Linux does not  *)
(* pass that on.  On a blocking socket memcached_protocol_client_work      *)
(* waits for more input before it drains what it has queued.               *)
(*                                                                         *)
(* Builds with NDEBUG (in others the assertion of                          *)
(* ascii_raw_response_handler aborts on the first reply); messages arrive  *)
(* whole, except where the client itself writes one in pieces; the server  *)
(* answers what it has read before the client's timeout runs out.          *)
(***************************************************************************)
EXTENDS LightServer, FiniteSets, SequencesExt

CONSTANTS
    Reps,       \* how often the tests that repeat a command do it (10)
    Rounds,     \* runs of memcapable against the same server
    MaxSkips,   \* tests skipped at the prompt of -P
    Suites      \* "all", or with -a "text" and with -b "binary"

ASSUME MemcapableAssumption ==
    /\ {Reps, Rounds} \subseteq Nat \ {0}
    /\ MaxSkips \in Nat
    /\ Suites \subseteq {"all", "text", "binary"}

(***************************************************************************)
(* Scripts.  A step writes msg, with the CAS value zero, of the last reply *)
(* kept ("rsp") or one less ("older"), or reads a reply and compares it    *)
(* with want, or waits for the connection to be closed.                    *)
(***************************************************************************)
Step(do, msg, cas, want, keep) ==
    [do |-> do, msg |-> msg, cas |-> cas, want |-> want, keep |-> keep]

Write(msg, cas) == << Step("write", msg, cas, << >>, FALSE) >>
Read(want, keep) == << Step("read", << >>, "zero", want, keep) >>
Closed == << Step("closed", << >>, "zero", << >>, FALSE) >>
AllKeys(keys) == << Step("keys", << >>, "zero", keys, FALSE) >>

Rep(n, steps) == FlattenSeq([i \in 1..n |-> steps])

(* storage_command, raw_command, flush_command, arithmetic_command.        *)
Packet(op, quiet, key) ==
    [kind |-> "binary", op |-> op, quiet |-> quiet, key |-> key,
     data |-> << >>, flags |-> 0, delta |-> 0, initial |-> 0, cas |-> 0]
WithData(packet, data) == [packet EXCEPT !.data = << data >>]
Arithmetic(op, quiet, key, delta, initial) ==
    [Packet(op, quiet, key) EXCEPT !.delta = delta, !.initial = initial]

(* What validate_response_header is given; value is compared if it is      *)
(* not << >>.                                                              *)
Header(op, quiet, status, value) ==
    [kind |-> "binary", op |-> op, quiet |-> quiet, status |-> status,
     value |-> value]

Send(packet) == Write(packet, "zero")
Recv(op, quiet, status) == Read(Header(op, quiet, status, << >>), TRUE)

send_binary_noop == Send(Packet("NOOP", FALSE, ""))
receive_binary_noop == Read(Header("NOOP", FALSE, "SUCCESS", << >>), FALSE)
test_binary_noop == send_binary_noop \o receive_binary_noop

test_binary_quit(quiet) ==
    Send(Packet("QUIT", quiet, ""))
      \o (IF quiet THEN << >> ELSE Recv("QUIT", FALSE, "SUCCESS"))
      \o Closed

(* The reply, or a noop to see that a quiet command has none.              *)
ReplyOrNoop(op, quiet) ==
    IF quiet THEN test_binary_noop ELSE Recv(op, FALSE, "SUCCESS")

test_binary_set(key, quiet) ==
    LET set == WithData(Packet("SET", quiet, key), << "value" >>)
    IN  Rep(Reps, Send(set) \o ReplyOrNoop("SET", quiet))
          \o (IF quiet THEN Send([set EXCEPT !.quiet = FALSE])
                              \o Recv("SET", FALSE, "SUCCESS")
              ELSE << >>)
          \o Write(set, "rsp") \o ReplyOrNoop("SET", quiet)
          \o Write(set, "older") \o send_binary_noop
          \o Recv("SET", quiet, "KEY_EEXISTS") \o receive_binary_noop

test_binary_add(key, quiet) ==
    LET add == WithData(Packet("ADD", quiet, key), << "value" >>)
        again == Send(add) \o send_binary_noop
                   \o Recv("ADD", quiet, "KEY_EEXISTS") \o receive_binary_noop
    IN  (IF quiet THEN Send(add) \o test_binary_noop
         ELSE Send(add) \o send_binary_noop
                \o Recv("ADD", FALSE, "SUCCESS") \o receive_binary_noop)
          \o Rep(Reps - 1, again)

binary_set_item(key, value) ==
    Send(WithData(Packet("SET", FALSE, key), value))
      \o Read(Header("SET", FALSE, "SUCCESS", << >>), FALSE)

(* After a quiet replace rsp is still the reply to the first, failed one.  *)
test_binary_replace(key, quiet) ==
    LET replace == WithData(Packet("REPLACE", quiet, key), << "value" >>)
        checked(status) == send_binary_noop \o Recv("REPLACE", quiet, status)
                             \o receive_binary_noop
    IN  Send(replace) \o checked("KEY_ENOENT")
          \o binary_set_item(key, << key >>)
          \o Rep(Reps - 1, Send(replace)
                     \o (IF quiet THEN test_binary_noop
                         ELSE checked("SUCCESS")))
          \o Write(replace, "rsp") \o ReplyOrNoop("REPLACE", quiet)
          \o Write(replace, "older") \o checked("KEY_EEXISTS")

test_binary_delete(key, quiet) ==
    LET delete == Packet("DELETE", quiet, key)
    IN  Send(delete) \o send_binary_noop
          \o Recv("DELETE", quiet, "KEY_ENOENT") \o receive_binary_noop
          \o binary_set_item(key, << key >>)
          \o Send(delete)
          \o (IF quiet THEN << >> ELSE Recv("DELETE", FALSE, "SUCCESS"))
          \o test_binary_noop

test_binary_get(key, op, quiet) ==
    LET get == Packet(op, quiet, key)
    IN  Send(get) \o send_binary_noop
          \o (IF quiet THEN << >> ELSE Recv(op, FALSE, "KEY_ENOENT"))
          \o receive_binary_noop
          \o binary_set_item(key, << key >>)
          \o Send(get) \o send_binary_noop
          \o Recv(op, quiet, "SUCCESS") \o receive_binary_noop

test_binary_incr(key, quiet) ==
    LET incr == Arithmetic("INCREMENT", quiet, key, 1, 0)
    IN  FlattenSeq([i \in 1..Reps |->
            Send(incr) \o (IF quiet THEN test_binary_noop
                           ELSE Read(Header("INCREMENT", FALSE, "SUCCESS",
                                            U64(i - 1)), TRUE))])

test_binary_decr(key, quiet) ==
    LET decr == Arithmetic("DECREMENT", quiet, key, 1, Reps - 1)
        step(n) == Send(decr)
                     \o (IF quiet THEN test_binary_noop
                         ELSE Read(Header("DECREMENT", FALSE, "SUCCESS",
                                          U64(n)), TRUE))
    IN  FlattenSeq([i \in 1..Reps |-> step(Reps - i)])
          \o Send(decr)
          \o (IF quiet THEN << >>
              ELSE Read(Header("DECREMENT", FALSE, "SUCCESS", U64(0)), TRUE))
          \o test_binary_noop

test_binary_version ==
    Send(Packet("VERSION", FALSE, "")) \o Recv("VERSION", FALSE, "SUCCESS")

test_binary_flush(key, quiet) ==
    Rep(2, binary_set_item(key, << key >>)
             \o Send(Packet("FLUSH", quiet, ""))
             \o ReplyOrNoop("FLUSH", quiet)
             \o Send(Packet("GET", FALSE, key))
             \o Recv("GET", FALSE, "KEY_ENOENT"))

test_binary_concat(key, op, quiet) ==
    LET first == IF op = "APPEND" THEN << "hello" >> ELSE << " world" >>
        second == IF op = "APPEND" THEN << " world" >> ELSE << "hello" >>
    IN  binary_set_item(key, first)
          \o Send(WithData(Packet(op, quiet, key), second))
          \o ReplyOrNoop(op, quiet)
          \o Send(Packet("GET", FALSE, key))
          \o Read(Header("GET", FALSE, "SUCCESS",
                         << << "hello" >>, << " world" >> >>), TRUE)

(* The loop ends with the first packet without a key, which is the first   *)
(* packet of the example server.                                           *)
test_binary_stat ==
    Send(Packet("STAT", FALSE, "")) \o Recv("STAT", FALSE, "SUCCESS")

(***************************************************************************)
(* The text protocol.                                                      *)
(***************************************************************************)
Command(cmd, keys, form, noreply) ==
    [kind |-> "text", cmd |-> cmd, keys |-> keys, data |-> << >>,
     flags |-> 0, cas |-> 0, delta |-> 0, noreply |-> noreply, form |-> form]
Data(cmd, key, data, noreply) ==
    [Command(cmd, << key >>, "ok", noreply) EXCEPT !.data = << data >>]

(* Any key will do for ascii_get_unknown_value; body is compared if it is  *)
(* not << >>.                                                              *)
Want(lines, key, body) ==
    [kind |-> "text", lines |-> lines, key |-> key, body |-> body]

send_string(line) == Write(line, "zero")
receive_response(line) == Read(Want({line}, "", << >>), FALSE)
receive_error_response ==
    Read(Want({"ERROR", "CLIENT_ERROR", "NOT_FOUND", "SERVER_ERROR"},
              "", << >>), FALSE)

(* The server is older than 1.6.                                           *)
test_ascii_version ==
    send_string(Command("version", << >>, "ok", FALSE))
      \o receive_response("VERSION")
      \o send_string(Command("version", << >>, "count", FALSE))
      \o receive_error_response
      \o send_string(Command("version", << >>, "ok", TRUE))
      \o receive_error_response

test_ascii_quit ==
    send_string(Command("quit", << >>, "count", FALSE))
      \o receive_error_response
      \o send_string(Command("quit", << >>, "ok", TRUE))
      \o receive_error_response
      \o send_string(Command("quit", << >>, "ok", FALSE)) \o Closed

test_ascii_verbosity ==
    send_string(Command("verbosity", << >>, "count", FALSE))
      \o receive_error_response
      \o send_string(Command("verbosity", << >>, "count", TRUE))
      \o test_ascii_version
      \o send_string(Command("verbosity", << >>, "ok", TRUE))
      \o test_ascii_version
      \o send_string(Command("verbosity", << >>, "count", FALSE))
      \o receive_error_response
      \o Rep(2, send_string(Command("verbosity", << >>, "ok", FALSE))
                  \o receive_response("OK"))

(* What noreply commands are followed by instead of their reply.           *)
ReplyOrVersion(line, noreply) ==
    IF noreply THEN test_ascii_version ELSE receive_response(line)
ReplyOrNothing(line, noreply) ==
    IF noreply THEN << >> ELSE receive_response(line)

test_ascii_set(key, noreply) ==
    send_string(Data("set", key, << "value" >>, noreply))
      \o ReplyOrNothing("STORED", noreply) \o test_ascii_version

test_ascii_add(key, noreply) ==
    LET add == send_string(Data("add", key, << "value" >>, noreply))
    IN  add \o ReplyOrNothing("STORED", noreply)
          \o add \o ReplyOrNothing("NOT_STORED", noreply)
          \o test_ascii_version

ascii_get_value(key, body) == Read(Want({"VALUE"}, key, body), FALSE)
ascii_get_unknown_value(body) == Read(Want({"VALUE"}, "", body), TRUE)
ascii_gets_value(key, body) == Read(Want({"VALUE"}, key, body), TRUE)

ascii_get_item(key, body, exist) ==
    send_string(Command("get", << key >>, "ok", FALSE))
      \o (IF exist THEN ascii_get_value(key, body) ELSE << >>)
      \o receive_response("END")

ascii_gets_item(key, body, exist) ==
    send_string(Command("gets", << key >>, "ok", FALSE))
      \o (IF exist THEN ascii_gets_value(key, body) ELSE << >>)
      \o receive_response("END")

(* The line, the value and its end are three writes.  A part of a command  *)
(* does nothing until the rest of it is there.                             *)
Piece == Command("piece", << >>, "ok", FALSE)
ascii_set_item(key, data) ==
    Rep(2, send_string(Piece)) \o send_string(Data("set", key, data, FALSE))
      \o receive_response("STORED")

test_ascii_replace(key, noreply) ==
    LET replace == send_string(Data("replace", key, << "value" >>, noreply))
    IN  replace \o ReplyOrVersion("NOT_STORED", noreply)
          \o ascii_set_item(key, << "value" >>)
          \o ascii_get_item(key, << << "value" >> >>, TRUE)
          \o replace \o ReplyOrVersion("STORED", noreply)
          \o test_ascii_version

test_ascii_cas(key, noreply) ==
    LET cas == Write(Data("cas", key, << "value2" >>, noreply), "rsp")
    IN  ascii_set_item(key, << "value" >>)
          \o ascii_gets_item(key, << << "value" >> >>, TRUE)
          \o cas \o ReplyOrVersion("STORED", noreply)
          \o cas \o ReplyOrVersion("EXISTS", noreply)
          \o test_ascii_version

test_ascii_delete(key, noreply) ==
    LET delete == send_string(Command("delete", << key >>, "ok", noreply))
        wrong == send_string(Command("delete", << key >>, "count", FALSE))
    IN  ascii_set_item(key, << "value" >>)
          \o Rep(2, wrong \o receive_error_response)
          \o delete \o ReplyOrVersion("DELETED", noreply)
          \o ascii_get_item(key, << >>, FALSE)
          \o delete \o ReplyOrVersion("NOT_FOUND", noreply)

test_ascii_get(key) ==
    ascii_set_item(key, << "value" >>)
      \o send_string(Command("get", << >>, "ok", FALSE))
      \o receive_error_response
      \o ascii_get_item(key, << << "value" >> >>, TRUE)
      \o ascii_get_item("notfound", << >>, FALSE)

test_ascii_gets(key) ==
    ascii_set_item(key, << "value" >>)
      \o send_string(Command("gets", << >>, "ok", FALSE))
      \o receive_error_response
      \o ascii_gets_item(key, << << "value" >> >>, TRUE)
      \o ascii_gets_item("notfound", << >>, FALSE)

(* Two of the five keys.                                                   *)
test_ascii_mget ==
    ascii_set_item("mget1", << "value" >>)
      \o ascii_set_item("mget2", << "value" >>)
      \o send_string(Command("get", << "mget1", "notfound", "mget2" >>,
                             "ok", FALSE))
      \o Rep(2, ascii_get_unknown_value(<< << "value" >> >>))
      \o receive_response("END")
      \o AllKeys({"mget1", "mget2"})

Calculate(cmd, key, noreply, value) ==
    send_string([Command(cmd, << key >>, "ok", noreply) EXCEPT !.delta = 1])
      \o (IF noreply THEN test_ascii_version
          ELSE Read(Want({"COUNT"}, "", value), FALSE))

(* The value stored is a text; the commands answer with numbers, and get   *)
(* is to answer with a text again.                                         *)
test_ascii_incr(key, noreply) ==
    ascii_set_item(key, << "0" >>)
      \o FlattenSeq([i \in 1..Reps |-> Calculate("incr", key, noreply, U64(i))])
      \o ascii_get_item(key, << << "10" >> >>, TRUE)

test_ascii_decr(key, noreply) ==
    ascii_set_item(key, << "9" >>)
      \o FlattenSeq([i \in 1..Reps |->
                         Calculate("decr", key, noreply, U64(Reps - i))])
      \o ascii_get_item(key, << << "0" >> >>, TRUE)
      \o Calculate("decr", key, noreply, << >>)
      \o ascii_get_item(key, << << "0" >> >>, TRUE)

test_ascii_flush(key, noreply) ==
    ascii_set_item(key, << key >>)
      \o ascii_get_item(key, << << key >> >>, TRUE)
      \o send_string(Command("flush_all", << >>, "ok", noreply))
      \o ReplyOrVersion("OK", noreply)
      \o ascii_get_item(key, << >>, FALSE)

test_ascii_concat(key, cmd, noreply) ==
    LET first == IF cmd = "append" THEN << "hello" >> ELSE << " world" >>
        second == IF cmd = "append" THEN << " world" >> ELSE << "hello" >>
    IN  ascii_set_item(key, first)
          \o send_string(Data(cmd, key, second, noreply))
          \o ReplyOrVersion("STORED", noreply)
          \o ascii_get_item(key, << << "hello" >>, << " world" >> >>, TRUE)
          \o send_string(Data(cmd, "notfound", second, noreply))
          \o ReplyOrVersion("NOT_STORED", noreply)

(* The example server has no statistics: END is the first line.            *)
test_ascii_stat ==
    send_string(Command("stats", << >>, "ok", TRUE))
      \o receive_error_response
      \o send_string(Command("stats", << >>, "ok", FALSE))
      \o receive_response("END")

(***************************************************************************)
(* The table of tests, in two parts.                                       *)
(***************************************************************************)
Test(name, kind, reconnect, script) ==
    [name |-> name, kind |-> kind, reconnect |-> reconnect, script |-> script]

(* A test and its noreply or quiet variant; the name is the key too.       *)
Pair(name, suffix, kind, script(_, _)) ==
    << Test(name, kind, FALSE, script(name, FALSE)),
       Test(name \o suffix, kind, FALSE, script(name \o suffix, TRUE)) >>
Ascii(name, script(_, _)) == Pair(name, " noreply", "text", script)
Binary(name, script(_, _)) == Pair(name, "q", "binary", script)

ascii_testcases ==
    << Test("ascii version", "text", FALSE, test_ascii_version),
       Test("ascii quit", "text", TRUE, test_ascii_quit),
       Test("ascii verbosity", "text", FALSE, test_ascii_verbosity) >>
      \o Ascii("ascii set", test_ascii_set)
      \o << Test("ascii get", "text", FALSE, test_ascii_get("get")),
            Test("ascii gets", "text", FALSE, test_ascii_gets("gets")),
            Test("ascii mget", "text", FALSE, test_ascii_mget) >>
      \o Ascii("ascii flush", test_ascii_flush)
      \o Ascii("ascii add", test_ascii_add)
      \o Ascii("ascii replace", test_ascii_replace)
      \o Ascii("ascii cas", test_ascii_cas)
      \o Ascii("ascii delete", test_ascii_delete)
      \o Ascii("ascii incr", test_ascii_incr)
      \o Ascii("ascii decr", test_ascii_decr)
      \o Ascii("ascii append", LAMBDA k, n : test_ascii_concat(k, "append", n))
      \o Ascii("ascii prepend", LAMBDA k, n : test_ascii_concat(k, "prepend", n))
      \o << Test("ascii stat", "text", TRUE, test_ascii_stat) >>

binary_testcases ==
    << Test("binary noop", "binary", FALSE, test_binary_noop),
       Test("binary quit", "binary", TRUE, test_binary_quit(FALSE)),
       Test("binary quitq", "binary", TRUE, test_binary_quit(TRUE)) >>
      \o Binary("binary set", test_binary_set)
      \o Binary("binary flush", test_binary_flush)
      \o Binary("binary add", test_binary_add)
      \o Binary("binary replace", test_binary_replace)
      \o Binary("binary delete", test_binary_delete)
      \o Binary("binary get", LAMBDA k, q : test_binary_get(k, "GET", q))
      \o Binary("binary getk", LAMBDA k, q : test_binary_get(k, "GETK", q))
      \o Binary("binary incr", test_binary_incr)
      \o Binary("binary decr", test_binary_decr)
      \o << Test("binary version", "binary", FALSE, test_binary_version) >>
      \o Binary("binary append", LAMBDA k, q : test_binary_concat(k, "APPEND", q))
      \o Binary("binary prepend", LAMBDA k, q : test_binary_concat(k, "PREPEND", q))
      \o << Test("binary stat", "binary", FALSE, test_binary_stat) >>

testcases == ascii_testcases \o binary_testcases

----------------------------------------------------------------------------
VARIABLES
    config,     \* the interface, whether sockets block, the tests asked for
    store,      \* of the server
    conn,       \* the server's side of the connection
    toServer,   \* commands in flight
    toClient,   \* replies in flight
    test,       \* index in the table of the test that is run or is next
    step,       \* index in its script, 0 when it has not started
    kept,       \* of the replies: the last CAS value, the keys
    stray,      \* writes since the server closed the connection
    verdict,    \* of every test of this run of the program
    round       \* the run of the program

vars == << config, store, conn, toServer, toClient, test, step, kept, stray,
           verdict, round >>
server == << config, store, conn >>

NewConn == [proto |-> "none", mute |-> FALSE, queued |-> << >>, open |-> TRUE]
Nothing == [cas |-> 0, keys |-> {}]
Fresh == [t \in DOMAIN testcases |-> "none"]

(* -a and -b leave out tests.                                              *)
Asked(t) == config.suite \in {"all", testcases[t].kind}

Configs ==
    [iface : {0, 1}, blocking : BOOLEAN, suite : Suites]

Init ==
    /\ config \in Configs
    /\ store = EmptyStore
    /\ conn = NewConn
    /\ toServer = << >> /\ toClient = << >>
    /\ test = 1 /\ step = 0
    /\ kept = Nothing
    /\ stray = 0
    /\ verdict = Fresh
    /\ round = 1

(***************************************************************************)
(* The program.                                                            *)
(***************************************************************************)
Running == test <= Len(testcases) /\ step > 0
AtStep(do) ==
    /\ Running /\ step <= Len(testcases[test].script)
    /\ testcases[test].script[step].do = do
Now == testcases[test].script[step]

(* What closesocket and connect_server do.  Only a noop can be on its way  *)
(* to the server when a test has failed with replies to come.              *)
Reconnect ==
    /\ conn' = NewConn
    /\ toServer' = << >> /\ toClient' = << >>
    /\ stray' = 0

Finish(result, reconnect) ==
    /\ verdict' = [verdict EXCEPT ![test] = result]
    /\ test' = test + 1 /\ step' = 0
    /\ kept' = Nothing
    /\ IF reconnect THEN Reconnect
       ELSE UNCHANGED << conn, toServer, toClient, stray >>
    /\ UNCHANGED << config, store, round >>

Pass == Finish("pass", testcases[test].reconnect)

Fail == Finish("FAIL", TRUE)
Advance == step' = step + 1 /\ UNCHANGED << config, test, verdict, round >>

StartTest ==
    /\ test <= Len(testcases) /\ step = 0
    /\ IF Asked(test) THEN step' = 1 /\ test' = test
       ELSE test' = test + 1 /\ step' = 0
    /\ UNCHANGED << server, toServer, toClient, kept, stray, verdict, round >>

(* The answer "skip" to the prompt; in the first run.                      *)
Skipped == Cardinality({t \in DOMAIN verdict : verdict[t] = "skip"})
SkipTest ==
    /\ test <= Len(testcases) /\ step = 0 /\ Asked(test)
    /\ Skipped < MaxSkips /\ round = 1
    /\ verdict' = [verdict EXCEPT ![test] = "skip"]
    /\ test' = test + 1
    /\ UNCHANGED << server, toServer, toClient, step, kept, stray, round >>

Cas(choice) ==
    CASE choice = "zero" -> 0
      [] choice = "rsp" -> kept.cas
      [] choice = "older" -> kept.cas - 1

(* send_packet, resend_packet and send_string.                             *)
WriteStep ==
    /\ AtStep("write")
    /\ IF conn.open
       THEN /\ toServer' = Append(toServer,
                                  [Now.msg EXCEPT !.cas = Cas(Now.cas)])
            /\ UNCHANGED stray
       ELSE /\ stray' = stray + 1
            /\ UNCHANGED toServer
    /\ UNCHANGED << store, conn, toClient, kept >>
    /\ Advance

(* The second write to a connection that is closed raises SIGPIPE, which   *)
(* nothing ignores or handles.                                             *)
Killed ==
    /\ AtStep("write") /\ ~conn.open /\ stray > 0
    /\ verdict' = [verdict EXCEPT ![test] = "killed"]
    /\ test' = Len(testcases) + 1 /\ step' = 0
    /\ UNCHANGED << server, toServer, toClient, kept, stray, round >>

(* validate_response_header, or the comparisons of a line.                 *)
IsText(r) == "line" \in DOMAIN r
Matches(r, want) ==
    IF want.kind = "text"
    THEN /\ IsText(r) /\ r.line \in want.lines
         /\ want.key # "" => r.key = want.key
         /\ want.body # << >> => r.body = want.body
    ELSE /\ ~IsText(r)
         /\ r.op = want.op /\ r.quiet = want.quiet /\ r.status = want.status
         /\ pedantic_check_response(r)
         /\ want.value # << >> => r.body = want.value

ReadStep ==
    /\ AtStep("read") /\ toClient # << >>
    /\ LET r == Head(toClient)
       IN  IF Matches(r, Now.want)
           THEN /\ toClient' = Tail(toClient)
                /\ kept' = IF Now.keep
                           THEN [cas |-> r.cas, keys |-> kept.keys \cup {r.key}]
                           ELSE kept
                /\ UNCHANGED << store, conn, toServer, stray >>
                /\ Advance
           ELSE Fail

(* retry_read: the end of the stream is a failure.                         *)
ReadEnd == AtStep("read") /\ toClient = << >> /\ ~conn.open /\ Fail

ClosedStep ==
    /\ AtStep("closed")
    /\ conn.open => toClient # << >>
    /\ IF toClient = << >>
       THEN UNCHANGED << store, conn, toServer, toClient, kept, stray >> /\ Advance
       ELSE Fail

KeysStep ==
    /\ AtStep("keys")
    /\ IF Now.want \subseteq kept.keys
       THEN UNCHANGED << store, conn, toServer, toClient, kept, stray >> /\ Advance
       ELSE Fail

EndTest == Running /\ step > Len(testcases[test].script) /\ Pass

(* The program is started once more.                                       *)
NextRound ==
    /\ test > Len(testcases) /\ round < Rounds
    /\ round' = round + 1
    /\ test' = 1 /\ verdict' = Fresh
    /\ Reconnect
    /\ UNCHANGED << config, store, step, kept >>

(***************************************************************************)
(* The server, at one command or at the end of its input.                  *)
(***************************************************************************)
(* Every reply of out in turn: what is queued and what has been sent.      *)
Deliver(acc, o) ==
    CASE o.how = "queue" -> [acc EXCEPT !.queued = @ \o o.replies]
      [] o.how = "drain" -> [queued |-> o.replies, sent |-> acc.sent \o acc.queued]
      [] o.how = "send" ->
             [queued |-> << >>, sent |-> acc.sent \o acc.queued \o o.replies]

(* Replies queued when the connection is closed are lost.                  *)
Respond(st, out, proto, mute, close) ==
    LET done == FoldLeft(Deliver, [queued |-> conn.queued, sent |-> << >>], out)
    IN  /\ store' = st
        /\ toClient' = toClient \o done.sent
        /\ conn' = [proto |-> proto, mute |-> mute, open |-> ~close,
                    queued |-> IF close THEN << >> ELSE done.queued]

Flush == Out("drain", << >>)

(* determine_protocol: the first byte decides, and interface 0 has no text *)
(* protocol.                                                               *)
Proto(msg) == IF conn.proto = "none" THEN msg.kind ELSE conn.proto

RefuseText(msg) ==
    /\ Proto(msg) = "text" /\ config.iface = 0
    /\ Respond(store, Out("queue", << Text("CLIENT_ERROR") >>) \o Flush,
               "text", FALSE, TRUE)

BinaryCommand(msg) ==
    /\ Proto(msg) = "binary"
    /\ LET r == execute_command(config.iface, store, msg, Calm)
       IN  Respond(r.st, r.out, "binary", FALSE, r.rval = "EINTERNAL")

TextCommand(msg) ==
    /\ Proto(msg) = "text" /\ config.iface = 1
    /\ msg.kind = "text" /\ msg.cmd # "piece"
    /\ LET r == process_line(store, msg, conn.mute, Calm)
       IN  Respond(r.st, r.out, "text", r.mute, r.close)

(* Read with the rest of the command, or alone: then the loop of           *)
(* client_work ends and drains.                                            *)
PieceOfText(msg) ==
    /\ Proto(msg) = "text" /\ config.iface = 1
    /\ msg.kind = "text" /\ msg.cmd = "piece"
    /\ \E out \in {<< >>, Flush} :
           Respond(store, out, "text", conn.mute, FALSE)

(* A packet on a connection of the text protocol is a line, if one of its  *)
(* bytes is a newline, and no command.                                     *)
PacketAsText(msg) ==
    /\ Proto(msg) = "text" /\ config.iface = 1 /\ msg.kind = "binary"
    /\ \E out \in {<< >>, usage(store).out} :
           Respond(store, out, "text", FALSE, FALSE)

ServeCommand ==
    /\ conn.open /\ toServer # << >>
    /\ LET msg == Head(toServer)
       IN  \/ RefuseText(msg)
           \/ BinaryCommand(msg)
           \/ TextCommand(msg)
           \/ PieceOfText(msg)
           \/ PacketAsText(msg)
    /\ toServer' = IF conn'.open THEN Tail(toServer) ELSE << >>
    /\ UNCHANGED << config, test, step, kept, stray, verdict, round >>

(* No more input: a socket that does not block lets the loop end.          *)
CanDrain == conn.open /\ toServer = << >> /\ ~config.blocking /\ conn.queued # << >>
DrainOutput ==
    /\ CanDrain
    /\ Respond(store, Flush, conn.proto, conn.mute, FALSE)
    /\ UNCHANGED << config, toServer, test, step, kept, stray, verdict, round >>

(* timeout_io_op gives up when the server has nothing more to say.         *)
Timeout ==
    /\ \E do \in {"read", "closed"} : AtStep(do)
    /\ toClient = << >> /\ conn.open /\ toServer = << >> /\ ~CanDrain
    /\ Fail

Finished ==
    /\ test > Len(testcases) /\ round = Rounds
    /\ UNCHANGED vars

Client ==
    \/ StartTest \/ SkipTest \/ WriteStep \/ Killed \/ ReadStep \/ ReadEnd
    \/ ClosedStep \/ KeysStep \/ EndTest \/ NextRound \/ Timeout
Server == ServeCommand \/ DrainOutput

Next == Client \/ Server \/ Finished

Spec == Init /\ [][Next]_vars

----------------------------------------------------------------------------
(* What memcapable finds missing in the example server.  Interface 0 has   *)
(* no text protocol.  With interface 1 a blocking socket keeps back every  *)
(* reply of the text protocol and the hits of get until the next command;  *)
(* flush does nothing, incr and decr take the text for eight bytes, and    *)
(* "verbosity noreply" is answered.                                        *)
Index(name) == CHOOSE t \in DOMAIN testcases : testcases[t].name = name
Named(names) == {t \in DOMAIN testcases : testcases[t].name \in names}
OfKind(kind) == {t \in DOMAIN testcases : testcases[t].kind = kind}

(* The only thing between the two protocols is the new connection after    *)
(* "ascii stat", or after a test that fails.                               *)
Unseparated ==
    /\ config.iface = 1 /\ ~config.blocking
    /\ verdict[Index("ascii stat")] = "skip"

Gaps ==
    IF config.iface = 0 THEN OfKind("text")
    ELSE Named({"binary flush", "binary flushq"})
           \cup (IF config.blocking
                 THEN OfKind("text")
                        \cup Named({"binary append", "binary appendq",
                                    "binary prepend", "binary prependq"})
                 ELSE Named({"ascii verbosity", "ascii flush",
                             "ascii flush noreply", "ascii incr",
                             "ascii incr noreply", "ascii decr",
                             "ascii decr noreply"}))
           \cup (IF Unseparated THEN Named({"binary noop"}) ELSE {})

(* In its first run memcapable fails exactly the tests of what the example *)
(* server does not do, whatever the order in which the two sides take      *)
(* their turns and whichever test was skipped; with interface 0, whose     *)
(* flush empties the store, so it does in the next run against the same    *)
(* server (testcases and main of memcapable.cc).                           *)
Capable ==
    round = 1 \/ config.iface = 0 =>
        \A t \in DOMAIN testcases :
            verdict[t] \notin {"none", "skip"} =>
                (verdict[t] # "pass" <=> t \in Gaps)

============================================================================
