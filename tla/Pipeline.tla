------------------------------ MODULE Pipeline ------------------------------
(***************************************************************************)
(* One connection and the requests and replies on it: the write buffer and *)
(* io_flush, the purge of old replies, the counter cursor_active_ of the   *)
(* replies that are owed, memcached_vdo, memcached_response, and the calls *)
(* of the API as far as they touch the connection (io.cc, purge.cc, do.cc, *)
(* response.cc, storage.cc, delete.cc, auto.cc, touch.cc, exist.cc,        *)
(* get.cc, fetch.cc, flush_buffers.cc, quit.cc).                           *)
(*                                                                         *)
(* io_flush calls memcached_purge, which calls io_flush and reads replies; *)
(* so the client is a stack of activations, and ok is the value returned   *)
(* by the last one.  A request, or a reply, is one unit of a buffer: what  *)
(* is cut in two by a buffer or by a partial send lies between two units.  *)
(***************************************************************************)
EXTENDS Integers, Sequences, FiniteSetsExt

CONSTANT Clients  \* the uses of a connection: see ClientType

AllCalls ==
    {"set", "add", "delete", "incr", "touch", "exist", "replica_set",
     "replica_delete", "get", "mget", "fetch", "flush_buffers", "quit",
     "version", "flush", "stat", "stat_execute", "dump", "verbosity",
     "mget_all", "fetch_any"}

(* The behaviours of the memcached_st, how it is used, and what it meets:  *)
ClientType ==
    [calls : SUBSET AllCalls,  \* the API calls made
     max_calls : Nat,          \* bound: how many (memcached_fetch apart)
     binary : BOOLEAN,         \* flags.binary_protocol
     buffering : BOOLEAN,      \* flags.buffer_requests
     no_block : BOOLEAN,       \* flags.no_block
     no_reply : BOOLEAN,       \* flags.reply is unset
     servers : Nat \ {0},      \* how many servers there are: see Servers
     homes : Seq(Nat),         \* the servers of the keys that are asked for
     number_of_replicas : Nat,
     randomize : BOOLEAN,      \* flags.randomize_replica_read
     callbacks : BOOLEAN,      \* memcached_mget is memcached_mget_execute
     pending : BOOLEAN,        \* calls are made while replies are unread
     msg_watermark : Nat,      \* io_msg_watermark
     bytes_watermark : Nat,    \* io_bytes_watermark, in requests
     write_room : Nat,         \* MEMCACHED_MAX_BUFFER, in requests
     read_room : Nat,          \* MEMCACHED_MAX_BUFFER, in replies
     wire_room : Nat,          \* what the kernels take of requests
     back_room : Nat,          \* what the kernels take of replies
     timeouts : SUBSET {"send", "read"},  \* waits that may time out
     drops : BOOLEAN]          \* the server may close the connection

(* Replicas and mget_execute are for the binary protocol only, and dump is *)
(* not.  The handle of memcached_verbosity has the settings of a new one.  *)
(* A key is found on one of the servers (memcached_generate_hash).         *)
ASSUME PipelineAssumption ==
    \A c \in Clients :
        /\ c \in ClientType
        /\ \A k \in DOMAIN c.homes : c.homes[k] \in 1 .. c.servers
        /\ c.number_of_replicas > 0 \/ c.callbacks => c.binary
        /\ "dump" \in c.calls => ~c.binary
        /\ "verbosity" \in c.calls =>
              ~(c.binary \/ c.buffering \/ c.no_block \/ c.no_reply)

VARIABLES
    client,    \* which of Clients this is
    fd,        \* fd # INVALID_SOCKET
    peer,      \* the server has not closed its end
    wire,      \* requests sent and not yet read by the server
    back,      \* replies sent and not yet received
    wbuf,      \* write_buffer up to write_buffer_offset
    rbuf,      \* read_buffer from read_ptr on
    bytes,     \* io_bytes_sent, in requests
    cursor,    \* cursor_active_
    purging,   \* state.is_purging
    stack,     \* activations of the client, << >> outside the library
    ok,        \* result of the last activation
    reply,     \* what the last memcached_response read
    call,      \* the API call
    calls,     \* how many were made
    fetching,  \* id of the call whose results memcached_fetch returns, or 0
    version,   \* major_version # UINT8_MAX
    written,   \* requests written on this connection (history)
    received   \* requests the server has read on it (history)

net == << fd, peer, wire, back >>
buffers == << wbuf, rbuf, bytes, cursor >>
known == << version, written, received >>
control == << purging, stack, ok >>
api == << client, reply, call, calls, fetching >>
vars == << net, buffers, known, control, api >>

Kinds == {"plain", "quiet", "unlisted", "get", "mget", "getk", "getkq",
          "noop", "quit", "version", "stat"}
Replicated == client.number_of_replicas > 0
KeyRequest(k, x) == [id |-> call.id, kind |-> k, key |-> x]
Request(k) == KeyRequest(k, 0)
NoRequest == [id |-> 0, kind |-> "plain", key |-> 0]
Reply(r, w) == [id |-> r.id, kind |-> r.kind, key |-> r.key, what |-> w]
Failed == Reply(NoRequest, "FAILED")

-----------------------------------------------------------------------------
(* Activations.                                                            *)

Frame(at) ==
    [at |-> at, todo |-> << >>, left |-> 0, req |-> NoRequest,
     flush |-> FALSE]
Flush == Frame("flush")
Writev(r, f) == [Frame("writev") EXCEPT !.req = r, !.flush = f]

Top == stack[Len(stack)]
Rest == SubSeq(stack, 1, Len(stack) - 1)
At(l) == stack # << >> /\ Top.at = l
Goto(l) == stack' = [stack EXCEPT ![Len(stack)].at = l]
Invoke(l, f) == stack' = Append([stack EXCEPT ![Len(stack)].at = l], f)
Return(v) == stack' = Rest /\ ok' = v

Init ==
    /\ client \in Clients
    /\ fd = FALSE /\ peer = FALSE /\ wire = << >> /\ back = << >>
    /\ wbuf = << >> /\ rbuf = << >> /\ bytes = 0 /\ cursor = 0
    /\ purging = FALSE /\ stack = << >> /\ ok = TRUE
    /\ reply = Failed /\ call = [api |-> "quit", id |-> 0]
    /\ calls = 0 /\ fetching = 0
    /\ version = FALSE /\ written = << >> /\ received = << >>

(* memcached_instance_st::close_socket, by memcached_quit_server or        *)
(* memcached_io_reset: what the kernels hold of the connection is lost.    *)
Close ==
    /\ fd' = FALSE /\ peer' = FALSE /\ wire' = << >> /\ back' = << >>
    /\ wbuf' = << >> /\ rbuf' = << >> /\ bytes' = 0 /\ cursor' = 0
    /\ version' = FALSE /\ written' = << >> /\ received' = << >>

(* memcached_connect: an open connection is used as it is.                 *)
Connect ==
    /\ fd' = TRUE
    /\ peer' = (fd => peer)
    /\ UNCHANGED << wire, back, buffers, known >>

Decrement == IF cursor > 0 THEN cursor - 1 ELSE 0

-----------------------------------------------------------------------------
(* Purging old replies.                                                    *)

PurgeDue ==
    /\ ~purging
    /\ cursor >= client.msg_watermark \/ bytes >= client.bytes_watermark
    /\ bytes >= client.bytes_watermark => cursor >= 2

(* A call of memcached_purge that continues at l.                          *)
Purge(l) ==
    IF PurgeDue
    THEN Invoke(l, Frame("purge")) /\ UNCHANGED ok
    ELSE Goto(l) /\ ok' = TRUE

PurgeStart ==
    /\ At("purge")
    /\ purging' = TRUE
    /\ Invoke("purged", Flush)
    /\ UNCHANGED << net, buffers, known, ok, api >>

(* All replies but one are read once the buffer is flushed.                *)
PurgeFlushed ==
    /\ At("purged")
    /\ \/ /\ ok
          /\ stack' = [stack EXCEPT ![Len(stack)].at = "purge_read",
                                    ![Len(stack)].left = Decrement]
          /\ UNCHANGED << net, buffers, known, purging, ok >>
       \/ /\ ~ok
          /\ Close /\ purging' = FALSE /\ Return(FALSE)
    /\ UNCHANGED api

PurgeEnd ==
    /\ At("purge_read") /\ Top.left = 0
    /\ purging' = FALSE /\ Return(TRUE)
    /\ UNCHANGED << net, buffers, known, api >>

-----------------------------------------------------------------------------
(* Sending.                                                                *)

FlushStart ==
    /\ At("flush")
    /\ Purge("flush_purged")
    /\ UNCHANGED << net, buffers, known, purging, api >>

FlushPurged ==
    /\ At("flush_purged")
    /\ \/ /\ ok
          /\ stack' = [stack EXCEPT ![Len(stack)].at = "send",
                                    ![Len(stack)].todo = wbuf]
          /\ UNCHANGED ok
       \/ ~ok /\ Return(FALSE)
    /\ UNCHANGED << net, buffers, known, purging, api >>

Room == client.wire_room - Len(wire)

(* Fault: the last unit of a partial send is sent again.                   *)
SendAgain ==
    /\ At("send") /\ fd /\ Top.todo # << >> /\ Room > 0
    /\ LET n == Min({Room, Len(Top.todo)}) IN
       /\ wire' = wire \o SubSeq(Top.todo, 1, n)
       /\ bytes' = bytes + n
       /\ stack' = [stack EXCEPT ![Len(stack)].todo =
                      IF n < Len(@) THEN SubSeq(@, n, Len(@)) ELSE << >>]
    /\ UNCHANGED << fd, peer, back, wbuf, rbuf, cursor, known, purging, ok,
                    api >>

(* send takes what there is room for.                                      *)
Send ==
    /\ At("send") /\ fd /\ Top.todo # << >> /\ Room > 0
    /\ LET n == Min({Room, Len(Top.todo)}) IN
       /\ wire' = wire \o SubSeq(Top.todo, 1, n)
       /\ bytes' = bytes + n
       /\ stack' = [stack EXCEPT ![Len(stack)].todo =
                                        SubSeq(@, n + 1, Len(@))]
    /\ UNCHANGED << fd, peer, back, wbuf, rbuf, cursor, known, purging, ok,
                    api >>

(* EPIPE, ECONNRESET, or EBADF when the purge has closed the socket.       *)
SendFails ==
    /\ At("send") /\ Top.todo # << >> /\ ~(fd /\ peer)
    /\ Close /\ Return(FALSE)
    /\ UNCHANGED << purging, api >>

SendDone ==
    /\ At("send") /\ Top.todo = << >>
    /\ wbuf' = << >>
    /\ Return(TRUE)
    /\ UNCHANGED << net, rbuf, bytes, cursor, known, purging, api >>

(* Fault: the last place of the read buffer is not used.                   *)
ReadRoomLeftLess == Min({client.read_room - 1 - Len(rbuf), Len(back)})

ReadRoomLeft == Min({client.read_room - Len(rbuf), Len(back)})

(* EAGAIN: repack_input_buffer reads what there is room for; if there is   *)
(* nothing, process_input_buffer reads a reply for the callbacks; else     *)
(* io_wait purges and polls.                                               *)
SendBlocked ==
    /\ At("send") /\ fd /\ peer /\ Top.todo # << >> /\ Room = 0
    /\ \/ /\ ReadRoomLeft > 0
          /\ rbuf' = rbuf \o SubSeq(back, 1, ReadRoomLeft)
          /\ back' = SubSeq(back, ReadRoomLeft + 1, Len(back))
          /\ UNCHANGED << stack, ok >>
       \/ /\ ReadRoomLeft = 0
          /\ UNCHANGED << back, rbuf >>
          /\ IF client.callbacks /\ call.api = "mget"
             THEN Invoke("input", Frame("reading")) /\ UNCHANGED ok
             ELSE Purge("wait")
    /\ UNCHANGED << fd, peer, wire, wbuf, bytes, cursor, known, purging,
                    api >>

(* The callbacks get the reply, and the send is tried again.               *)
InputProcessed ==
    /\ At("input")
    /\ Goto("send")
    /\ UNCHANGED << net, buffers, known, purging, ok, api >>

(* memcached_io_poll for POLLOUT.                                          *)
Wait ==
    /\ At("wait")
    /\ \/ /\ ok /\ fd /\ (Room > 0 \/ ~peer)
          /\ Goto("send")
          /\ UNCHANGED << net, buffers, known, ok >>
       \/ /\ ok /\ (~fd \/ (Room = 0 /\ "send" \in client.timeouts))
          /\ Return(FALSE)
          /\ UNCHANGED << net, buffers, known >>
       \/ /\ ~ok
          /\ Close /\ Return(FALSE)
    /\ UNCHANGED << purging, api >>

(* memcached_io_writev: the buffer is flushed when it is full, and at the  *)
(* end if the caller asks for it.  It is full from the start when an       *)
(* earlier flush has failed.                                               *)
WriteStart ==
    /\ At("writev") /\ Len(wbuf) < client.write_room
    /\ wbuf' = Append(wbuf, Top.req)
    /\ written' = Append(written, Top.req)
    /\ IF Len(wbuf') = client.write_room
       THEN Invoke("writev_full", Flush) /\ UNCHANGED ok
       ELSE Goto("writev_full") /\ ok' = TRUE
    /\ UNCHANGED << net, rbuf, bytes, cursor, version, received, purging, api >>

WriteFull ==
    /\ \/ At("writev") /\ Len(wbuf) = client.write_room
          /\ Invoke("writev_again", Flush) /\ UNCHANGED ok
       \/ At("writev_again") /\ ok /\ Goto("writev") /\ UNCHANGED ok
       \/ At("writev_again") /\ ~ok /\ Return(FALSE)
    /\ UNCHANGED << net, buffers, known, purging, api >>

WriteEnd ==
    /\ At("writev_full")
    /\ IF ok /\ Top.flush
       THEN stack' = Append(Rest, Flush) /\ UNCHANGED ok
       ELSE Return(ok)
    /\ UNCHANGED << net, buffers, known, purging, api >>

-----------------------------------------------------------------------------
(* Reading.                                                                *)

Reading == At("reading") \/ (At("purge_read") /\ Top.left > 0)

(* _io_fill                                                                *)
Fill ==
    /\ Reading /\ fd /\ rbuf = << >> /\ back # << >>
    /\ rbuf' = SubSeq(back, 1, ReadRoomLeft)
    /\ back' = SubSeq(back, ReadRoomLeft + 1, Len(back))
    /\ bytes' = 0
    /\ UNCHANGED << fd, peer, wire, wbuf, cursor, known, control, api >>

(* The counter is decremented for every reply, and incremented again for   *)
(* the ones that are not the last of their request (binary_stats_fetch     *)
(* does without the counter).                                              *)
CursorAfter(m) ==
    IF m.what = "VALUE" /\ m.kind # "getk" /\ ~(client.binary /\ m.kind = "stat")
    THEN Decrement + 1 ELSE Decrement

ReadOne ==
    /\ rbuf # << >> /\ Head(rbuf).what # "QUIET_ERROR"
    /\ rbuf' = Tail(rbuf)
    /\ cursor' = CursorAfter(Head(rbuf))
    /\ version' = (version \/ Head(rbuf).kind = "version")
    /\ UNCHANGED << net, wbuf, bytes, written, received >>

(* MEMCACHED_FETCH_NOTFINISHED: the error of a quiet command is dropped.   *)
SkipQuietError ==
    /\ Reading /\ rbuf # << >> /\ Head(rbuf).what = "QUIET_ERROR"
    /\ rbuf' = Tail(rbuf)
    /\ UNCHANGED << net, wbuf, bytes, cursor, known, control, api >>

PurgeRead ==
    /\ At("purge_read") /\ Top.left > 0
    /\ ReadOne
    /\ stack' = [stack EXCEPT ![Len(stack)].left = @ - 1]
    /\ UNCHANGED << purging, ok, api >>

(* Fault: one old reply is left.                                           *)
JunkButOne == ~client.binary /\ cursor > 2

(* With the text protocol the replies of earlier requests are thrown away. *)
Junk == ~client.binary /\ cursor > 1

JunkRead ==
    /\ At("reading") /\ Junk
    /\ ReadOne
    /\ UNCHANGED << control, api >>

ResponseRead ==
    /\ At("reading") /\ ~Junk
    /\ ReadOne
    /\ reply' = Head(rbuf)
    /\ Return(TRUE)
    /\ UNCHANGED << purging, call, client, calls, fetching >>

(* Fault: a timeout leaves the connection open.                            *)
ReadLostOpen ==
    /\ Reading /\ rbuf = << >> /\ back = << >>
    /\ ~fd \/ ~peer \/ "read" \in client.timeouts
    /\ UNCHANGED << net, buffers, known >>

ReadLost ==
    /\ Reading /\ rbuf = << >> /\ back = << >>
    /\ ~fd \/ ~peer \/ "read" \in client.timeouts
    /\ Close

(* The timeout or the end of file is fatal and closes the connection.      *)
ResponseFails ==
    /\ At("reading") /\ ReadLost
    /\ reply' = Failed
    /\ Return(FALSE)
    /\ UNCHANGED << purging, call, client, calls, fetching >>

(* So it is here, and every other reply fails; but only a failure in the   *)
(* middle of a reply (UNKNOWN_READ_FAILURE) is reported.                   *)
PurgeFails ==
    /\ At("purge_read") /\ Top.left > 0 /\ ReadLost
    /\ purging' = FALSE
    /\ \E reported \in BOOLEAN : Return(~reported)
    /\ UNCHANGED api

(* memcached_response                                                      *)
Response ==
    /\ At("response")
    /\ IF client.no_block THEN Invoke("reading", Flush) ELSE Goto("reading")
    /\ UNCHANGED << net, buffers, known, purging, ok, api >>

-----------------------------------------------------------------------------
(* The calls of the API.                                                   *)

(* What a call sends: a request that is always answered, one that is       *)
(* answered on errors only, or one whose errors are not in the list of     *)
(* binary_read_one_response.                                               *)
StorageKind == IF client.no_reply THEN "quiet" ELSE "plain"

DeleteKind ==
    IF ~client.no_reply THEN "plain"
    ELSE IF client.binary THEN "unlisted" ELSE "quiet"

IncrKind == DeleteKind

Kind(c) ==
    CASE c \in {"set", "add"} -> StorageKind
      [] c = "delete" -> DeleteKind
      [] c = "incr" -> IncrKind
      [] c \in {"touch", "exist"} -> "plain"
      [] c = "replica_set" -> "quiet"
      [] c = "replica_delete" -> "unlisted"
      [] c = "quit" -> "quit"

(* Of the storage commands only "set" is buffered; "add" stands for the    *)
(* others.                                                                 *)
Flushes(c) ==
    /\ c # "replica_set"
    /\ c \in {"set", "delete", "replica_delete"} => ~client.buffering

Responds(c) ==
    \/ c \in {"touch", "exist"}
    \/ c \in {"set", "add", "delete", "incr"} /\ Flushes(c) /\ ~client.no_reply

(* A call of the program, with no reply to earlier ones unread unless this *)
(* client does so or it quits.  The results of an earlier memcached_mget   *)
(* are fetched up to the next call.                                        *)
StartCall(c, l) ==
    /\ stack = << >>
    /\ c \in client.calls /\ calls < client.max_calls
    /\ client.pending \/ cursor = 0 \/ c = "quit"
    /\ call' = [api |-> c, id |-> calls + 1]
    /\ calls' = calls + 1
    /\ fetching' = 0
    /\ stack' = << Frame(l) >>
    /\ UNCHANGED << client, purging, ok, reply >>

Start(c, l) == StartCall(c, l) /\ UNCHANGED << net, buffers, known >>

StartStorage == \E c \in {"set", "add", "replica_set"} : Start(c, "vdo")
StartDelete == \E c \in {"delete", "replica_delete"} : Start(c, "vdo")
StartIncr == Start("incr", "vdo")
StartTouch == Start("touch", "vdo")
StartExist == Start("exist", "vdo")
StartGet == \E c \in {"get", "mget"} : Start(c, "drain")
StartFlushBuffers == Start("flush_buffers", "buffers")
StartQuit == Start("quit", "quit")

StartFetch ==
    /\ stack = << >>
    /\ "fetch" \in client.calls /\ fetching # 0
    /\ call' = [api |-> "fetch", id |-> fetching]
    /\ stack' = << Frame("fetch") >>
    /\ UNCHANGED << net, buffers, known, purging, ok, reply, client, calls,
                    fetching >>

End(v) == Return(v) /\ UNCHANGED << purging, reply, call, client, calls >>

VdoRequest ==
    IF Top.req = NoRequest THEN Request(Kind(call.api)) ELSE Top.req

(* memcached_vdo, which may fail to connect.                               *)
Vdo ==
    /\ At("vdo")
    /\ \/ /\ Connect
          /\ Invoke("vdo_sent", Writev(VdoRequest, Flushes(call.api)))
          /\ UNCHANGED << purging, ok, reply, call, client, calls >>
       \/ /\ ~fd
          /\ End(FALSE)
          /\ UNCHANGED << net, buffers, known >>
    /\ UNCHANGED fetching

(* The counter of a replica is decremented at once, as it will not answer. *)
CursorSent ==
    CASE call.api \in {"replica_set", "replica_delete"} ->
             IF client.no_reply THEN Decrement ELSE cursor
      [] OTHER -> IF client.no_reply THEN cursor ELSE cursor + 1

VdoSent ==
    /\ At("vdo_sent")
    /\ \/ /\ ~ok
          /\ Close /\ End(FALSE)
       \/ /\ ok
          /\ cursor' = CursorSent
          /\ IF Responds(call.api)
             THEN /\ Invoke("answered", Frame("response"))
                  /\ UNCHANGED << purging, ok, reply, call, client, calls >>
             ELSE End(TRUE)
          /\ UNCHANGED << net, wbuf, rbuf, bytes, known >>
    /\ UNCHANGED fetching

Answered ==
    /\ At("answered") \/ At("flushed")
    /\ End(ok)
    /\ UNCHANGED << net, buffers, known, fetching >>

(* memcached_flush_buffers: a failure is reported, and nothing more.       *)
FlushBuffers ==
    /\ At("buffers")
    /\ IF wbuf # << >>
       THEN /\ Invoke("flushed", Flush)
            /\ UNCHANGED << purging, ok, reply, call, client, calls >>
       ELSE End(TRUE)
    /\ UNCHANGED << net, buffers, known, fetching >>

(* Before a get the replies that are owed are read, whatever they are.     *)
Drain ==
    /\ At("drain")
    /\ IF cursor > 0 /\ (client.no_block \/ client.buffering)
       THEN Invoke("draining", Flush)
       ELSE Goto("draining")
    /\ UNCHANGED << net, buffers, known, purging, ok, api >>

Draining ==
    /\ At("draining")
    /\ IF cursor > 0
       THEN Invoke("draining", Frame("response"))
       ELSE stack' = [stack EXCEPT ![Len(stack)].at = "keys",
                                   ![Len(stack)].left = 2]
    /\ UNCHANGED << net, buffers, known, purging, ok, api >>

(* One request for all keys with the text protocol; with the binary one    *)
(* GETK for a get, GETKQ for each of two keys and a NOOP for an mget.      *)
GetRequest ==
    IF ~client.binary THEN Request(call.api) ELSE
    IF call.api = "get" THEN Request("getk") ELSE Request("getkq")

LastKey == Top.left = 1 \/ ~client.binary \/ call.api = "get"

GetKey ==
    /\ At("keys")
    /\ \/ /\ Connect
          /\ Invoke("key_sent",
                    Writev(GetRequest, client.binary /\ call.api = "get"))
          /\ UNCHANGED << purging, ok, reply, call, client, calls >>
       \/ /\ ~fd
          /\ End(FALSE)
          /\ UNCHANGED << net, buffers, known >>
    /\ UNCHANGED fetching

(* A key that cannot be sent leaves the connection as it is, except with   *)
(* replicas.                                                               *)
GetKeySent ==
    /\ At("key_sent")
    /\ IF ok \/ ~Replicated
       THEN /\ cursor' = IF ok THEN 1 ELSE 0
            /\ UNCHANGED << net, wbuf, rbuf, bytes, known >>
       ELSE Close
    /\ \/ /\ ~LastKey
          /\ stack' = [stack EXCEPT ![Len(stack)].at = "keys",
                                    ![Len(stack)].left = @ - 1]
          /\ UNCHANGED << purging, ok, reply, call, client, calls >>
       \/ /\ LastKey /\ ok
          /\ IF client.binary /\ call.api = "get"
             THEN Goto("got")
             ELSE Invoke(IF client.binary THEN "noop" ELSE "got", Flush)
          /\ UNCHANGED << purging, ok, reply, call, client, calls >>
       \/ /\ LastKey /\ ~ok
          /\ End(FALSE)
    /\ UNCHANGED fetching

GetNoop ==
    /\ At("noop") \/ At("noop_sent")
    /\ \/ /\ ok
          /\ IF At("noop")
             THEN Invoke("noop_sent", Writev(Request("noop"), TRUE))
             ELSE Goto("got")
          /\ UNCHANGED << net, buffers, known, purging, ok, reply, call,
                          client, calls >>
       \/ /\ ~ok
          /\ Close /\ End(FALSE)
    /\ UNCHANGED fetching

Got ==
    /\ At("got")
    /\ \/ /\ ok
          /\ fetching' = call.id
          /\ IF call.api = "get"
             THEN /\ Goto("fetch")
                  /\ UNCHANGED << purging, ok, reply, call, client, calls >>
             ELSE End(TRUE)
       \/ ~ok /\ End(FALSE) /\ UNCHANGED fetching
    /\ UNCHANGED << net, buffers, known >>

(* memcached_fetch_result: memcached_io_get_readable_server finds the      *)
(* server if there is data in its buffer or a reply is owed.               *)
Fetch ==
    /\ At("fetch")
    /\ IF rbuf # << >> \/ cursor > 0
       THEN /\ Invoke("fetched", Frame("response"))
            /\ UNCHANGED << purging, ok, api >>
       ELSE End(FALSE) /\ fetching' = 0
    /\ UNCHANGED << net, buffers, known >>

Fetched ==
    /\ At("fetched")
    /\ \/ /\ reply.what = "VALUE"
          /\ End(TRUE)
          /\ fetching' = IF call.api = "get" THEN 0 ELSE fetching
          /\ UNCHANGED cursor
       \/ /\ reply.what \in {"END", "NOTFOUND", "FAILED"}
          /\ cursor' = IF reply.what = "END" THEN 0 ELSE cursor
          /\ Goto("fetch")
          /\ UNCHANGED << purging, ok, api >>
       \/ /\ reply.what = "ANSWER"
          /\ End(FALSE)
          /\ fetching' = 0
          /\ UNCHANGED cursor
    /\ UNCHANGED << net, wbuf, rbuf, bytes, known >>

(* memcached_quit_server: "quit" is sent, and with buffered requests or    *)
(* replicas the replies are read.                                          *)
Quit ==
    /\ At("quit")
    /\ IF fd
       THEN /\ Invoke("quit_sent", Writev(Request("quit"), TRUE))
            /\ UNCHANGED << net, buffers, known, ok >>
       ELSE Close /\ Return(TRUE)
    /\ UNCHANGED << purging, api >>

Slurps == At("quit_sent") /\ ok /\ (client.buffering \/ Replicated)

(* memcached_io_slurp reads while there is something to read, and waits.   *)
Slurp ==
    /\ Slurps /\ (back # << >> \/ peer)
    /\ IF back # << >> THEN UNCHANGED stack ELSE Goto("slurp_wait")
    /\ back' = << >>
    /\ UNCHANGED << fd, peer, wire, buffers, known, purging, ok, api >>

(* The continue after the wait leaves the loop, as recv returned -1.       *)
SlurpEnds ==
    \/ Slurps /\ back = << >> /\ ~peer
    \/ /\ At("slurp_wait")
       /\ back # << >> \/ ~peer \/ "read" \in client.timeouts

QuitEnd ==
    /\ (At("quit_sent") /\ ~Slurps) \/ SlurpEnds
    /\ Close /\ Return(TRUE)
    /\ UNCHANGED << purging, api >>

-----------------------------------------------------------------------------
(* The server.                                                             *)

Answers(r) ==
    LET R(w) == Reply(r, w) IN
    CASE r.kind = "plain" -> {<< R("ANSWER") >>}
      [] r.kind = "quiet" -> {<< >>} \union
             (IF client.binary THEN {<< R("QUIET_ERROR") >>} ELSE {})
      [] r.kind = "unlisted" -> {<< >>, << R("ANSWER") >>}
      [] r.kind = "version" -> {<< R("ANSWER") >>}
      [] r.kind = "stat" ->
             {<< R("ANSWER") >>, << R("END") >>, << R("VALUE"), R("END") >>}
      [] r.kind = "get" -> {<< R("END") >>, << R("VALUE"), R("END") >>}
      [] r.kind = "mget" ->
             {<< R("END") >>, << R("VALUE"), R("VALUE"), R("END") >>}
      [] r.kind = "getk" -> {<< R("VALUE") >>, << R("NOTFOUND") >>}
      [] r.kind = "getkq" -> {<< >>, << R("VALUE") >>}
      [] r.kind = "noop" -> {<< R("END") >>}
      [] r.kind = "quit" -> {<< >>}

Serve ==
    /\ fd /\ peer /\ wire # << >>
    /\ \E a \in Answers(Head(wire)) :
          /\ Len(back) + Len(a) <= client.back_room
          /\ back' = back \o a
    /\ received' = Append(received, Head(wire))
    /\ peer' = (Head(wire).kind # "quit")
    /\ wire' = Tail(wire)
    /\ UNCHANGED << fd, buffers, version, written, control, api >>

(* The server goes away; what it has sent may be lost or not.              *)
Drop ==
    /\ client.drops /\ fd /\ peer
    /\ peer' = FALSE
    /\ wire' = << >>
    /\ back' \in {back, << >>}
    /\ UNCHANGED << fd, buffers, known, control, api >>

-----------------------------------------------------------------------------
Begin ==
    \/ StartStorage \/ StartDelete \/ StartIncr \/ StartTouch \/ StartExist
    \/ StartGet \/ StartFetch \/ StartFlushBuffers \/ StartQuit

Step ==
    \/ PurgeStart \/ PurgeFlushed \/ PurgeRead \/ PurgeFails \/ PurgeEnd
    \/ FlushStart \/ FlushPurged
    \/ Send \/ SendFails \/ SendDone \/ SendBlocked \/ InputProcessed \/ Wait
    \/ WriteStart \/ WriteFull \/ WriteEnd
    \/ Fill \/ SkipQuietError \/ JunkRead \/ ResponseRead \/ ResponseFails
    \/ Response
    \/ Vdo \/ VdoSent \/ Answered \/ FlushBuffers
    \/ Drain \/ Draining \/ GetKey \/ GetKeySent \/ GetNoop \/ Got
    \/ Fetch \/ Fetched
    \/ Quit \/ Slurp \/ QuitEnd

(* The program makes no further call.                                      *)
Done == stack = << >> /\ UNCHANGED vars

Next == Begin \/ Step \/ Serve \/ Drop \/ Done

Spec == Init /\ [][Next]_vars

(* A call in progress goes on, and the server answers what it has read.    *)
FairSpec == Spec /\ WF_vars(Step) /\ WF_vars(Serve)

-----------------------------------------------------------------------------
(* A flush that times out forgets what it has sent (io.cc:347): the next   *)
(* one sends it again, and is answered twice.                              *)
SendsInTime == "send" \notin client.timeouts

(* The reply a call takes for its own is the reply to its own request,     *)
(* whatever was buffered, purged, thrown away or, unless it was a flush,   *)
(* timed out before.  (memcached_version only collects what is owed.)      *)
ReplyMatches ==
    SendsInTime /\ stack # << >> /\ reply # Failed
      /\ Top.at \in {"answered", "fetched", "input", "each_got", "dump_got",
                    "fetch_got"}
    => reply.id = call.id

(* The server gets the requests in the order in which they were written,   *)
(* each at most once: as long as no flush times out, no partial send is    *)
(* repeated.                                                               *)
SentOnce ==
    SendsInTime /\ fd /\ peer =>
       \E n \in 0 .. Len(written) : received \o wire = SubSeq(written, 1, n)

(* No circular wait: while the client polls for room to send, the server   *)
(* can answer what it has, although nobody reads its replies.              *)
NoFlowDeadlock ==
    SendsInTime /\ At("wait") /\ ok /\ fd /\ peer /\ Room = 0
        => \E a \in Answers(Head(wire)) :
               Len(back) + Len(a) <= client.back_room

(* Every call returns.                                                     *)
CallEnds == stack # << >> ~> stack = << >>
=============================================================================
