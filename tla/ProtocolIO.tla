---------------------------- MODULE ProtocolIO -----------------------------
(***************************************************************************)
(* The connections of a server built on libmemcachedprotocol: its event    *)
(* loop (memcached_light.cc), memcached_protocol_client_work and the       *)
(* output chunks (handler.c), the loops that cut the input into commands   *)
(* (binary_handler.c, ascii_handler.c) and the cache the chunks come from  *)
(* (cache.c).                                                              *)
(*                                                                         *)
(* Input and output are sequences of units << command, part >>.  A "set"   *)
(* has three units: with the second the line or the header is complete,    *)
(* with the third the data.  The other commands are one unit.  A reply is  *)
(* the unit 1, a hit of get its header and its value.  One thread serves   *)
(* all clients, and reads for all of them into one buffer.                 *)
(***************************************************************************)
EXTENDS Integers, Sequences, FiniteSets, FiniteSetsExt

CONSTANTS
    Clients,
    Kinds,          \* of commands: "set", "get", "getbig", "quit"
    MaxCommands,    \* of each client
    ChunkSize,      \* CHUNK_BUFFERSIZE, in units
    SockSize,       \* what a socket takes before its peer reads
    PoolSize,       \* initial_pool_size of the cache
    MaxConns,       \* connections the server accepts
    Settings        \* interface, sockets that block, commands that arrive whole

ASSUME ProtocolIOAssumption ==
    /\ MaxCommands \in [Clients -> Nat]
    /\ {ChunkSize, SockSize, PoolSize, MaxConns} \subseteq Nat \ {0}
    /\ Kinds \subseteq {"set", "get", "getbig", "quit"}
    /\ Settings \subseteq
           [iface : {0, 1}, blocking : BOOLEAN, whole : BOOLEAN]

VARIABLES
    config,     \* one of Settings, with the protocol of each client
    conn,       \* the server's side of each connection
    cache,      \* buffer_cache
    busy,       \* the client in memcached_protocol_client_work
    cmds,       \* the commands each client has written
    wire,       \* units on their way to the server
    end         \* "fin" or "reset": the client has closed its side

vars == << config, conn, cache, busy, cmds, wire, end >>

Nobody == "nobody"

(* status; work: the protocol is known; saved: input_buffer of the client; *)
(* output: the chunks; room: units the socket takes.  The rest is history: *)
(* units sent, commands executed, and what has upset the streams.          *)
NewConn ==
    [status |-> "new", work |-> FALSE, saved |-> << >>, output |-> << >>,
     room |-> SockSize, sent |-> << >>, done |-> << >>, upset |-> {}]

Init ==
    /\ \E s \in Settings, p \in [Clients -> {"binary", "text"}] :
           config = [iface |-> s.iface, blocking |-> s.blocking,
                     whole |-> s.whole, proto |-> p]
    /\ conn = [c \in Clients |-> NewConn]
    /\ cache = [free |-> << >>, total |-> PoolSize, made |-> 0]
    /\ busy = Nobody
    /\ cmds = [c \in Clients |-> << >>]
    /\ wire = [c \in Clients |-> << >>]
    /\ end = [c \in Clients |-> "no"]

(***************************************************************************)
(* The cache: a stack of free buffers, which are numbers here.             *)
(***************************************************************************)
cache_alloc(k) ==
    IF k.free # << >>
    THEN [cache |-> [k EXCEPT !.free = SubSeq(@, 1, Len(@) - 1)],
          buffer |-> k.free[Len(k.free)]]
    ELSE [cache |-> [k EXCEPT !.made = @ + 1], buffer |-> k.made + 1]

(* The array doubles when it is full.                                      *)
cache_free(k, buffer) ==
    [k EXCEPT !.free = Append(@, buffer),
              !.total = IF Len(k.free) < k.total THEN @ ELSE 2 * @]

(***************************************************************************)
(* Output.  w is a client at work: its connection, the cache, and whether  *)
(* the connection is to be closed.                                         *)
(***************************************************************************)
At(c) == [conn |-> conn[c], cache |-> cache, close |-> FALSE,
          gone |-> end[c] = "reset"]

(* What one send takes of n units; a blocking one waits for the peer.      *)
Accepts(w, n) ==
    IF config.blocking \/ n < w.conn.room THEN n ELSE w.conn.room

Sent(w, units) ==
    [w EXCEPT !.conn.sent = @ \o units,
              !.conn.room = IF config.blocking THEN @ ELSE @ - Len(units)]

Upset(w, how) == [w EXCEPT !.conn.upset = @ \cup {how}]

(* Fault: the chunk goes back to the cache and stays in the list.          *)
RECURSIVE drain_output_keeps(_)
drain_output_keeps(w) ==
    IF w.conn.output = << >> THEN w
    ELSE LET units == Head(w.conn.output).data
         IN  [Sent(w, units) EXCEPT
                 !.cache = cache_free(w.cache, Head(w.conn.output).buffer)]

(* drain_output: chunk after chunk until the socket takes no more.         *)
RECURSIVE drain_output(_)
drain_output(w) ==
    IF w.conn.output = << >> THEN w
    ELSE IF w.gone THEN [w EXCEPT !.close = TRUE]
    ELSE LET chunk == Head(w.conn.output)
             rest == SubSeq(chunk.data, chunk.offset + 1, Len(chunk.data))
             n == Accepts(w, Len(rest))
             w1 == Sent(w, SubSeq(rest, 1, n))
         IN  IF n = 0 THEN Upset(w, "full")
             ELSE IF n = Len(rest)
             THEN drain_output([w1 EXCEPT !.conn.output = Tail(@),
                                          !.cache = cache_free(@, chunk.buffer)])
             ELSE drain_output([w1 EXCEPT !.conn.output[1].offset = @ + n])

(* allocate_output_chunk: at the tail.                                     *)
allocate_output_chunk(w) ==
    LET a == cache_alloc(w.cache)
    IN  [w EXCEPT !.cache = a.cache,
                  !.conn.output = Append(@, [buffer |-> a.buffer,
                                             data |-> << >>, offset |-> 0])]

(* The loop of spool_output at chunk i, 0 for NULL.  Every chunk gets the  *)
(* beginning of the data: the source of the copy does not move on.         *)
RECURSIVE SpoolLoop(_, _, _, _)
SpoolLoop(w, i, data, offset) ==
    IF offset >= Len(data) THEN w
    ELSE LET fresh == i = 0 \/ Len(w.conn.output[i].data) = ChunkSize
             w1 == IF fresh THEN allocate_output_chunk(w) ELSE w
             j == IF fresh THEN Len(w1.conn.output) ELSE i
             space == ChunkSize - Len(w1.conn.output[j].data)
             bulk == IF Len(data) - offset > space THEN space
                     ELSE Len(data) - offset
             w2 == [w1 EXCEPT !.conn.output[j].data = @ \o SubSeq(data, 1, bulk)]
         IN  SpoolLoop(IF offset > 0 THEN Upset(w2, "crossed") ELSE w2,
                       j, data, offset + bulk)

(* spool_output starts at the first chunk, not at the last.                *)
spool_output(w, data) ==
    SpoolLoop(w, IF w.conn.output = << >> THEN 0 ELSE 1, data, 0)

(* Fault: written to the socket ahead of what is queued.                   *)
binary_raw_response_ahead(w, data) ==
    IF w.gone THEN [w EXCEPT !.close = TRUE] ELSE Sent(w, data)

(* binary_raw_response_handler: a reply that is sent in part is spooled    *)
(* from its beginning.                                                     *)
binary_raw_response(w, data) ==
    LET w1 == drain_output(w)
        n == Accepts(w1, Len(data))
    IN  IF w1.close THEN w1
        ELSE IF w1.conn.output # << >> THEN spool_output(w1, data)
        ELSE IF w1.gone THEN [w1 EXCEPT !.close = TRUE]
        ELSE IF n = Len(data) THEN Sent(w1, data)
        ELSE spool_output(Upset(Sent(w1, SubSeq(data, 1, n)), "full"),
                          SubSeq(data, 1, Len(data) - n))

(* A failure to drain is not looked at by the callers.                     *)
ascii_raw_response(w, data) ==
    LET w1 == drain_output(w)
    IN  IF w1.close THEN [w1 EXCEPT !.close = FALSE] ELSE spool_output(w1, data)

(***************************************************************************)
(* Commands.                                                               *)
(***************************************************************************)
Units(id, kind) ==
    IF kind = "set" THEN << << id, 1 >>, << id, 2 >>, << id, 3 >> >>
    ELSE << << id, 1 >> >>

(* The pieces a reply is made of.                                          *)
Value(id, kind) ==
    IF kind = "getbig" THEN << << id, 2 >>, << id, 3 >> >>
    ELSE << << id, 2 >> >>
IsGet(kind) == kind \in {"get", "getbig"}
Pieces(c, id, kind) ==
    IF IsGet(kind)
    THEN << << << id, 1 >> >>, Value(id, kind) >>
           \o (IF config.proto[c] = "text" THEN << << << id, 4 >> >> >> ELSE << >>)
    ELSE IF kind = "quit" /\ config.proto[c] = "text" THEN << >>
    ELSE << << << id, 1 >> >> >>

RECURSIVE Joined(_)
Joined(pieces) ==
    IF pieces = << >> THEN << >> ELSE Head(pieces) \o Joined(Tail(pieces))

RECURSIVE SpoolAll(_, _)
SpoolAll(w, pieces) ==
    IF pieces = << >> THEN w
    ELSE SpoolAll(spool_output(w, Head(pieces)), Tail(pieces))

(* Interface 1 queues hits; quit ends in an error event.                   *)
Execute(w, c, id) ==
    LET kind == cmds[c][id]
        pieces == Pieces(c, id, kind)
        w1 == [w EXCEPT !.conn.done = Append(@, id)]
        w2 == IF IsGet(kind) /\ config.iface = 1 THEN SpoolAll(w1, pieces)
              ELSE IF config.proto[c] = "binary"
              THEN binary_raw_response(w1, Joined(pieces))
              ELSE IF kind = "quit" THEN w1
              ELSE ascii_raw_response(w1, Joined(pieces))
    IN  IF kind = "quit" THEN [w2 EXCEPT !.close = TRUE] ELSE w2

(* The commands at the beginning of buf that are there as a whole.         *)
Need(c, buf) == Len(Units(buf[1][1], cmds[c][buf[1][1]]))

(* Fault: a command is executed when its header is there.                  *)
RECURSIVE process_data_early(_, _, _)
process_data_early(w, c, buf) ==
    IF w.close \/ buf = << >> \/ Len(buf) < Need(c, buf) - 1
    THEN [w |-> w, rest |-> buf]
    ELSE process_data_early(Execute(w, c, buf[1][1]), c,
                            SubSeq(buf, Need(c, buf) + 1, Len(buf)))

RECURSIVE process_data(_, _, _)
process_data(w, c, buf) ==
    IF w.close \/ buf = << >> \/ Len(buf) < Need(c, buf)
    THEN [w |-> w, rest |-> buf]
    ELSE process_data(Execute(w, c, buf[1][1]), c,
                      SubSeq(buf, Need(c, buf) + 1, Len(buf)))

Garbage == << << 0, 0 >> >>

(* What client_work saves of rest, which begins at endptr.  The binary     *)
(* loop sets endptr only after a command: before, it is whatever the stack *)
(* holds.  The text loop leaves it at the beginning of the buffer when a   *)
(* storage command lacks data, after other commands too.                   *)
Kept(c, buf, rest) ==
    IF config.proto[c] = "binary"
    THEN IF rest = buf THEN {rest, Garbage} ELSE {rest}
    ELSE IF rest # buf /\ Len(rest) >= 2 THEN {Garbage} ELSE {rest}

(***************************************************************************)
(* The server.                                                             *)
(***************************************************************************)
Open(c) == conn[c].status = "open"
Conns == {c \in Clients : Open(c)}

(* accept_handler: descriptors are reused, so the number of connections    *)
(* stands for the descriptor that is compared with maxconns.               *)
Accept(c) ==
    /\ busy = Nobody /\ conn[c].status = "new"
    /\ conn' = [conn EXCEPT ![c].status =
                    IF Cardinality(Conns) >= MaxConns THEN "closed" ELSE "open"]
    /\ UNCHANGED << config, cache, busy, cmds, wire, end >>

(* The event loop calls drive_client: there is something to read.  The     *)
(* wish to write is never expressed.                                       *)
StartWork(c) ==
    /\ busy = Nobody /\ Open(c)
    /\ wire[c] # << >> \/ end[c] # "no"
    /\ busy' = c
    /\ UNCHANGED << config, conn, cache, cmds, wire, end >>

(* memcached_protocol_client_destroy: chunks that are queued stay          *)
(* allocated.                                                              *)
Update(c, w) ==
    /\ conn' = [conn EXCEPT ![c] =
                    IF w.close THEN [w.conn EXCEPT !.status = "closed",
                                                   !.output = << >>,
                                                   !.saved = << >>]
                    ELSE w.conn]
    /\ cache' = w.cache

(* The loop has ended without an error: drain, and back to the event loop. *)
Leave(c, w) ==
    /\ Update(c, drain_output(w))
    /\ busy' = Nobody

Failed(c, w) ==
    /\ Update(c, [w EXCEPT !.close = TRUE])
    /\ busy' = Nobody

(* determine_protocol, with nothing to offer for text.                     *)
Unsupported(c) == config.proto[c] = "text" /\ config.iface = 0

Reads(c) == IF config.whole THEN {Len(wire[c])} ELSE 1..Len(wire[c])

(* One turn of the loop of client_work that reads something.               *)
Receive(c) ==
    /\ busy = c /\ wire[c] # << >> /\ "garbled" \notin conn[c].upset
    /\ \E n \in Reads(c) :
         LET buf == conn[c].saved \o SubSeq(wire[c], 1, n)
             w0 == [At(c) EXCEPT !.conn.saved = << >>, !.conn.work = TRUE]
             p == process_data(w0, c, buf)
         IN  /\ wire' = [wire EXCEPT ![c] = SubSeq(@, n + 1, Len(@))]
             /\ IF Unsupported(c)
                THEN Failed(c, drain_output(spool_output(w0, << << 0, 1 >> >>)))
                ELSE IF p.w.close THEN Failed(c, p.w)
                ELSE IF p.rest = << >> THEN Update(c, p.w) /\ UNCHANGED busy
                ELSE \E kept \in Kept(c, buf, p.rest) :
                       LET w == [p.w EXCEPT !.conn.saved = kept]
                       IN  Leave(c, IF kept = p.rest THEN w
                                    ELSE Upset(w, "garbled"))
    /\ UNCHANGED << config, cmds, end >>

(* Behind bytes that are not the client's comes an error, or nothing that  *)
(* makes sense.                                                            *)
ReceiveGarbled(c) ==
    /\ busy = c /\ wire[c] # << >> /\ "garbled" \in conn[c].upset
    /\ wire' = [wire EXCEPT ![c] = << >>]
    /\ Failed(c, At(c)) \/ Leave(c, At(c))
    /\ UNCHANGED << config, cmds, end >>

(* recv gives EWOULDBLOCK.                                                 *)
WouldBlock(c) ==
    /\ busy = c /\ wire[c] = << >> /\ end[c] = "no" /\ ~config.blocking
    /\ Leave(c, At(c))
    /\ UNCHANGED << config, cmds, wire, end >>

(* recv gives 0, or an error.                                              *)
Ended(c) ==
    /\ busy = c /\ wire[c] = << >> /\ end[c] # "no"
    /\ Failed(c, IF end[c] = "fin" THEN drain_output(At(c)) ELSE At(c))
    /\ UNCHANGED << config, cmds, wire, end >>

Server == \E c \in Clients :
    \/ Accept(c) \/ StartWork(c) \/ Receive(c) \/ ReceiveGarbled(c)
    \/ WouldBlock(c) \/ Ended(c)

(***************************************************************************)
(* The clients.                                                            *)
(***************************************************************************)
WriteCommand(c) ==
    /\ end[c] = "no" /\ Len(cmds[c]) < MaxCommands[c]
    /\ \A i \in DOMAIN cmds[c] : cmds[c][i] # "quit"
    /\ \E kind \in Kinds :
         /\ cmds' = [cmds EXCEPT ![c] = Append(@, kind)]
         /\ wire' = [wire EXCEPT ![c] = @ \o Units(Len(cmds[c]) + 1, kind)]
    /\ UNCHANGED << config, conn, cache, busy, end >>

ReadReply(c) ==
    /\ conn[c].room < SockSize
    /\ conn' = [conn EXCEPT ![c].room = @ + 1]
    /\ UNCHANGED << config, cache, busy, cmds, wire, end >>

(* A reset takes away what has not been read.                              *)
Close(c) ==
    /\ end[c] = "no"
    /\ \/ end' = [end EXCEPT ![c] = "fin"] /\ UNCHANGED wire
       \/ /\ end' = [end EXCEPT ![c] = "reset"]
          /\ wire' = [wire EXCEPT ![c] = << >>]
    /\ UNCHANGED << config, conn, cache, busy, cmds >>

Next ==
    \/ Server
    \/ \E c \in Clients : WriteCommand(c) \/ ReadReply(c) \/ Close(c)

Spec == Init /\ [][Next]_vars

----------------------------------------------------------------------------
RECURSIVE RepliesTo(_, _)
RepliesTo(c, ids) ==
    IF ids = << >> THEN << >>
    ELSE Joined(Pieces(c, Head(ids), cmds[c][Head(ids)]))
           \o RepliesTo(c, Tail(ids))
Expected(c) == RepliesTo(c, conn[c].done)

RECURSIVE UnitsFrom(_, _)
UnitsFrom(c, id) ==
    IF id > Len(cmds[c]) THEN << >>
    ELSE Units(id, cmds[c][id]) \o UnitsFrom(c, id + 1)

(* Whatever the input is cut into, each client's commands are executed     *)
(* once and in order, and what is saved for it and still to come is        *)
(* exactly the rest of them, though all share one buffer; unless what was  *)
(* saved was garbled, which commands that arrive whole never are           *)
(* (client_work and the two process_data).                                 *)
StreamKept ==
    \A c \in Clients :
        /\ config.whole => "garbled" \notin conn[c].upset
        /\ Open(c) /\ "garbled" \notin conn[c].upset /\ end[c] # "reset" =>
             /\ conn[c].done = [i \in 1..Len(conn[c].done) |-> i]
             /\ conn[c].saved \o wire[c] = UnitsFrom(c, Len(conn[c].done) + 1)

Prefix(s, t) == Len(s) <= Len(t) /\ s = SubSeq(t, 1, Len(s))

(* A client is sent the replies to its commands, whole and in order, and   *)
(* with sockets that do not block it has all of them when the server turns *)
(* to another client or waits; as long as no piece of a reply had to be    *)
(* divided between chunks and the socket never refused anything            *)
(* (drain_output, spool_output and binary_raw_response_handler).           *)
InOrder ==
    \A c \in Clients :
        conn[c].upset = {} /\ ~Unsupported(c) =>
            /\ Prefix(conn[c].sent, Expected(c))
            /\ Open(c) /\ busy # c /\ ~config.blocking =>
                   conn[c].sent = Expected(c)

Chunks(c) == {conn[c].output[i].buffer : i \in DOMAIN conn[c].output}
Free == {cache.free[i] : i \in DOMAIN cache.free}
(* A buffer of the cache is free or is one chunk of one client: cache_free *)
(* never gets a buffer that is still in use, and none twice                *)
(* (allocate_output_chunk, drain_output, cache_alloc, cache_free).         *)
NoSharedChunk ==
    /\ Cardinality(Free) = Len(cache.free)
    /\ \A c \in Clients :
         /\ Cardinality(Chunks(c)) = Len(conn[c].output)
         /\ Chunks(c) \cap Free = {}
         /\ \A d \in Clients \ {c} : Chunks(c) \cap Chunks(d) = {}
============================================================================
