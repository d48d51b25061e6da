----------------------------- MODULE MCPipeline -----------------------------
(* The clients that each question is about.                                *)
EXTENDS Servers

(* Two requests fill the write buffer, one the kernels; two owed replies   *)
(* are enough for a purge, and nothing fails.                              *)
Text ==
    [calls |-> {"set", "get", "mget", "fetch", "flush_buffers", "quit"},
     max_calls |-> 4, binary |-> FALSE, buffering |-> TRUE,
     no_block |-> FALSE, no_reply |-> FALSE,
     servers |-> 1, homes |-> << 1 >>, number_of_replicas |-> 0,
     randomize |-> FALSE, callbacks |-> FALSE, pending |-> TRUE,
     msg_watermark |-> 2, bytes_watermark |-> 99,
     write_room |-> 2, read_room |-> 2, wire_room |-> 1, back_room |-> 3,
     timeouts |-> {}, drops |-> FALSE]

(* The same with timeouts of reads and with connections that are lost.     *)
Unreliable(c) == [c EXCEPT !.timeouts = {"read"}, !.drops = TRUE]

(* Sends may time out as well.                                             *)
Stalling(c) == [c EXCEPT !.timeouts = {"read", "send"}, !.drops = TRUE]

(* Many buffered sets, and room for just enough replies.                   *)
Flow == [Text EXCEPT !.calls = {"set", "add", "flush_buffers"},
                     !.max_calls = 7, !.back_room = 1]

Binary == [Text EXCEPT !.calls = {"add", "get", "mget", "fetch", "quit"},
                       !.binary = TRUE, !.pending = FALSE]

Replica == [Binary EXCEPT !.calls = {"set", "get", "replica_set", "quit"},
                          !.number_of_replicas = 1, !.drops = TRUE]

NoReply == [Text EXCEPT
    !.calls = {"set", "delete", "incr", "touch", "exist", "quit"},
    !.max_calls = 5, !.no_reply = TRUE]

Execute == [Binary EXCEPT !.calls = {"mget", "fetch", "quit"},
                          !.callbacks = TRUE, !.timeouts = {"read"}]

OneServer ==
    {[Text EXCEPT !.calls = @ \ {"quit"}],
     Unreliable([Text EXCEPT !.calls = {"set", "mget", "fetch"}]), Flow,
     Unreliable([Binary EXCEPT !.calls = @ \ {"get"}, !.max_calls = 3]),
     Replica, NoReply, Execute,
     Stalling([Text EXCEPT !.no_block = TRUE, !.max_calls = 3,
                           !.msg_watermark = 9, !.bytes_watermark = 2,
                           !.write_room = 3]),
     Stalling([Binary EXCEPT !.max_calls = 2])}

(* Two servers, each of which may be lost, and buffers that are not full.  *)
Admin ==
    [Text EXCEPT
        !.calls = {"version", "flush", "stat"},
        !.max_calls = 2, !.buffering = FALSE, !.servers = 2,
        !.homes = << 1, 2 >>, !.msg_watermark = 99, !.write_room = 4,
        !.read_room = 4, !.wire_room = 4, !.back_room = 4, !.drops = TRUE]

(* What a dump that fails at the second server leaves unread on the first. *)
(* Its lines come one by one.                                              *)
Dump == [Admin EXCEPT !.calls = {"dump", "stat"}, !.drops = FALSE,
                      !.read_room = 1, !.wire_room = 1, !.back_room = 1]
DumpLost == [Dump EXCEPT !.calls = {"dump"}, !.max_calls = 1, !.drops = TRUE]

StatExecute == [Admin EXCEPT !.calls = {"stat_execute"}, !.max_calls = 1]
Verbosity == [Admin EXCEPT !.calls = {"verbosity"}]
Quiet == [Admin EXCEPT !.calls = {"flush"}, !.no_reply = TRUE]

AdminBinary == [Admin EXCEPT !.calls = {"flush", "stat"}, !.binary = TRUE,
                             !.pending = FALSE]
VersionBinary == [AdminBinary EXCEPT !.calls = {"version"}]

(* A set is still buffered, or its reply unread.                           *)
AdminBuffered == [Admin EXCEPT !.calls = {"set", "version", "flush", "stat"},
                               !.buffering = TRUE, !.drops = FALSE]

(* The first and the last of three keys are found on the same server.      *)
Mget == [Admin EXCEPT !.calls = {"set", "mget_all", "fetch_any"},
                      !.buffering = TRUE, !.homes = << 1, 2, 1 >>,
                      !.read_room = 2, !.wire_room = 2, !.back_room = 2]

MgetBinary == [Mget EXCEPT !.calls = {"mget_all", "fetch_any"},
                           !.max_calls = 1, !.homes = << 1, 2 >>,
                           !.binary = TRUE, !.pending = FALSE]

(* Three servers and two keys.                                             *)
Replicas1 == [MgetBinary EXCEPT !.servers = 3, !.homes = << 1, 1 >>,
                                !.number_of_replicas = 1]
Replicas2 == [Replicas1 EXCEPT !.homes = << 1, 2 >>, !.number_of_replicas = 2]
Randomized == [Replicas1 EXCEPT !.servers = 2, !.randomize = TRUE]

SeveralServers ==
    {Admin, Dump, DumpLost, StatExecute, Verbosity, Quiet, AdminBinary,
     VersionBinary, AdminBuffered, Mget,
     [Mget EXCEPT !.timeouts = {"read"}, !.drops = FALSE], MgetBinary,
     Replicas1, Replicas2, Randomized}

MCClients == OneServer \union SeveralServers

(* Replicas of a delete, sent at once.                                     *)
ReplicaDeleteClients ==
    {[Replica EXCEPT !.calls = {"set", "replica_delete", "quit"},
                     !.buffering = FALSE]}

=============================================================================
