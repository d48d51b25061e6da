-------------------------------- MODULE Slap --------------------------------
(***************************************************************************)
(* memaslap over TCP (contrib/bin/memaslap): the main thread that waits    *)
(* for the workers (ms_main.c), one worker thread per concurrency          *)
(* (ms_thread.c), the state machine that libevent drives on each           *)
(* concurrency (ms_conn.c) and the scheduler that picks the next set or    *)
(* get from its window of items (ms_task.c).  Each iteration of            *)
(* ms_drive_machine's loop is one action.                                  *)
(*                                                                         *)
(* A request and a line of a reply are records; the text a value is made   *)
(* of is the offset of its first character in char_block.  Expiration      *)
(* times, the expected throughput and the response time statistics are     *)
(* left out.  A thread has one concurrency (nconns = nthreads).            *)
(***************************************************************************)
EXTENDS Integers, Sequences, FiniteSets

CONSTANTS MaxConns,    \* bound: the concurrencies of any command line
          Cycle,       \* CMD_DISTR_ADJUST_CYCLE
          MaxFaults,   \* bound: how often the server refuses or hangs up
          Settings     \* the command lines memaslap may be started with

ASSUME SlapAssumption ==
  /\ MaxConns \in Nat /\ Cycle \in Nat \ {0} /\ MaxFaults \in Nat
  /\ \A o \in Settings : /\ o.prot \in {"ascii", "binary"}
                         /\ o.get + o.set = 10
                         /\ o.nconns \in 1 .. MaxConns /\ o.win >= 1
                         /\ o.mult >= 1 /\ o.socks >= 1 /\ o.exec >= 1

VARIABLES config,    \* ms_setting
          phase,     \* where the main thread is in ms_monitor_slap_mode
          global,    \* ms_global: the counts of its locks and its two flags
          shared,    \* key_prefix_seq and ms_stats
          conn,      \* the ms_conn_t of every concurrency
          sock,      \* its TCP connections: what either end has yet to read
          store,     \* the objects of the servers, replicated among them
          faults

vars == <<config, phase, global, shared, conn, sock, store, faults>>

Invalid == -1                 \* INVALID_OFFSET
Conns == 1 .. config.nconns   \* the concurrencies, each with its thread
WinSize == config.win         \* ms_setting.win_size
Socks == IF config.rep > 0 THEN 2 * config.socks ELSE config.socks

-----------------------------------------------------------------------------
(* Key prefixes.  KEY_PREFIX_MASK sets one bit of every byte, so that no   *)
(* byte is a blank, a line end or a zero; here a key has a low byte of two *)
(* bits and a high byte, and the mask is the highest bit of each.          *)
Byte == 4
Legal(b) == b >= Byte \div 2
KEY_PREFIX_BASE == (Byte \div 2) * Byte + Byte \div 2

Masked(n) ==
  LET Or(b) == IF Legal(b) THEN b ELSE b + Byte \div 2
  IN  Or(n \div Byte) * Byte + Or(n % Byte)

(* Fault: the mask is applied only once, to the first key. *)
ms_get_key_prefix_once(g) == [key |-> g.seq, g |-> [g EXCEPT !.seq = @ + 1]]

ms_get_key_prefix(g) ==
  [key |-> Masked(g.seq), g |-> [g EXCEPT !.seq = Masked(@) + 1]]

-----------------------------------------------------------------------------
(* A concurrency and its window of items.                                  *)

NewTask ==
  [cmd |-> "null", item |-> 0, verify |-> FALSE, finish |-> TRUE, miss |-> TRUE,
   get |-> 0, set |-> 0, uget |-> 0, uset |-> 0, verified |-> 0, overwrite |-> 0]

Idle == [cmd |-> "null", keys |-> <<>>, val |-> 0]

ms_warmup_num_init == IF config.set = 0 THEN WinSize ELSE 0

(* ms_conn_init, ms_conn_sock_init and ms_conn_event_init.  tcpsfd has one *)
(* slot more than the sockets: cur_idx starts one past the array, and      *)
(* ms_reconn of a concurrency with one socket writes there.                *)
NewConn(win) ==
  [state |-> "write", busy |-> FALSE, ev |-> [fd |-> 1, on |-> "write", live |-> TRUE],
   sfd |-> 1, cur |-> Socks + 1, tcpsfd |-> [j \in 1 .. Socks + 1 |-> j <= Socks],
   alive |-> Socks, ctnwrite |-> FALSE, used |-> FALSE, left |-> 0, room |-> TRUE,
   req |-> Idle, pre |-> [cmd |-> "null", ret |-> "failure"],
   now |-> [cmd |-> "null", ret |-> "failure"], key |-> 0, rbuf |-> <<>>,
   readval |-> FALSE, win |-> win, cursor |-> 0, task |-> NewTask,
   mlget |-> <<>>, index |-> 0,
   warmup |-> ms_warmup_num_init, exec |-> config.exec]

RECURSIVE Draw(_, _, _)
Draw(g, win, w) ==
  IF w > WinSize THEN [win |-> win, g |-> g]
  ELSE LET p == ms_get_key_prefix(g)
       IN  Draw(p.g, Append(win, [key |-> p.key, off |-> 10 * w, val |-> Invalid]), w + 1)

(* ms_item_win_init *)
ms_item_win_init(g) == Draw(g, <<>>, 1)

ms_get_next_get_item(c) ==
  IF c.cursor = 0 THEN {1} ELSE 1 .. (IF c.cursor < WinSize THEN c.cursor ELSE WinSize)

ms_get_next_set_item(c) == (c.cursor % WinSize) + 1

CurItem(c) == c.win[c.task.item]

-----------------------------------------------------------------------------
(* Which operation comes next: ms_get_task.  s is the concurrency with     *)
(* what the threads share, [c |-> ..., g |-> ...]; random() makes the      *)
(* results sets.                                                           *)

ms_select_opt(c) ==
  LET t == IF c.task.uget = 0 \/ c.task.uset = 0
           THEN [c.task EXCEPT !.uget = @ + (Cycle * config.get) \div 10,
                               !.uset = @ + (Cycle * config.set) \div 10]
           ELSE c.task
  IN  IF config.set > 0 /\ t.get * config.set >= t.set * config.get
      THEN {[c EXCEPT !.task = [t EXCEPT !.cmd = "set", !.item = ms_get_next_set_item(c)]]}
      ELSE {[c EXCEPT !.task = [t EXCEPT !.cmd = "get", !.item = w]]
              : w \in ms_get_next_get_item(c)}

ms_is_get_too_fast(t) ==
  /\ config.get > 0
  /\ t.get * config.set > t.set * config.get
  /\ t.uset > ((103 * config.set) \div (100 * config.get)) * t.uget

ms_is_set_too_fast(t) ==
  /\ config.set > 0
  /\ t.get * config.set < t.set * config.get
  /\ t.uget > (103 * config.get * t.uset) \div (100 * config.set)

(* Fault: the new object keeps the value offset of the one it replaces. *)
ms_kick_out_item_keeps(s) ==
  LET p == ms_get_key_prefix(s.g)
  IN  [c |-> [s.c EXCEPT !.win[s.c.task.item].key = p.key,
                         !.win[s.c.task.item].off = @ + 1],
       g |-> p.g]

ms_kick_out_item(s) ==
  LET p == ms_get_key_prefix(s.g)
  IN  [c |-> [s.c EXCEPT !.win[s.c.task.item] =
                           [key |-> p.key, off |-> @.off + 1, val |-> Invalid]],
       g |-> p.g]

ms_need_overwrite_item(t) == t.overwrite * 10 < t.set * config.overwrite

(* The pairs of "the operation can be done" and the state. *)
ms_adjust_opt(s) ==
  LET c == s.c
      As(cmd, r) == [ok |-> TRUE, s |-> [r EXCEPT !.c.task.cmd = cmd]]
      Again == [s EXCEPT !.c.task.overwrite = @ + 1]
      Other(w) ==
        LET d == [s EXCEPT !.c.cursor = @ - 1, !.c.task.item = w]
        IN  IF c.win[w].val # Invalid THEN [d EXCEPT !.c.task.overwrite = @ + 1] ELSE d
  IN  IF c.task.cmd = "set"
      THEN IF ms_is_set_too_fast(c.task) /\ CurItem(c).val # Invalid
           THEN {As("get", s)}
           ELSE IF CurItem(c).val # Invalid
           THEN {As("set", IF ms_need_overwrite_item(c.task) THEN Again
                           ELSE ms_kick_out_item(s))}
           ELSE IF ms_need_overwrite_item(c.task)
           THEN {As("set", Other(w))
                   : w \in ms_get_next_get_item([c EXCEPT !.cursor = @ - 1])}
           ELSE {As("set", s)}
      ELSE IF CurItem(c).val = Invalid THEN {As("set", s)}
           ELSE IF ~ms_is_get_too_fast(c.task) THEN {As("get", s)}
           ELSE IF ~ms_is_set_too_fast(c.task) THEN {As("set", ms_kick_out_item(s))}
           ELSE {[ok |-> FALSE, s |-> s]}

ms_task_data_verify_init(c) ==
  IF c.task.verified * 10 < c.task.get * config.verify /\ CurItem(c).val # Invalid
  THEN [c EXCEPT !.task.verify = TRUE, !.task.finish = FALSE, !.task.verified = @ + 1]
  ELSE c

RECURSIVE ms_get_task(_, _)
ms_get_task(s, warmup) ==
  LET r == [s EXCEPT !.c.task.verify = FALSE, !.c.task.finish = TRUE, !.c.task.miss = TRUE]
      Count(c) == IF c.task.cmd = "get"
                  THEN [ms_task_data_verify_init(c) EXCEPT !.task.get = @ + 1, !.task.uget = @ - 1]
                  ELSE c
  IN  IF warmup
      THEN {[r EXCEPT !.c.task.cmd = "set", !.c.task.item = ms_get_next_set_item(r.c)]}
      ELSE UNION {IF a.ok THEN {[a.s EXCEPT !.c = Count(@)]} ELSE ms_get_task(a.s, FALSE)
                    : a \in UNION {ms_adjust_opt([r EXCEPT !.c = d]) : d \in ms_select_opt(r.c)}}

-----------------------------------------------------------------------------
(* Requests.                                                               *)

(* Unless the flags change nothing is done: the event stays with the       *)
(* descriptor it was set for, and dies with it.                            *)
ms_update_event(c, on) ==
  IF c.ev.on = on /\ config.rep = 0 THEN c
  ELSE [c EXCEPT !.ev = [fd |-> c.sfd, on |-> on, live |-> c.sfd # 0]]

(* ms_get_next_sock_index: the next socket that is connected *)
ms_get_next_sock_index(c) ==
  LET Step(k) == ((c.cur + k - 1) % Socks) + 1
      k == CHOOSE k \in 1 .. Socks :
             c.tcpsfd[Step(k)] /\ \A l \in 1 .. k - 1 : ~c.tcpsfd[Step(l)]
  IN  {Step(k)}

(* ms_get_rep_sock_index: sets go to the first rep_write_srv servers while *)
(* one of them is connected, gets to any                                   *)
ms_get_rep_sock_index(c, cmd) ==
  LET up == {j \in 1 .. Socks : c.tcpsfd[j]}
      writers == up \cap (1 .. config.rep)
  IN  IF cmd = "set" /\ writers # {} THEN writers ELSE up

ms_update_conn_sock_event(c) ==
  IF Socks = 1 THEN {c}
  ELSE {ms_update_event([c EXCEPT !.cur = j, !.sfd = j], "write")
          : j \in IF c.cur = Socks + 1 THEN {1}
                  ELSE IF config.rep = 0 THEN ms_get_next_sock_index(c)
                  ELSE ms_get_rep_sock_index(c, c.now.cmd)}

(* The request of a set.  An object that was stored before is sent with    *)
(* the offset it was last given.                                           *)
ms_build_write_buf_set(item) ==
  [cmd |-> "set", keys |-> <<item.key>>, val |-> IF item.val = Invalid THEN item.off ELSE item.val]

ms_build_write_buf_get(item) == [cmd |-> "get", keys |-> <<item.key>>, val |-> 0]

ms_build_write_buf_mlget(c) ==
  [cmd |-> "get", keys |-> [i \in DOMAIN c.mlget |-> c.win[c.mlget[i].item].key], val |-> 0]

(* The request is in the iov of the socket that is chosen for it. *)
Prepare(c, req) ==
  {[d EXCEPT !.used = TRUE, !.left = 2, !.room = TRUE, !.req = req]
     : d \in ms_update_conn_sock_event([c EXCEPT !.now = [cmd |-> req.cmd, ret |-> "failure"]])}

ms_mcd_set(s) ==
  {[c |-> c, g |-> [s.g EXCEPT !.cmd_set = @ + 1]]
     : c \in Prepare(s.c, ms_build_write_buf_set(CurItem(s.c)))}

ms_mcd_get(s) ==
  {[c |-> c, g |-> [s.g EXCEPT !.cmd_get = @ + 1]]
     : c \in Prepare(s.c, ms_build_write_buf_get(CurItem(s.c)))}

ms_mcd_mlget(s) ==
  {[c |-> c, g |-> [s.g EXCEPT !.cmd_get = @ + Len(s.c.mlget)]]
     : c \in Prepare(s.c, ms_build_write_buf_mlget(s.c))}

-----------------------------------------------------------------------------
(* Tasks: the result of the last command, then the next one.  A result is  *)
(* a set of [fail |-> ms_exec_task failed, s |-> ...].                     *)

ms_update_set_result(s) ==
  LET w == s.c.task.item
  IN  IF s.c.pre = [cmd |-> "set", ret |-> "stored"]
      THEN [s EXCEPT !.c.win[w].val = IF @ = Invalid THEN s.c.win[w].off ELSE @ + 1,
                     !.c.cursor = @ + 1, !.c.task.set = @ + 1, !.c.task.uset = @ - 1]
      ELSE s

ms_update_multi_get_result(s) ==
  LET Missed == {i \in DOMAIN s.c.mlget : s.c.mlget[i].miss}
      Unverified == {i \in DOMAIN s.c.mlget : s.c.mlget[i].verify /\ ~s.c.mlget[i].finish}
  IN  [c |-> [s.c EXCEPT !.mlget = <<>>, !.index = 0],
       g |-> [s.g EXCEPT !.get_misses = @ + Cardinality(Missed),
                         !.vef_miss = @ + Cardinality(Unverified)]]

ms_update_single_get_result(s) ==
  LET get == s.c.pre.cmd = "get"
  IN  [s EXCEPT !.g.get_misses = IF get /\ s.c.task.miss THEN @ + 1 ELSE @,
                !.g.vef_miss = IF get /\ s.c.task.verify /\ ~s.c.task.finish
                               THEN @ + 1 ELSE @]

(* The multi-get that is being collected or answered is complete. *)
MultiGet(c) == \/ config.mult > 1 /\ Len(c.mlget) >= config.mult
               \/ c.exec = 0 /\ c.mlget # <<>>

ms_update_task_result(s) ==
  IF s.c.task.item = 0 THEN s
  ELSE LET r == ms_update_set_result(s)
       IN  IF MultiGet(r.c) THEN ms_update_multi_get_result(r)
           ELSE ms_update_single_get_result(r)

(* The counter is not taken below -2: -1 is the only negative value the    *)
(* code tells apart.                                                       *)
Less(n) == IF n > -2 THEN n - 1 ELSE -2

ms_single_getset_task_sch(s) ==
  LET r == [s EXCEPT !.c.exec = Less(@)]
  IN  IF s.c.exec <= 0 THEN {r}
      ELSE UNION {IF t.c.task.cmd = "set" THEN ms_mcd_set(t) ELSE ms_mcd_get(t)
                    : t \in ms_get_task(r, FALSE)}

RECURSIVE ms_multi_getset_task_sch(_)
ms_multi_getset_task_sch(s) ==
  LET r == [s EXCEPT !.c.exec = Less(@)]
      Collect(t) == [t EXCEPT !.c.mlget = Append(@, [item |-> t.c.task.item,
                                                     verify |-> t.c.task.verify,
                                                     finish |-> t.c.task.finish,
                                                     miss |-> t.c.task.miss])]
  IN  IF s.c.exec <= 0
      THEN IF s.c.mlget # <<>> THEN ms_mcd_mlget(r) ELSE {r}
      ELSE UNION {IF t.c.task.cmd = "set" THEN ms_mcd_set(t)
                  ELSE IF MultiGet(Collect(t).c) THEN ms_mcd_mlget(Collect(t))
                  ELSE ms_multi_getset_task_sch(Collect(t))
                    : t \in ms_get_task(r, FALSE)}

ms_run_getset_task(s) ==
  LET r == IF s.c.exec >= 0 /\ s.c.exec # config.exec THEN ms_update_task_result(s) ELSE s
  IN  {[fail |-> t.c.exec = -1 \/ global.time_out, s |-> t]
         : t \in IF config.mult > 1 THEN ms_multi_getset_task_sch(r)
                 ELSE ms_single_getset_task_sch(r)}

(* ms_warmup_server; signal says that warmup_lock is signalled *)
ms_warmup_server(s) ==
  LET first == s.c.warmup = ms_warmup_num_init
      r == IF s.c.warmup >= 0 /\ ~first /\ s.c.pre = [cmd |-> "set", ret |-> "stored"]
           THEN [s EXCEPT !.c.win[s.c.task.item].val = s.c.win[s.c.task.item].off,
                          !.c.cursor = @ + 1]
           ELSE s
      n == [r EXCEPT !.c.warmup = Less(@)]
  IN  IF r.c.warmup > 0
      THEN {[signal |-> FALSE, s |-> t] : t \in UNION {ms_mcd_set(t) : t \in ms_get_task(n, TRUE)}}
      ELSE {[signal |-> n.c.warmup = -1, s |-> [n EXCEPT !.c.warmup = -2]]}

-----------------------------------------------------------------------------
(* The replies a concurrency reads: [kind, key, val].  A value is a line   *)
(* ("value") and its data ("data").  As values are all of one size and     *)
(* longer than the lines, rbytes >= rvbytes when the buffer holds a datum. *)

(* Fault: what was read before the reset is left in the buffer. *)
ms_reset_conn_keeps(c) ==
  [c EXCEPT !.ctnwrite = FALSE, !.used = FALSE, !.left = 0, !.state = "write", !.pre = c.now]

(* readval and rvbytes are not among what is reset. *)
ms_reset_conn(c) ==
  [c EXCEPT !.ctnwrite = FALSE, !.rbuf = <<>>, !.used = FALSE, !.left = 0,
            !.state = "write", !.pre = c.now]

ms_verify_value(s, m, val) ==
  IF ~s.c.task.verify THEN s
  ELSE [c |-> [s.c EXCEPT !.task.finish = TRUE,
                          !.mlget = IF m = 0 THEN @ ELSE [@ EXCEPT ![m].finish = TRUE]],
        g |-> IF CurItem(s.c).val # val THEN [s.g EXCEPT !.vef_failed = @ + 1] ELSE s.g]

(* The entry of the multi-get a value belongs to: the next one, or, in the *)
(* text protocol, the one with its key.                                    *)
Entry(c) ==
  LET n == c.index + 1
      Key(i) == c.win[c.mlget[i].item].key
  IN  IF config.prot = "binary" \/ Key(n) = c.key THEN n
      ELSE CHOOSE i \in DOMAIN c.mlget : Key(i) = c.key

(* The value read belongs to entry m of the multi-get, or to the task. *)
Selected(s, m) ==
  IF m = 0 THEN s
  ELSE LET e == s.c.mlget[m]
       IN  [s EXCEPT !.c.index = @ + 1, !.c.mlget[m].miss = FALSE, !.c.task.item = e.item,
                     !.c.task.verify = e.verify, !.c.task.finish = e.finish]

Received(s, m) ==
  LET v == ms_verify_value(Selected(s, m), m, Head(s.c.rbuf).val)
  IN  [v EXCEPT !.c.task.miss = FALSE, !.c.rbuf = Tail(@), !.c.readval = FALSE]

ms_ascii_complete_nread(s) == Received(s, IF MultiGet(s.c) THEN Entry(s.c) ELSE 0)

(* A get ends with its value, a multi-get with the value of its last key. *)
ms_bin_complete_nread(s) ==
  LET r == Received(s, IF MultiGet(s.c) THEN Entry(s.c) ELSE 0)
      d == [r.c EXCEPT !.now.ret = "end"]
  IN  [r EXCEPT !.c = IF config.mult > 1 /\ d.index # Len(d.mlget) THEN d ELSE ms_reset_conn(d)]

(* The line of a value announces its data, any other has the status of the *)
(* command: STORED, END or an error.                                       *)
ms_ascii_process_line(c, line) ==
  IF line.kind = "value" THEN [c EXCEPT !.key = line.key, !.readval = TRUE]
  ELSE [c EXCEPT !.now.ret = line.kind]

(* A response with a body announces it, one without has the status.        *)
ms_bin_process_response(c, header) ==
  IF header.kind = "value" THEN [c EXCEPT !.readval = TRUE]
  ELSE [c EXCEPT !.now.ret = header.kind]

ms_try_read_line(c) ==
  LET line == Head(c.rbuf)
      d == IF config.prot = "binary" THEN ms_bin_process_response(c, line)
           ELSE ms_ascii_process_line(c, line)
  IN  IF d.readval THEN [d EXCEPT !.rbuf = Tail(@)] ELSE ms_reset_conn(d)

-----------------------------------------------------------------------------
(* The worker threads.                                                     *)

NoSocket == [up |-> FALSE, in |-> <<>>, out |-> <<>>]
NewSocket == [NoSocket EXCEPT !.up = TRUE]

Init ==
  /\ config \in Settings
  /\ phase = "init"
  /\ global = [init |-> 0, warmup |-> 0, run |-> 0, finish_warmup |-> FALSE, time_out |-> FALSE]
  /\ shared = [seq |-> KEY_PREFIX_BASE, cmd_get |-> 0, cmd_set |-> 0, get_misses |-> 0,
               vef_miss |-> 0, vef_failed |-> 0, active_conns |-> 0]
  /\ conn = [i \in Conns |-> [NewConn(<<>>) EXCEPT !.state = "new"]]
  /\ sock = [i \in Conns |-> [j \in 1 .. Socks |-> NoSocket]]
  /\ store = <<>>
  /\ faults = 0

(* exit(1) or abort() ends every thread. *)
Running == phase # "exit"

World(i) == [c |-> conn[i], g |-> shared]

Become(i, s) ==
  /\ conn' = [conn EXCEPT ![i] = s.c]
  /\ shared' = s.g

(* ms_worker_libevent up to the event loop: ms_setup_thread, ms_setup_conn *)
Setup(i) ==
  LET w == ms_item_win_init(shared)
  IN  /\ Running /\ conn[i].state = "new"
      /\ Become(i, [c |-> NewConn(w.win), g |-> [w.g EXCEPT !.active_conns = @ + 1]])
      /\ sock' = [sock EXCEPT ![i] = [j \in DOMAIN @ |-> NewSocket]]
      /\ global' = [global EXCEPT !.init = @ + 1]
      /\ UNCHANGED <<config, phase, store, faults>>

(* libevent calls ms_event_handler; a descriptor other than the            *)
(* concurrency's is fatal.                                                 *)
Event(i) ==
  LET c == conn[i]
      s == sock[i][c.ev.fd]
  IN  /\ Running /\ c.state \in {"read", "write"} /\ ~c.busy /\ c.ev.live
      /\ c.ev.on = "read" => s.out # <<>> \/ ~s.up
      /\ conn' = [conn EXCEPT ![i].busy = TRUE, ![i].room = TRUE]
      /\ phase' = IF c.ev.fd # c.sfd THEN "exit" ELSE phase
      /\ UNCHANGED <<config, global, shared, sock, store, faults>>

(* Some of what has arrived is read; if nothing has, the concurrency waits *)
(* for it, and closes if the server has hung up.                           *)
ms_try_read_network(i) ==
  LET s == sock[i][conn[i].sfd]
  IN  IF s.out # <<>>
      THEN \E n \in {1, Len(s.out)} :
             /\ conn' = [conn EXCEPT ![i].rbuf = @ \o SubSeq(s.out, 1, n)]
             /\ sock' = [sock EXCEPT ![i][conn[i].sfd].out = SubSeq(@, n + 1, Len(@))]
      ELSE /\ conn' = [conn EXCEPT ![i] = IF s.up
                         THEN [ms_update_event(@, "read") EXCEPT !.busy = FALSE]
                         ELSE [@ EXCEPT !.state = "closing"]]
           /\ UNCHANGED sock

(* conn_read.  A value that is read after a reconnection may not be one:   *)
(* the assertion on its last character fails.                              *)
ConnRead(i) ==
  LET c == conn[i]
      Data == {n \in DOMAIN c.rbuf : c.rbuf[n].kind = "data"}
  IN  /\ Running /\ c.busy /\ c.state = "read"
      /\ UNCHANGED <<config, global, store, faults>>
      /\ \/ /\ c.readval /\ Data # {}
            /\ IF 1 \in Data
               THEN /\ Become(i, IF config.prot = "binary" THEN ms_bin_complete_nread(World(i))
                                 ELSE ms_ascii_complete_nread(World(i)))
                    /\ UNCHANGED phase
               ELSE phase' = "exit" /\ UNCHANGED <<conn, shared>>
            /\ UNCHANGED sock
         \/ /\ ~c.readval /\ c.rbuf # <<>>
            /\ Become(i, [c |-> ms_try_read_line(c), g |-> shared])
            /\ UNCHANGED <<phase, sock>>
         \/ /\ IF c.readval THEN Data = {} ELSE c.rbuf = <<>>
            /\ ms_try_read_network(i)
            /\ UNCHANGED <<phase, shared>>

(* ms_exec_task; a set of [fail, signal, s] *)
ms_exec_task(s) ==
  IF global.finish_warmup
  THEN {[fail |-> r.fail, signal |-> FALSE, s |-> r.s] : r \in ms_run_getset_task(s)}
  ELSE {[fail |-> FALSE, signal |-> r.signal, s |-> r.s] : r \in ms_warmup_server(s)}

(* conn_write, when a new task is due.  Bound: a timed run, which may      *)
(* execute MAX_EXEC_NUM commands, is over before it executes more than     *)
(* config.exec of them.                                                    *)
ExecTask(i) ==
  LET c == conn[i]
      Stay(d) == IF d.used THEN [d EXCEPT !.ctnwrite = TRUE]
                 ELSE [ms_update_event(d, "write") EXCEPT !.busy = FALSE]
  IN  /\ Running /\ c.busy /\ c.state = "write" /\ ~c.ctnwrite
      /\ config.timed => c.exec > 0 \/ global.time_out
      /\ \E r \in ms_exec_task(World(i)) :
           /\ Become(i, [r.s EXCEPT !.c = IF r.fail THEN [@ EXCEPT !.state = "closing"] ELSE Stay(@)])
           /\ global' = [global EXCEPT !.warmup = IF r.signal THEN @ + 1 ELSE @]
      /\ UNCHANGED <<config, phase, sock, store, faults>>

(* conn_write, when there is something to send: ms_transmit.  sendmsg      *)
(* takes the request, or half of it until there is room again.             *)
Transmit(i) ==
  LET c == conn[i]
      up == sock[i][c.sfd].up
  IN  /\ Running /\ c.busy /\ c.state = "write" /\ c.ctnwrite
      /\ UNCHANGED <<config, phase, global, shared, store, faults>>
      /\ \/ /\ c.left = 0
            /\ conn' = [conn EXCEPT ![i] = [ms_update_event(@, "read") EXCEPT
                          !.state = "read", !.ctnwrite = FALSE, !.busy = FALSE]]
            /\ UNCHANGED sock
         \/ /\ c.left > 0 /\ up /\ c.room
            /\ conn' = [conn EXCEPT ![i].left = 0]
            /\ sock' = [sock EXCEPT ![i][c.sfd].in = Append(@, c.req)]
         \/ /\ c.left = 2 /\ up
            /\ conn' = [conn EXCEPT ![i].left = 1, ![i].room = FALSE]
            /\ UNCHANGED sock
         \/ /\ c.left > 0 /\ up /\ ~c.room
            /\ conn' = [conn EXCEPT ![i] = [ms_update_event(@, "write") EXCEPT !.busy = FALSE]]
            /\ UNCHANGED sock
         \/ /\ c.left > 0 /\ ~up
            /\ conn' = [conn EXCEPT ![i].state = "closing", ![i].ctnwrite = FALSE]
            /\ UNCHANGED sock

(* Fault: a concurrency that closes is not counted in run_lock. *)
ms_conn_close_uncounted(i) ==
  /\ conn' = [conn EXCEPT ![i].state = "closed", ![i].busy = FALSE, ![i].ev.live = FALSE,
                          ![i].sfd = 0]
  /\ shared' = [shared EXCEPT !.active_conns = @ - 1]
  /\ sock' = [sock EXCEPT ![i] = [j \in DOMAIN @ |-> NoSocket]]
  /\ UNCHANGED global

(* ms_conn_close and ms_conn_free; the thread has no other concurrency,    *)
(* so its event loop ends.                                                 *)
ms_conn_close(i) ==
  /\ conn' = [conn EXCEPT ![i].state = "closed", ![i].busy = FALSE, ![i].ev.live = FALSE,
                          ![i].sfd = 0]
  /\ shared' = [shared EXCEPT !.active_conns = @ - 1]
  /\ global' = [global EXCEPT !.run = IF config.timed THEN @ ELSE @ + 1]
  /\ sock' = [sock EXCEPT ![i] = [j \in DOMAIN @ |-> NoSocket]]

(* ms_reconn: with replication the socket is given up, else it is          *)
(* connected again, however long that takes                                *)
ms_reconn(c) ==
  LET d == [c EXCEPT !.tcpsfd[c.cur] = config.rep = 0, !.ev.live = @ /\ c.ev.fd # c.sfd]
  IN  IF config.rep > 0 THEN [d EXCEPT !.sfd = 0, !.alive = @ - 1] ELSE d

(* conn_closing *)
ConnClosing(i) ==
  LET c == conn[i]
      again == config.reconnect /\ (~global.time_out \/ (~config.timed /\ c.exec > 0))
      d == ms_reconn(c)
  IN  /\ Running /\ c.busy /\ c.state = "closing"
      /\ UNCHANGED <<config, phase, store, faults>>
      /\ IF again /\ (config.rep > 0 => \E j \in 1 .. Socks : d.tcpsfd[j])
         THEN /\ conn' = [conn EXCEPT ![i] = IF Socks = 1
                            THEN ms_update_event(ms_reset_conn(d), "write") ELSE ms_reset_conn(d)]
              /\ sock' = [sock EXCEPT ![i][c.sfd] = IF config.rep > 0 THEN NoSocket ELSE NewSocket]
              /\ UNCHANGED <<shared, global>>
         ELSE ms_conn_close(i)

(* The sockets that were given up are connected again. *)
ms_reconn_socks(i) ==
  LET c == conn[i]
      down == {j \in 1 .. Socks : ~c.tcpsfd[j]}
  IN  /\ Socks > 1 /\ c.alive # Socks
      /\ conn' = [conn EXCEPT ![i].tcpsfd = [j \in DOMAIN @ |-> @[j] \/ j \in down],
                              ![i].alive = @ + Cardinality(down)]
      /\ sock' = [sock EXCEPT ![i] = [j \in DOMAIN @ |-> IF j \in down THEN NewSocket ELSE @[j]]]

(* ms_clock_handler, five seconds after a server was lost *)
Clock(i) ==
  LET c == conn[i]
  IN  /\ Running /\ c.state \in {"read", "write"} /\ ~c.busy
      /\ ms_reconn_socks(i)
      /\ UNCHANGED <<config, phase, global, shared, store, faults>>

Thread(i) ==
  Setup(i) \/ Event(i) \/ ConnRead(i) \/ ExecTask(i) \/ Transmit(i) \/ ConnClosing(i)

-----------------------------------------------------------------------------
(* The main thread: ms_monitor_slap_mode and ms_thread_cleanup.            *)

All(n) == n >= Cardinality(Conns)

WaitInit ==
  /\ phase = "init" /\ All(global.init)
  /\ phase' = "warmup"
  /\ UNCHANGED <<config, global, shared, conn, sock, store, faults>>

WaitWarmup ==
  /\ phase = "warmup"
  /\ config.set = 0 => All(global.warmup)
  /\ phase' = "run"
  /\ global' = [global EXCEPT !.finish_warmup = TRUE]
  /\ UNCHANGED <<config, shared, conn, sock, store, faults>>

(* The run time is over, every concurrency is gone, or, when a number of   *)
(* commands is to be executed, each of them has closed.                    *)
WaitRun ==
  /\ phase = "run"
  /\ config.timed \/ All(global.run)
  /\ phase' = "join"
  /\ global' = [global EXCEPT !.time_out = config.timed /\ shared.active_conns > 0]
  /\ UNCHANGED <<config, shared, conn, sock, store, faults>>

Join ==
  /\ phase = "join" /\ \A i \in Conns : conn[i].state = "closed"
  /\ phase' = "done"
  /\ UNCHANGED <<config, global, shared, conn, sock, store, faults>>

Main == WaitInit \/ WaitWarmup \/ WaitRun \/ Join

-----------------------------------------------------------------------------
(* The servers (external): they answer the requests of a connection in     *)
(* order and keep what they have stored; they may refuse to store, and     *)
(* may hang up.                                                            *)

Line(kind, req) == [kind |-> kind, key |-> 0, val |-> 0, req |-> req]

Answer(req, ok) ==
  LET Has(k) == k \in DOMAIN store
      Value(k) == <<[kind |-> "value", key |-> k, val |-> 0, req |-> req],
                    [kind |-> "data", key |-> k, val |-> store[k], req |-> req]>>
      Miss == IF config.prot = "binary" THEN <<Line("notfound", req)>> ELSE <<>>
      Values[n \in 0 .. Len(req.keys)] ==
        IF n = 0 THEN <<>>
        ELSE Values[n - 1] \o IF Has(req.keys[n]) THEN Value(req.keys[n]) ELSE Miss
  IN  IF req.cmd = "set" THEN <<Line(IF ok THEN "stored" ELSE "error", req)>>
      ELSE Values[Len(req.keys)] \o IF config.prot = "ascii" THEN <<Line("end", req)>> ELSE <<>>

Serve(i, j) ==
  /\ sock[i][j].in # <<>>
  /\ LET req == Head(sock[i][j].in)
     IN  \E ok \in IF req.cmd = "set" /\ faults < MaxFaults THEN BOOLEAN ELSE {TRUE} :
           /\ sock' = [sock EXCEPT ![i][j].in = Tail(@), ![i][j].out = @ \o Answer(req, ok)]
           /\ store' = IF req.cmd = "set" /\ ok
                       THEN [k \in DOMAIN store \cup {req.keys[1]} |->
                               IF k = req.keys[1] THEN req.val ELSE store[k]]
                       ELSE store
           /\ faults' = IF ok THEN faults ELSE faults + 1
  /\ UNCHANGED <<config, phase, global, shared, conn>>

Hangup(i, j) ==
  /\ sock[i][j].up /\ faults < MaxFaults
  /\ sock' = [sock EXCEPT ![i][j] = NoSocket]
  /\ faults' = faults + 1
  /\ UNCHANGED <<config, phase, global, shared, conn, store>>

Next ==
  \/ \E i \in Conns : Thread(i) \/ Clock(i)
  \/ Main
  \/ \E i \in Conns : \E j \in DOMAIN sock[i] : Serve(i, j) \/ Hangup(i, j)

(* The scheduler runs every thread, and the servers answer. *)
Spec ==
  /\ Init /\ [][Next]_vars
  /\ WF_vars(Main)
  /\ \A i \in 1 .. MaxConns : WF_vars(i \in Conns /\ Thread(i))
  /\ \A i \in 1 .. MaxConns : WF_vars(i \in Conns /\ \E j \in DOMAIN sock[i] : Serve(i, j))

-----------------------------------------------------------------------------
(* No two objects of the concurrencies' windows ever have the same key,    *)
(* and no key holds a byte the text protocol would split it at: keys are   *)
(* drawn by all threads, at the start and for every object kicked out      *)
(* (ms_get_key_prefix).                                                    *)
UniqueKeys ==
  \A i, k \in Conns : \A v \in DOMAIN conn[i].win, w \in DOMAIN conn[k].win :
    LET key == conn[i].win[v].key
    IN  /\ Legal(key \div Byte) /\ Legal(key % Byte)
        /\ key = conn[k].win[w].key => i = k /\ v = w

(* What a concurrency has been sent and has not parsed yet answers the     *)
(* command it is at, and only the socket it waits on has anything          *)
(* outstanding, through partial reads, hang-ups, reconnections and         *)
(* changes of socket (ms_drive_machine, ms_reset_conn).                    *)
RepliesMatch ==
  \A i \in Conns :
    LET c == conn[i]
        Of(q) == \A n \in DOMAIN q : q[n].req = c.req
    IN  /\ Of(c.rbuf)
        /\ \A j \in DOMAIN sock[i] :
             /\ Of(sock[i][j].out)
             /\ \A n \in DOMAIN sock[i][j].in : sock[i][j].in[n] = c.req
             /\ sock[i][j].out # <<>> \/ sock[i][j].in # <<>> => j = c.sfd

(* Unless objects are overwritten, a server that keeps what it stores is   *)
(* never charged with a value that differs; and if no command failed,      *)
(* single gets are never charged with one that is missing: the offsets     *)
(* kept in the window (ms_update_set_result, ms_kick_out_item) say what    *)
(* the server has.                                                         *)
Honest ==
  config.overwrite = 0 =>
    /\ shared.vef_failed = 0
    /\ faults = 0 /\ config.mult = 1 => shared.vef_miss = 0 /\ shared.get_misses = 0

(* memaslap comes to its end: the threads meet the main thread at each of  *)
(* its three waits, whatever the servers refuse and whichever connections  *)
(* they drop (ms_monitor_slap_mode).  Reconnecting to them is another      *)
(* matter, and so is a connection lost while the servers are warmed up.    *)
Terminates ==
  (~config.reconnect /\ (config.set > 0 \/ MaxFaults = 0)) ~> phase = "done"

=============================================================================
