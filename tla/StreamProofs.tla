---------------------------- MODULE StreamProofs ----------------------------
(***************************************************************************)
(* The requests on a connection, for every client: what io_flush has sent  *)
(* and not yet sent is what was written, in that order, however flushes,   *)
(* purges, callbacks and lost connections meet.                            *)
(***************************************************************************)
EXTENDS ServersProofs

-----------------------------------------------------------------------------
(* The requests on a connection.                                           *)

(* An activation at a can be waiting for one at b.                         *)
Waits(a, b) ==
    a \in MidLabels =>
        \/ a = "input" /\ b = "reading"
        \/ a = "purged" /\ b \in FlushLabels
        \/ a = "flush_purged" /\ b \in PurgeLabels

(* Functions in the middle of sending are waiting only for what they have  *)
(* called, and a callback reads on top of the flush that called it.        *)
CallInv ==
    \A i \in 1 .. Len(stack) - 1 :
        /\ Waits(stack[i].at, stack[i + 1].at)
        /\ stack[i].at = "input" => i = Len(stack) - 1

(* process_input_buffer reads replies in the middle of a flush.            *)
Callbacks == client.callbacks /\ call.api = "mget"

(* A flush that is sending has nothing to purge.                           *)
PurgeInv ==
    /\ At("flush_purged") /\ ok => ~PurgeDue \/ wbuf = << >>
    /\ At("purged") /\ ok => wbuf = << >>
    /\ At("purge_read") => wbuf = << >>
    /\ (At("send") \/ At("wait")) /\ Top.todo # << >> => ~PurgeDue \/ Callbacks
    /\ At("wait") => fd
    /\ \A i \in 1 .. Len(stack) : stack[i].at = "input" => Callbacks

(* Nothing is being sent.                                                  *)
Idle == \A i \in 1 .. Len(stack) : stack[i].at \notin SendLabels

(* A connection that the server has closed, or the client in the middle of *)
(* a flush, is only good for being closed.                                 *)
HereInv ==
    (fd => peer) =>
    /\ Idle => received \o wire \o wbuf = written
    /\ \A i \in 1 .. Len(stack) :
          stack[i].at \in SendLabels /\ (fd \/ stack[i].todo = << >>)
          => received \o wire \o stack[i].todo = written

(* On a connection that the server has not lost, what it received, what is *)
(* on the way and what is in the buffer is what was written.               *)
ConnInv(c) == (c.fd => c.peer) => c.received \o c.wire \o c.wbuf = c.written

(* It holds of all connections that no function is working on.             *)
OthersInv == \A s \in 0 .. N : s # cur => ConnInv(others[s])

(* The inductive statement about what is sent.                             *)
StreamInv == SendsInTime => HereInv /\ OthersInv

(* io_bytes_watermark is not reached by a flush that has more to send      *)
(* (io.cc:267): there the purge in io_wait would send all of it again.     *)
WatermarkKept ==
    At("send") /\ Top.todo # << >> /\ cursor >= 2 =>
        purging \/ bytes < client.bytes_watermark

-----------------------------------------------------------------------------
(* The stack.                                                              *)

(* A step of an activation that is neither flushing nor purging, nor       *)
(* reading for one that is.                                                *)
Plain == stack # << >>
         /\ Top.at \notin FlushLabels \union PurgeLabels \union {"reading"}

(* No activation is in the middle of a flush or a purge but those that     *)
(* wait for another such.                                                  *)
Settled ==
    /\ Idle
    /\ stack # << >> => Top.at \notin MidLabels

(* Below a step that is not part of a flush or a purge nothing is in the   *)
(* middle of sending.                                                      *)
LEMMA PlainSettled ==
    ASSUME stack \in Seq(Frames), CallInv, Plain
    PROVE  Settled /\ \A i \in 1 .. Len(stack) :
              i = Len(stack) - 1 => stack[i].at \notin MidLabels
<1>1. Len(stack) \in Nat \ {0} /\ Top = stack[Len(stack)]
  BY TopFrame DEF Plain
<1>2. Top.at \notin MidLabels
  BY DEF Plain, MidLabels, SendLabels, FlushLabels, PurgeLabels
<1>3. ASSUME NEW i \in 1 .. Len(stack), i = Len(stack) - 1
      PROVE  stack[i].at \notin MidLabels
  <2>1. i \in 1 .. Len(stack) - 1 /\ stack[i + 1] = Top
    BY <1>1, <1>3
  <2>2. Waits(stack[i].at, Top.at)
    BY <2>1, Zenon DEF CallInv
  <2>3. QED
    BY <2>2 DEF Waits, Plain
<1>4. ASSUME NEW i \in 1 .. Len(stack), stack[i].at \in SendLabels
      PROVE  FALSE
  <2>1. i # Len(stack)
    BY <1>1, <1>2, <1>4 DEF MidLabels
  <2>2. i \in 1 .. Len(stack) - 1
    BY <1>1, <2>1
  <2>3. Waits(stack[i].at, stack[i + 1].at)
    BY <2>2 DEF CallInv
  <2>4. stack[i].at = "input"
    BY <1>4, <2>3 DEF Waits, MidLabels, SendLabels
  <2>5. i = Len(stack) - 1
    BY <2>2, <2>4 DEF CallInv
  <2>6. QED
    BY <1>3, <1>4, <2>5 DEF MidLabels
<1>5. QED
  BY <1>2, <1>3, <1>4, Zenon DEF Settled, Idle

(* Where nothing is in the middle of sending, there is nothing to know of  *)
(* flushes and purges.                                                     *)
LEMMA SettledPurge ==
    ASSUME Settled'
    PROVE  PurgeInv'
<1>1. \A l \in MidLabels : ~At(l)'
  BY DEF Settled, At
<1>2. /\ ~At("flush_purged")' /\ ~At("purged")' /\ ~At("purge_read")'
      /\ ~At("send")' /\ ~At("wait")'
  BY <1>1 DEF MidLabels, SendLabels
<1>3. \A i \in 1 .. Len(stack') : stack'[i].at # "input"
  BY DEF Settled, Idle, SendLabels
<1>4. QED
  BY <1>2, <1>3, Zenon DEF PurgeInv

(* The steps outside of flushes and purges keep CallInv.                   *)
LEMMA PlainStack ==
    ASSUME stack \in Seq(Frames), CallInv, Plain, StackMove
    PROVE  CallInv' /\ Settled'
<1> DEFINE n == Len(stack)
<1>0. n \in Nat \ {0} /\ Top = stack[n] /\ Top \in Frames
  BY TopFrame DEF Plain
<1>1. Settled /\ \A i \in 1 .. n : i = n - 1 => stack[i].at \notin MidLabels
  BY PlainSettled, Zenon
<1>2. /\ \A i \in 1 .. n : stack[i].at \notin SendLabels
      /\ stack[n].at \notin MidLabels
      /\ \A i \in 1 .. n - 1 : Waits(stack[i].at, stack[i + 1].at)
  BY <1>0, <1>1, Zenon DEF Settled, Idle, CallInv, Plain
<1>3. \A a, b : a \notin MidLabels => Waits(a, b) /\ a # "input"
  BY DEF Waits, MidLabels, SendLabels
<1>4. \A a : a = "input" => a \in SendLabels
  BY DEF SendLabels
<1>5. \A b : Follows(Top.at, b) => b \notin MidLabels
  BY DEF Follows, Plain
<1>6. SendLabels \subseteq MidLabels
  BY DEF MidLabels
<1>7. CASE UNCHANGED stack
  BY <1>1, <1>7, Zenon DEF CallInv, Settled, Idle, Top
<1>8. ASSUME NEW t \in Frames, t.at \notin MidLabels, Changes(t)
      PROVE  CallInv' /\ Settled'
  <2>1. /\ Len(stack') = n /\ stack'[n] = t
        /\ \A i \in 1 .. n - 1 : stack'[i] = stack[i]
    BY <1>8, ChangeFacts, Zenon DEF Plain
  <2>2. Settled'
    BY <1>0, <1>2, <1>6, <1>8, <2>1 DEF Settled, Idle, Top
  <2>3. ASSUME NEW i \in 1 .. n - 1
        PROVE  Waits(stack'[i].at, stack'[i + 1].at) /\ stack'[i].at # "input"
    <3>1. CASE i = n - 1
      BY <1>0, <1>1, <1>3, <2>1, <3>1, SMTT(30)
    <3>2. CASE i # n - 1
      BY <1>0, <1>2, <1>4, <2>1, <3>2
    <3>3. QED
      BY <3>1, <3>2
  <2>4. QED
    BY <2>1, <2>2, <2>3 DEF CallInv
<1>9. ASSUME NEW t \in Frames, t.at \notin MidLabels, NEW f \in Frames,
             f.at \notin MidLabels, Pushes(t, f)
      PROVE  CallInv' /\ Settled'
  <2>1. /\ Len(stack') = n + 1 /\ stack'[n] = t /\ stack'[n + 1] = f
        /\ \A i \in 1 .. n - 1 : stack'[i] = stack[i]
    BY <1>9, PushFacts, Zenon DEF Plain
  <2>2. Settled'
    BY <1>0, <1>2, <1>6, <1>9, <2>1 DEF Settled, Idle, Top
  <2>3. ASSUME NEW i \in 1 .. n
        PROVE  Waits(stack'[i].at, stack'[i + 1].at) /\ stack'[i].at # "input"
    <3>1. CASE i = n
      BY <1>3, <1>9, <2>1, <3>1, Zenon
    <3>2. CASE i = n - 1
      <4>1. i \in 1 .. n - 1
        BY <1>0, <3>2
      <4>2. QED
        BY <1>1, <1>3, <2>1, <3>2, <4>1, Zenon
    <3>3. CASE i # n /\ i # n - 1
      BY <1>0, <1>2, <1>4, <2>1, <3>3
    <3>4. QED
      BY <3>1, <3>2, <3>3
  <2>4. QED
    BY <1>0, <2>1, <2>2, <2>3 DEF CallInv
<1>10. CASE stack' = Rest
  <2>1. /\ Len(stack') = n - 1 /\ stack' \in Seq(Frames)
        /\ \A i \in 1 .. n - 1 : stack'[i] = stack[i]
    BY <1>10, PopFacts, Zenon DEF Plain
  <2>2. Settled'
    <3>1. Idle'
      BY <1>0, <1>2, <2>1 DEF Idle
    <3>2. ASSUME stack' # << >> PROVE Top'.at \notin MidLabels
      <4>1. n - 1 \in 1 .. n /\ n - 1 \in 1 .. n - 1
        BY <1>0, <2>1, <3>2
      <4>2. Top' = stack[n - 1]
        BY <2>1, <4>1 DEF Top
      <4>3. QED
        BY <1>1, <4>1, <4>2
    <3>3. QED
      BY <3>1, <3>2 DEF Settled
  <2>3. ASSUME NEW i \in 1 .. Len(stack') - 1
        PROVE  Waits(stack'[i].at, stack'[i + 1].at) /\ stack'[i].at # "input"
    <3>1. i \in 1 .. n - 1 /\ i + 1 \in 1 .. n - 1 /\ i \in 1 .. n
      BY <1>0, <2>1
    <3>2. stack'[i] = stack[i] /\ stack'[i + 1] = stack[i + 1]
      BY <2>1, <3>1, Zenon
    <3>3. QED
      BY <1>2, <1>4, <3>1, <3>2, Zenon
  <2>4. QED
    BY <2>2, <2>3 DEF CallInv
<1>11. QED
  BY <1>5, <1>7, <1>8, <1>9, <1>10, Zenon DEF StackMove

-----------------------------------------------------------------------------
(* The connection.                                                         *)

(* Appending to the buffer is appending to what is to be sent.             *)
LEMMA AppendConcat ==
    ASSUME NEW S, NEW s \in Seq(S), NEW t \in Seq(S), NEW e \in S
    PROVE  s \o Append(t, e) = Append(s \o t, e)
OBVIOUS

(* The part of the state that says what was written and sent.              *)
Stream == << fd, peer, wire, wbuf, written, received >>

(* A closed connection has nothing on it.                                  *)
LEMMA EmptyStream ==
    ASSUME Close
    PROVE  HereInv'
<1>1. << >> \o << >> \o << >> = << >>
  OBVIOUS
<1>2. ~fd' /\ wire' = << >> /\ wbuf' = << >> /\ written' = << >>
      /\ received' = << >>
  BY DEF Close
<1>3. QED
  BY <1>1, <1>2, Zenon DEF HereInv

(* Buffering a request, closing and connecting keep HereInv.               *)
LEMMA PlainStream ==
    ASSUME TypeInv, Idle, Idle', HereInv,
           \/ UNCHANGED Stream \/ Close \/ Connect \/ WriteStart
    PROVE  HereInv'
<1>0. ConnTypes
  BY HereTypes DEF TypeInv
<1>1. CASE UNCHANGED Stream \/ Connect
  <2>1. /\ UNCHANGED << wire, wbuf, written, received >>
        /\ (fd' => peer') => (fd => peer)
    BY <1>0, <1>1 DEF Stream, Connect, buffers, known, ConnTypes
  <2>2. QED
    BY <2>1, Zenon DEF HereInv, Idle
<1>2. CASE Close
  BY <1>2, EmptyStream
<1>3. CASE WriteStart
  <2>1. PICK r \in Requests : /\ wbuf' = Append(wbuf, r)
                              /\ written' = Append(written, r)
    <3>1. Top.req \in Requests
      BY <1>3, TopFrame, Zenon DEF WriteStart, At, Frames, TypeInv
    <3>2. QED
      BY <1>3, <3>1, Zenon DEF WriteStart
  <2>2. UNCHANGED << fd, peer, wire, received >>
    BY <1>3 DEF WriteStart, net
  <2>3. received \o wire \in Seq(Requests) /\ wbuf \in Seq(Requests)
    BY <1>0, ConcatTypes, Zenon DEF ConnTypes
  <2>4. received \o wire \o Append(wbuf, r)
           = Append(received \o wire \o wbuf, r)
    BY <2>1, <2>3, AppendConcat
  <2>5. QED
    BY <2>1, <2>2, <2>4, Zenon DEF HereInv, Idle
<1>4. QED
  BY <1>1, <1>2, <1>3


-----------------------------------------------------------------------------
(* The steps that are neither of a flush nor of a purge.                   *)
PlainStep ==
    \/ WriteStart \/ WriteFull \/ WriteEnd \/ Response
    \/ Vdo \/ VdoSent \/ Answered \/ FlushBuffers
    \/ Drain \/ Draining \/ GetKey \/ GetKeySent \/ GetNoop \/ Got
    \/ Fetch \/ Fetched \/ Quit \/ Slurp \/ QuitEnd

(* Places outside of flushes and purges.                                   *)
PlainLabels == {"writev", "writev_full", "writev_again", "response", "vdo",
    "vdo_sent", "answered", "flushed", "buffers", "drain", "draining", "keys",
    "key_sent", "noop", "noop_sent", "got", "fetch", "fetched", "quit",
    "quit_sent", "slurp_wait"} \union JobLabels \union {"end"}

(* They are outside of flushes and purges.                                 *)
LEMMA AtPlain ==
    ASSUME NEW l \in PlainLabels, At(l)
    PROVE  Plain
<1>1. l \notin FlushLabels \union PurgeLabels \union {"reading"}
  BY DEF PlainLabels, FlushLabels, PurgeLabels, JobLabels, VersionLabels,
     EachLabels, FlushAllLabels, DumpLabels, DrainLabels, MgetLabels,
     ReplicaLabels, AnyLabels
<1>2. QED
  BY <1>1 DEF Plain, At

(* The steps there buffer, close, connect, or change nothing.              *)
LEMMA PlainStepFacts ==
    ASSUME PlainStep
    PROVE  /\ Plain
           /\ \/ UNCHANGED Stream \/ Close \/ Connect \/ WriteStart
<1>1. \E l \in PlainLabels : At(l)
  BY Zenon
  DEF PlainStep, WriteStart, WriteFull, WriteEnd, Response, Vdo, VdoSent,
      Answered, FlushBuffers, Drain, Draining, GetKey, GetKeySent, GetNoop,
      Got, Fetch, Fetched, Quit, Slurp, QuitEnd, Slurps, SlurpEnds, PlainLabels
<1> DEFINE Same == /\ UNCHANGED << fd, peer, wire >> /\ UNCHANGED wbuf
                   /\ UNCHANGED known
<1>2. Same \/ Close \/ Connect \/ WriteStart
  <2>1. CASE \/ WriteStart \/ WriteFull \/ WriteEnd \/ Response \/ Vdo
             \/ VdoSent \/ Answered \/ FlushBuffers \/ Drain \/ Draining
    <3>1. \/ UNCHANGED << net, buffers, known >> \/ Close \/ Connect
          \/ WriteStart \/ UNCHANGED << net, wbuf, rbuf, bytes, known >>
      BY <2>1, Zenon
      DEF WriteFull, WriteEnd, Response, Vdo, VdoSent, Answered,
          FlushBuffers, Drain, Draining
    <3>2. QED
      BY <3>1, Zenon DEF net, buffers
  <2>2. CASE \/ GetKey \/ GetKeySent \/ GetNoop \/ Got \/ Fetch \/ Fetched
             \/ Quit \/ Slurp \/ QuitEnd
    <3>1. \/ UNCHANGED << net, buffers, known >> \/ Close \/ Connect
          \/ UNCHANGED << net, wbuf, rbuf, bytes, known >>
          \/ UNCHANGED << fd, peer, wire, buffers, known >>
      BY <2>2, Zenon
      DEF GetKey, GetKeySent, GetNoop, Got, Fetch, Fetched, Quit, Slurp,
          QuitEnd
    <3>2. QED
      BY <3>1, Zenon DEF net, buffers
  <2>3. QED
    BY <2>1, <2>2, Zenon DEF PlainStep
<1>3. QED
  BY <1>1, <1>2, AtPlain, Zenon DEF Stream, known

(* The steps of calls over several servers are outside of flushes and      *)
(* purges.                                                                 *)
LEMMA JobPlain ==
    ASSUME JobStep
    PROVE  Plain
<1>1. \E l \in JobLabels \union {"end"} : At(l)
  <2> USE DEF JobLabels
  <2>1. CASE VersionSend \/ VersionSent \/ VersionRead \/ VersionGot
             \/ VersionEnd
    BY <2>1, Zenon DEF VersionSend, VersionSent, VersionRead, VersionGot,
       VersionEnd, Collect, VersionLabels
  <2>2. CASE EachSend \/ EachSent \/ EachGot \/ EachFree
    BY <2>2, Zenon DEF EachSend, EachSent, EachGot, EachFree, EachLabels
  <2>3. CASE FlushSend \/ FlushSent \/ FlushRead
    BY <2>3, Zenon DEF FlushSend, FlushSent, FlushRead, FlushAllLabels
  <2>4. CASE DumpSend \/ DumpSent \/ DumpRead \/ DumpGot \/ DumpNext
    BY <2>4, Zenon DEF DumpSend, DumpSent, DumpRead, DumpGot, DumpNext,
       Collect, DumpLabels
  <2>5. CASE DrainAll \/ DrainingAll
    BY <2>5, Zenon DEF DrainAll, DrainingAll, DrainLabels
  <2>6. CASE MgetKey \/ MgetConnect \/ MgetSent \/ MgetEnd \/ MgetNoop
             \/ MgetFlushed
    BY <2>6, Zenon DEF MgetKey, MgetConnect, MgetSent, MgetEnd, MgetNoop,
       MgetFlushed, MgetLabels
  <2>7. CASE ReplicaKey \/ ReplicaConnect \/ ReplicaSent
    BY <2>7, Zenon DEF ReplicaKey, ReplicaConnect, ReplicaSent, ReplicaLabels
  <2>8. CASE FetchAny \/ FetchGot \/ FetchNone \/ JobEnd
    BY <2>8, Zenon DEF FetchAny, FetchGot, FetchNone, JobEnd, Collect,
       AnyLabels
  <2>9. QED
    BY <2>1, <2>2, <2>3, <2>4, <2>5, <2>6, <2>7, <2>8, Zenon DEF JobStep
<1>2. QED
  BY <1>1, AtPlain, Zenon DEF PlainLabels


(* Another instance is taken.                                              *)
LEMMA SelectStream ==
    ASSUME TypeInv, UNCHANGED client, Idle, Idle', HereInv, OthersInv,
           NEW s \in 0 .. N, Select(s)
    PROVE  HereInv' /\ OthersInv'
<1>0. N' = N /\ cur \in 0 .. N /\ others \in [0 .. N -> Conns]
  BY DEF N, TypeInv
<1>1. CASE s = cur /\ UNCHANGED << cur, others, connection >>
  <2>1. UNCHANGED << fd, peer, wire, wbuf, written, received >>
    BY <1>1 DEF connection, net, buffers, known
  <2>2. HereInv'
    BY <2>1, Zenon DEF HereInv, Idle
  <2>3. OthersInv'
    BY <1>0, <1>1 DEF OthersInv
  <2>4. QED
    BY <2>2, <2>3
<1>2. CASE s # cur /\ ~UNCHANGED << cur, others, connection >>
  <2>1. ConnInv(others[s]) /\ ConnInv(Here)
    <3>1. ConnInv(others[s])
      BY <1>2, Zenon DEF OthersInv
    <3>2. /\ Here.fd = fd /\ Here.peer = peer /\ Here.wire = wire
          /\ Here.wbuf = wbuf /\ Here.written = written
          /\ Here.received = received
      BY DEF Here
    <3>3. QED
      BY <3>1, <3>2, Zenon DEF HereInv, ConnInv
  <2>2. /\ fd' = others[s].fd /\ peer' = others[s].peer
        /\ wire' = others[s].wire /\ wbuf' = others[s].wbuf
        /\ written' = others[s].written /\ received' = others[s].received
        /\ cur' = s
        /\ others' = [others EXCEPT ![cur] = Here, ![s] = NewConn]
    BY <1>2, Zenon DEF Select
  <2>3. HereInv'
    BY <2>1, <2>2, Zenon DEF HereInv, ConnInv, Idle
  <2>4. ASSUME NEW x \in 0 .. N, x # s
        PROVE  others'[x] = IF x = cur THEN Here ELSE others[x]
    BY <1>0, <2>2, <2>4
  <2>5. ASSUME NEW x \in 0 .. N, x # s PROVE ConnInv(others'[x])
    BY <2>1, <2>4, <2>5, Zenon DEF OthersInv
  <2>6. OthersInv'
    BY <1>0, <2>2, <2>5, Zenon DEF OthersInv, ConnInv
  <2>7. QED
    BY <2>3, <2>6
<1>3. QED
  BY <1>1, <1>2, Zenon DEF Select

(* All but the stream of the connection at hand stays as it is.            *)
LEMMA OthersKept ==
    ASSUME UNCHANGED << client, cur, others >>, OthersInv
    PROVE  OthersInv'
BY Zenon DEF OthersInv, ConnInv, N

(* Turning to another server keeps both connections as they are.           *)
LEMMA MovedStream ==
    ASSUME TypeInv, UNCHANGED client, Idle, Idle', HereInv, OthersInv, Moved
    PROVE  HereInv' /\ OthersInv'
<1>1. CASE \E s \in 0 .. N : Select(s)
  BY <1>1, SelectStream, Zenon
<1>2. CASE UNCHANGED << cur, others >>
           /\ (Close \/ Connect \/ UNCHANGED Stream)
  BY <1>2, PlainStream, OthersKept, Zenon
<1>3. ASSUME \/ UNCHANGED connection
             \/ UNCHANGED << net, wbuf, rbuf, bytes, known >>
      PROVE  UNCHANGED Stream
  BY <1>3, Zenon DEF connection, net, buffers, known, Stream
<1>4. QED
  BY <1>1, <1>2, <1>3, Zenon DEF Moved

(* The inductive invariant, beside IInv.                                   *)
OnceInv == CallInv /\ PurgeInv /\ StreamInv

(* The steps outside of flushes and purges keep it.                        *)
LEMMA PlainKeeps ==
    ASSUME IInv, OnceInv, One(PlainStep) \/ JobStep
    PROVE  OnceInv'
<1>0. TypeInv /\ stack \in Seq(Frames)
  BY DEF IInv, TypeInv
<1>1. UNCHANGED client /\ StackMove
  <2>1. PlainStep => Step
    BY Zenon DEF PlainStep, Step
  <2>2. QED
    BY <2>1, StepKeeps, Zenon DEF One
<1>2. Plain
  BY PlainStepFacts, JobPlain DEF One
<1>3. Idle /\ CallInv' /\ Settled'
  BY <1>0, <1>1, <1>2, PlainSettled, PlainStack, Zenon DEF OnceInv, Settled
<1>4. PurgeInv'
  BY <1>3, SettledPurge
<1>5. ASSUME SendsInTime PROVE HereInv' /\ OthersInv'
  <2>1. HereInv /\ OthersInv /\ Idle'
    BY <1>3, <1>5, Zenon DEF OnceInv, StreamInv, Settled
  <2>2. CASE One(PlainStep)
    BY <1>0, <1>1, <1>3, <2>1, <2>2, PlainStepFacts, PlainStream, OthersKept,
       Zenon DEF One
  <2>3. CASE JobStep
    BY <1>0, <1>1, <1>3, <2>1, <2>3, JobConnections, MovedStream, Zenon
  <2>4. QED
    BY <2>2, <2>3
<1>6. StreamInv'
  BY <1>1, <1>5, Zenon DEF StreamInv, SendsInTime
<1>7. QED
  BY <1>3, <1>4, <1>6 DEF OnceInv


-----------------------------------------------------------------------------
(* The steps of a flush or a purge.                                        *)

(* Only the activation on top may be sending.                              *)
BelowIdle ==
    /\ stack # << >> /\ Len(stack) \in Nat \ {0}
    /\ \A i \in 1 .. Len(stack) - 1 : stack[i].at \notin SendLabels

(* What the invariants say of the activation on top.                       *)
TopStream ==
    (fd => peer) =>
    /\ Top.at \notin SendLabels => received \o wire \o wbuf = written
    /\ Top.at \in SendLabels /\ (fd \/ Top.todo = << >>)
       => received \o wire \o Top.todo = written

(* PurgeInv for the activation on top.                                     *)
TopPurge ==
    /\ Top.at = "flush_purged" /\ ok => ~PurgeDue \/ wbuf = << >>
    /\ Top.at = "purged" /\ ok => wbuf = << >>
    /\ Top.at = "purge_read" => wbuf = << >>
    /\ Top.at \in {"send", "wait"} /\ Top.todo # << >>
       => ~PurgeDue \/ Callbacks
    /\ Top.at = "wait" => fd
    /\ Top.at = "input" => Callbacks

(* Unless a callback reads, only the activation on top sends.              *)
LEMMA SendingOnTop ==
    ASSUME stack \in Seq(Frames), stack # << >>, CallInv, Top.at # "reading"
    PROVE  BelowIdle
<1>1. Len(stack) \in Nat \ {0} /\ Top = stack[Len(stack)]
  BY TopFrame
<1>2. ASSUME NEW i \in 1 .. Len(stack) - 1, stack[i].at \in SendLabels
      PROVE  FALSE
  <2>1. /\ Waits(stack[i].at, stack[i + 1].at)
        /\ stack[i].at = "input" => i = Len(stack) - 1
    BY <1>2, Zenon DEF CallInv
  <2>2. stack[i].at = "input" /\ stack[i + 1].at = "reading"
    BY <1>2, <2>1 DEF Waits, MidLabels, SendLabels
  <2>3. stack[i + 1] = Top
    BY <1>1, <2>1, <2>2
  <2>4. QED
    BY <2>2, <2>3
<1>3. QED
  BY <1>1, <1>2, Zenon DEF BelowIdle

(* HereInv gives what holds of the activation on top.                      *)
LEMMA TopOfStream ==
    ASSUME BelowIdle, HereInv
    PROVE  TopStream
<1>1. Len(stack) \in 1 .. Len(stack) /\ Top = stack[Len(stack)]
  BY DEF BelowIdle, Top
<1>2. ASSUME Top.at \notin SendLabels PROVE Idle
  BY <1>1, <1>2 DEF BelowIdle, Idle
<1>3. QED
  BY <1>1, <1>2, Zenon DEF HereInv, TopStream

(* And it is enough to show that.                                          *)
LEMMA StreamOfTop ==
    ASSUME BelowIdle', TopStream'
    PROVE  HereInv'
<1>1. Len(stack') \in 1 .. Len(stack') /\ Top' = stack'[Len(stack')]
  BY DEF BelowIdle, Top
<1>2. ASSUME NEW i \in 1 .. Len(stack'), stack'[i].at \in SendLabels
      PROVE  i = Len(stack')
  BY <1>2 DEF BelowIdle
<1>3. ASSUME Idle' PROVE Top'.at \notin SendLabels
  BY <1>1, <1>3, Zenon DEF Idle
<1>4. QED
  BY <1>1, <1>2, <1>3, Zenon DEF HereInv, TopStream

(* PurgeInv gives what holds of the activation on top.                     *)
LEMMA TopOfPurge ==
    ASSUME BelowIdle, PurgeInv
    PROVE  TopPurge
<1>1. Len(stack) \in 1 .. Len(stack) /\ Top = stack[Len(stack)]
  BY DEF BelowIdle, Top
<1>2. Top.at \in {"send", "wait"} => Top.at = "send" \/ Top.at = "wait"
  OBVIOUS
<1>3. QED
  BY <1>1, <1>2, Zenon DEF PurgeInv, TopPurge, At, BelowIdle

(* And it is enough to show that.                                          *)
LEMMA PurgeOfTop ==
    ASSUME BelowIdle', TopPurge'
    PROVE  PurgeInv'
<1>1. Top' = stack'[Len(stack')]
  BY DEF Top
<1>2. ASSUME NEW i \in 1 .. Len(stack'), stack'[i].at = "input"
      PROVE  i = Len(stack')
  BY <1>2 DEF BelowIdle, SendLabels
<1>3. QED
  BY <1>1, <1>2 DEF PurgeInv, TopPurge, At

(* The activation on top goes on.                                          *)
LEMMA FlushGoesOn ==
    ASSUME stack \in Seq(Frames), stack # << >>, CallInv, NEW t \in Frames,
           \/ Top.at \in FlushLabels /\ t.at \in FlushLabels
           \/ Top.at \in PurgeLabels /\ t.at \in PurgeLabels,
           Changes(t)
    PROVE  CallInv' /\ BelowIdle' /\ Top' = t
<1> DEFINE n == Len(stack)
<1>0. n \in Nat \ {0} /\ Top = stack[n]
  BY TopFrame
<1>1. /\ Len(stack') = n /\ stack'[n] = t
      /\ \A i \in 1 .. n - 1 : stack'[i] = stack[i]
  BY ChangeFacts, Zenon
<1>2. BelowIdle
  BY SendingOnTop DEF FlushLabels, PurgeLabels
<1>3. Top' = t /\ BelowIdle'
  BY <1>0, <1>1, <1>2 DEF BelowIdle, Top
<1>4. ASSUME NEW a, Waits(a, Top.at) PROVE Waits(a, t.at)
  BY <1>4 DEF Waits, FlushLabels, PurgeLabels
<1>5. ASSUME NEW i \in 1 .. n - 1
      PROVE  Waits(stack'[i].at, stack'[i + 1].at)
  <2>1. Waits(stack[i].at, stack[i + 1].at)
    BY <1>5, Zenon DEF CallInv
  <2>2. CASE i = n - 1
    BY <1>0, <1>1, <1>4, <2>1, <2>2
  <2>3. CASE i # n - 1
    BY <1>0, <1>1, <2>1, <2>3
  <2>4. QED
    BY <2>2, <2>3
<1>6. \A i \in 1 .. n - 1 : stack'[i].at # "input"
  BY <1>1, <1>2 DEF BelowIdle, SendLabels
<1>7. QED
  BY <1>1, <1>3, <1>5, <1>6, Zenon DEF CallInv

(* It calls another one.                                                   *)
LEMMA FlushCalls ==
    ASSUME stack \in Seq(Frames), stack # << >>, CallInv, NEW t \in Frames,
           NEW f \in Frames,
           \/ Top.at \in FlushLabels /\ t.at \in FlushLabels
           \/ Top.at \in PurgeLabels /\ t.at \in PurgeLabels,
           Waits(t.at, f.at), Pushes(t, f)
    PROVE  /\ CallInv' /\ stack' # << >> /\ Top' = f
           /\ Len(stack') = Len(stack) + 1 /\ stack'[Len(stack)] = t
           /\ \A i \in 1 .. Len(stack) - 1 :
                 stack'[i] = stack[i] /\ stack[i].at \notin SendLabels
<1> DEFINE n == Len(stack)
<1>0. n \in Nat \ {0} /\ Top = stack[n]
  BY TopFrame
<1>1. /\ Len(stack') = n + 1 /\ stack'[n] = t /\ stack'[n + 1] = f
      /\ \A i \in 1 .. n - 1 : stack'[i] = stack[i]
  BY PushFacts, Zenon
<1>2. BelowIdle
  BY SendingOnTop DEF FlushLabels, PurgeLabels
<1>3. Top' = f /\ stack' # << >>
  BY <1>0, <1>1 DEF Top
<1>4. ASSUME NEW a, Waits(a, Top.at) PROVE Waits(a, t.at)
  BY <1>4 DEF Waits, FlushLabels, PurgeLabels
<1>5. ASSUME NEW i \in 1 .. n
      PROVE  Waits(stack'[i].at, stack'[i + 1].at)
  <2>0. ASSUME i # n PROVE Waits(stack[i].at, stack[i + 1].at)
    BY <1>0, <2>0 DEF CallInv
  <2>1. CASE i = n
    BY <1>1, <2>1
  <2>2. CASE i = n - 1
    BY <1>0, <1>1, <1>4, <2>0, <2>2
  <2>3. CASE i # n /\ i # n - 1
    BY <1>0, <1>1, <2>0, <2>3
  <2>4. QED
    BY <2>1, <2>2, <2>3
<1>6. \A i \in 1 .. n - 1 :
         stack[i].at \notin SendLabels /\ stack'[i].at # "input"
  BY <1>1, <1>2 DEF BelowIdle, SendLabels
<1>7. CallInv'
  BY <1>0, <1>1, <1>5, <1>6 DEF CallInv
<1>8. QED
  BY <1>1, <1>3, <1>6, <1>7, Zenon

(* It returns.                                                             *)
LEMMA FlushReturns ==
    ASSUME stack \in Seq(Frames), stack # << >>, CallInv, stack' = Rest,
           \/ Top.at \in FlushLabels /\ (ok' => wbuf' = << >>)
           \/ Top.at \in PurgeLabels /\ (ok' => ~PurgeDue' \/ wbuf' = << >>)
    PROVE  CallInv' /\ PurgeInv' /\ Idle'
<1> DEFINE n == Len(stack)
<1>0. n \in Nat \ {0} /\ Top = stack[n]
  BY TopFrame
<1>1. /\ Len(stack') = n - 1 /\ stack' \in Seq(Frames)
      /\ \A i \in 1 .. n - 1 : stack'[i] = stack[i]
  BY PopFacts, Zenon
<1>2. BelowIdle
  BY SendingOnTop DEF FlushLabels, PurgeLabels
<1>3. Idle'
  BY <1>1, <1>2 DEF BelowIdle, Idle
<1>4. CallInv'
  <2>1. ASSUME NEW i \in 1 .. n - 2
        PROVE  /\ Waits(stack'[i].at, stack'[i + 1].at)
               /\ stack'[i].at # "input"
    <3>1. i \in 1 .. n - 1 /\ i + 1 \in 1 .. n - 1
      BY <1>0
    <3>2. stack'[i] = stack[i] /\ stack'[i + 1] = stack[i + 1]
      BY <1>1, <3>1, Zenon
    <3>3. Waits(stack[i].at, stack[i + 1].at) /\ stack[i].at \notin SendLabels
      BY <1>2, <3>1, Zenon DEF CallInv, BelowIdle
    <3>4. QED
      BY <3>2, <3>3 DEF SendLabels
  <2>2. QED
    BY <1>0, <1>1, <2>1 DEF CallInv
<1>5. ASSUME stack' # << >> PROVE Waits(Top'.at, Top.at)
  <2>1. n - 1 \in 1 .. n - 1 /\ Top' = stack[n - 1]
    BY <1>0, <1>1, <1>5 DEF Top
  <2>2. Waits(stack[n - 1].at, stack[n - 1 + 1].at)
    BY <2>1, Zenon DEF CallInv
  <2>3. QED
    BY <1>0, <2>1, <2>2
<1>6. ASSUME NEW l \in MidLabels, At(l)'
      PROVE  \/ l = "purged" /\ Top.at \in FlushLabels
             \/ l = "flush_purged" /\ Top.at \in PurgeLabels
  BY <1>5, <1>6 DEF At, Waits, FlushLabels, PurgeLabels
<1>7. FlushLabels \intersect PurgeLabels = {}
  BY DEF FlushLabels, PurgeLabels
<1>8. /\ {"flush_purged", "purged", "purge_read", "send", "wait"}
            \subseteq MidLabels
      /\ "input" \in SendLabels
  BY DEF MidLabels, SendLabels
<1>9. PurgeInv'
  <2>1. ~At("purge_read")' /\ ~At("send")' /\ ~At("wait")'
    BY <1>6, <1>8
  <2>2. At("flush_purged")' => Top.at \in PurgeLabels
    BY <1>6, <1>8
  <2>3. At("purged")' => Top.at \in FlushLabels
    BY <1>6, <1>8
  <2>4. \A i \in 1 .. Len(stack') : stack'[i].at # "input"
    BY <1>3, <1>8, Zenon DEF Idle
  <2>5. QED
    BY <1>7, <2>1, <2>2, <2>3, <2>4, Zenon DEF PurgeInv
<1>10. QED
  BY <1>3, <1>4, <1>9

(* What a step of the connection at hand has to keep.                      *)
Keeps ==
    /\ CallInv' /\ PurgeInv'
    /\ SendsInTime /\ HereInv => HereInv'

(* Whether a purge is due depends on the counters alone.                   *)
LEMMA SamePurge ==
    ASSUME UNCHANGED << client, purging, bytes, cursor >>
    PROVE  PurgeDue' <=> PurgeDue
BY DEF PurgeDue

(* io_flush and memcached_purge go on.                                     *)
LEMMA FlushGoto ==
    ASSUME stack \in Seq(Frames), CallInv, NEW a, At(a), NEW l, Goto(l),
           \/ a \in FlushLabels /\ l \in FlushLabels
           \/ a \in PurgeLabels /\ l \in PurgeLabels
    PROVE  /\ CallInv' /\ BelowIdle'
           /\ Top'.at = l /\ Top'.todo = Top.todo
<1> DEFINE t == [Top EXCEPT !.at = l]
<1>0. l \in Labels
  BY DEF FlushLabels, PurgeLabels, Labels, Classes
<1>1. t \in Frames /\ t.at = l /\ t.todo = Top.todo
  BY <1>0, TopFrame, Zenon DEF Frames, At
<1>2. Changes(t)
  BY TopFrame, Zenon DEF Goto, Changes, At
<1> HIDE DEF t
<1>3. CallInv' /\ BelowIdle' /\ Top' = t
  BY <1>1, <1>2, FlushGoesOn, Zenon DEF At
<1>4. QED
  BY <1>1, <1>3

(* io_flush and memcached_purge call each other and the reads.             *)
LEMMA FlushInvokes ==
    ASSUME stack \in Seq(Frames), CallInv, NEW a, At(a), NEW l,
           \/ a \in FlushLabels /\ l \in FlushLabels
           \/ a \in PurgeLabels /\ l \in PurgeLabels,
           NEW f \in Frames, Waits(l, f.at), Invoke(l, f)
    PROVE  /\ CallInv' /\ stack' # << >> /\ Top' = f
           /\ Len(stack) \in Nat \ {0} /\ Len(stack') = Len(stack) + 1
           /\ stack'[Len(stack)].at = l
           /\ stack'[Len(stack)].todo = Top.todo
           /\ \A i \in 1 .. Len(stack) - 1 :
                 stack'[i] = stack[i] /\ stack[i].at \notin SendLabels
<1> DEFINE t == [Top EXCEPT !.at = l]
<1>0. l \in Labels
  BY DEF FlushLabels, PurgeLabels, Labels, Classes
<1>1. t \in Frames /\ t.at = l /\ t.todo = Top.todo
  BY <1>0, TopFrame, Zenon DEF Frames, At
<1>2. Pushes(t, f)
  BY TopFrame DEF Invoke, Pushes, At
<1> HIDE DEF t
<1>3. /\ CallInv' /\ stack' # << >> /\ Top' = f
      /\ Len(stack') = Len(stack) + 1 /\ stack'[Len(stack)] = t
      /\ \A i \in 1 .. Len(stack) - 1 :
            stack'[i] = stack[i] /\ stack[i].at \notin SendLabels
  BY <1>1, <1>2, FlushCalls, Zenon DEF At
<1>4. QED
  BY <1>1, <1>3, TopFrame, Zenon DEF At

(* A purge or a flush calls the other.                                     *)
LEMMA CallsOther ==
    ASSUME stack \in Seq(Frames), CallInv, NEW a, At(a), NEW l, NEW f,
           \/ a = "purge" /\ l = "purged" /\ f = Flush
           \/ a = "flush" /\ l = "flush_purged" /\ f = Frame("purge"),
           Invoke(l, f), UNCHANGED Stream
    PROVE  Keeps
<1>1. f \in Frames /\ f.at \in {"flush", "purge"} /\ Waits(l, f.at)
  <2>1. {"flush", "purge"} \subseteq Labels
    BY DEF Labels, Classes, FlushLabels, PurgeLabels
  <2>2. f \in Frames /\ f.at = IF a = "purge" THEN "flush" ELSE "purge"
    BY <2>1, FrameTypes DEF Flush
  <2>3. CASE a = "purge"
    BY <2>2, <2>3 DEF Waits, FlushLabels
  <2>4. CASE a = "flush"
    BY <2>2, <2>4 DEF Waits, PurgeLabels
  <2>5. QED
    BY <2>2, <2>3, <2>4
<1>2. /\ CallInv' /\ stack' # << >> /\ Top' = f
      /\ Len(stack) \in Nat \ {0} /\ Len(stack') = Len(stack) + 1
      /\ stack'[Len(stack)].at = l
      /\ \A i \in 1 .. Len(stack) - 1 :
            stack'[i] = stack[i] /\ stack[i].at \notin SendLabels
  <2>1. \/ a \in FlushLabels /\ l \in FlushLabels
        \/ a \in PurgeLabels /\ l \in PurgeLabels
    BY DEF FlushLabels, PurgeLabels
  <2>2. QED
    BY <1>1, <2>1, FlushInvokes, Zenon
<1>3. BelowIdle' /\ f.at \notin MidLabels
  BY <1>1, <1>2 DEF BelowIdle, SendLabels, MidLabels
<1>4. PurgeInv'
  <2>1. TopPurge'
    BY <1>2, <1>3 DEF TopPurge, MidLabels, SendLabels
  <2>2. QED
    BY <1>3, <2>1, PurgeOfTop
<1>5. ASSUME HereInv PROVE HereInv'
  <2>1. Top.at \notin SendLabels /\ BelowIdle
    BY SendingOnTop DEF At, SendLabels
  <2>2. TopStream'
    BY <1>2, <1>3, <1>5, <2>1, TopOfStream, Zenon
       DEF TopStream, Stream, MidLabels
  <2>3. QED
    BY <1>3, <2>2, StreamOfTop
<1>6. QED
  BY <1>2, <1>4, <1>5 DEF Keeps

(* memcached_purge: it flushes the buffer first, so that nothing is left   *)
(* to send when it reads (purge.cc).                                       *)
LEMMA PurgeKeeps ==
    ASSUME TypeInv, CallInv, PurgeInv,
           \/ PurgeStart \/ PurgeFlushed \/ PurgeRead \/ PurgeFails
           \/ PurgeEnd
    PROVE  Keeps
<1>0. stack \in Seq(Frames) /\ ConnTypes
  BY HereTypes DEF TypeInv
<1>l. {"purge", "purged", "purge_read"} \subseteq PurgeLabels \intersect Labels
  BY DEF PurgeLabels, Labels, Classes
<1>1. CASE PurgeStart
  BY <1>0, <1>1, CallsOther, Zenon
     DEF PurgeStart, Stream, net, buffers, known
<1>2. ASSUME At("purged") \/ At("purge_read"), Return(ok'),
             wbuf' = << >>, Close \/ UNCHANGED Stream
      PROVE  Keeps
  <2>1. CallInv' /\ PurgeInv' /\ Idle' /\ BelowIdle
        /\ Top.at \notin SendLabels
    <3>1. Top.at \in PurgeLabels /\ stack # << >> /\ stack' = Rest
      BY <1>2, <1>l DEF At, Return
    <3>2. Top.at \notin SendLabels /\ Top.at # "reading"
      BY <3>1 DEF PurgeLabels, SendLabels
    <3>3. QED
      BY <1>0, <1>2, <3>1, <3>2, FlushReturns, SendingOnTop, Zenon
  <2>2. ASSUME HereInv PROVE HereInv'
    <3>1. CASE UNCHANGED Stream
      BY <2>1, <2>2, <3>1, TopOfStream, Zenon
         DEF HereInv, TopStream, Stream, Idle
    <3>2. QED
      BY <1>2, <3>1, EmptyStream
  <2>3. QED
    BY <2>1, <2>2 DEF Keeps
<1>3. ASSUME NEW t \in Frames, t.at = "purge_read", Changes(t),
             At("purged") \/ At("purge_read"), wbuf = << >>, UNCHANGED Stream
      PROVE  Keeps
  <2>1. Top.at \in PurgeLabels /\ stack # << >> /\ t.at \in PurgeLabels
        /\ Top.at \notin SendLabels /\ t.at \notin SendLabels
        /\ Top.at # "reading"
    BY <1>3 DEF At, PurgeLabels, SendLabels
  <2>2. CallInv' /\ BelowIdle' /\ Top' = t
    BY <1>0, <1>3, <2>1, FlushGoesOn, Zenon
  <2>3. PurgeInv'
    <3>1. TopPurge'
      BY <1>3, <2>2 DEF TopPurge, Stream
    <3>2. QED
      BY <2>2, <3>1, PurgeOfTop
  <2>4. ASSUME HereInv PROVE HereInv'
    <3>1. BelowIdle
      BY <1>0, <2>1, SendingOnTop
    <3>2. TopStream'
      BY <1>3, <2>1, <2>2, <2>4, <3>1, TopOfStream, Zenon
         DEF TopStream, Stream
    <3>3. QED
      BY <2>2, <3>2, StreamOfTop
  <2>5. QED
    BY <2>2, <2>3, <2>4 DEF Keeps
<1>4. CASE PurgeFlushed
  <2>1. CASE ok /\ UNCHANGED << net, buffers, known >>
    <3> DEFINE t == [Top EXCEPT !.at = "purge_read", !.left = Decrement]
    <3>1. stack # << >> /\ Top \in Frames /\ At("purged")
      BY <1>0, <1>4, TopFrame DEF PurgeFlushed, At
    <3>2. Decrement \in Int
      BY <1>0 DEF Decrement, ConnTypes
    <3>3. t \in Frames /\ t.at = "purge_read"
      <4>1. "purge_read" \in Labels
        BY <1>l
      <4>2. QED
        BY <3>1, <3>2, <4>1, Zenon DEF Frames
    <3>5. Changes(t)
      BY <1>0, <1>4, <2>1, <3>1, Zenon DEF PurgeFlushed, Changes, Top
    <3>6. QED
      BY <1>3, <2>1, <3>1, <3>3, <3>5, Zenon
         DEF PurgeInv, Stream, net, buffers, known
  <2>2. CASE ~ok /\ Close /\ Return(FALSE)
    BY <1>2, <1>4, <2>2, Zenon DEF PurgeFlushed, Close, Return
  <2>3. QED
    BY <1>4, <2>1, <2>2, Zenon DEF PurgeFlushed
<1>5. CASE PurgeRead
  <2> DEFINE t == [Top EXCEPT !.left = @ - 1]
  <2>1. stack # << >> /\ Top \in Frames /\ At("purge_read")
    BY <1>0, <1>5, TopFrame DEF PurgeRead, At
  <2>2. Top.left - 1 \in Int
    BY <2>1 DEF Frames
  <2>3. t \in Frames /\ t.at = "purge_read"
    BY <2>1, <2>2, Zenon DEF Frames, At
  <2>5. Changes(t)
    BY <1>0, <1>5, <2>1 DEF PurgeRead, Changes, Top
  <2>6. QED
    BY <1>3, <1>5, <2>1, <2>3, <2>5, Zenon
       DEF PurgeInv, Stream, net, PurgeRead, ReadOne
<1>6. CASE PurgeFails
  BY <1>2, <1>6, Zenon DEF PurgeFails, ReadLost, Close, Return
<1>7. CASE PurgeEnd
  BY <1>2, <1>7, Zenon DEF PurgeEnd, Return, PurgeInv, Stream, net, buffers,
     known
<1>8. QED
  BY <1>1, <1>4, <1>5, <1>6, <1>7

(* A part of what is left is sent.                                         *)
Resplits(r, w, u, v) == r \o (w \o u) \o v = r \o w \o (u \o v)
(* The same for a send that takes n of q.                                  *)
Sends(r, w, q, n) ==
    r \o (w \o SubSeq(q, 1, n)) \o SubSeq(q, n + 1, Len(q)) = r \o w \o q

(* Concatenation is associative.                                           *)
LEMMA Resplit ==
    ASSUME NEW S, NEW r \in Seq(S), NEW w \in Seq(S), NEW u \in Seq(S),
           NEW v \in Seq(S)
    PROVE  Resplits(r, w, u, v)
BY DEF Resplits

(* A partial send moves requests from the buffer to the wire.              *)
LEMMA SentPart ==
    ASSUME NEW S, NEW r \in Seq(S), NEW w \in Seq(S), NEW q \in Seq(S),
           NEW n \in 0 .. Len(q)
    PROVE  Sends(r, w, q, n)
<1>1. /\ SubSeq(q, 1, n) \in Seq(S) /\ SubSeq(q, n + 1, Len(q)) \in Seq(S)
      /\ SubSeq(q, 1, n) \o SubSeq(q, n + 1, Len(q)) = q
  BY PrefixFacts, SuffixFacts, Zenon
<1>2. Resplits(r, w, SubSeq(q, 1, n), SubSeq(q, n + 1, Len(q)))
  BY <1>1, Resplit, Zenon
<1>3. QED
  BY <1>1, <1>2, Zenon DEF Resplits, Sends

(* A flush ends: what it was sending is sent, or the connection is closed, *)
(* or nothing was.                                                         *)
LEMMA FlushEnds ==
    ASSUME TypeInv, CallInv, stack # << >>, Top.at \in FlushLabels,
           stack' = Rest, ok' => wbuf' = << >>,
           \/ Close
           \/ UNCHANGED Stream /\ (SendsInTime => Top.at \notin SendLabels)
           \/ /\ Top.at \in SendLabels /\ Top.todo = << >> /\ wbuf' = << >>
              /\ UNCHANGED << fd, peer, wire, written, received >>
    PROVE  Keeps
<1>0. stack \in Seq(Frames) /\ Top.at # "reading"
  BY DEF TypeInv, FlushLabels
<1>1. CallInv' /\ PurgeInv' /\ Idle' /\ BelowIdle
  BY <1>0, FlushReturns, SendingOnTop, Zenon
<1>2. ASSUME SendsInTime, HereInv PROVE HereInv'
  <2>1. TopStream
    BY <1>1, <1>2, TopOfStream
  <2>2. CASE UNCHANGED Stream /\ Top.at \notin SendLabels
    BY <1>1, <2>1, <2>2, Zenon DEF TopStream, HereInv, Stream, Idle
  <2>3. CASE /\ Top.at \in SendLabels /\ Top.todo = << >> /\ wbuf' = << >>
             /\ UNCHANGED << fd, peer, wire, written, received >>
    <3>1. (fd => peer) => received \o wire \o << >> = written
      BY <2>1, <2>3, Zenon DEF TopStream
    <3>2. QED
      BY <1>1, <2>3, <3>1, Zenon DEF HereInv, Idle
  <2>4. QED
    BY <1>2, <2>2, <2>3, EmptyStream
<1>3. QED
  BY <1>1, <1>2 DEF Keeps

(* io_flush: its start, the purge before it, its failures and its end.     *)
LEMMA FlushKeeps ==
    ASSUME TypeInv, CallInv, PurgeInv,
           FlushStart \/ FlushPurged \/ SendFails \/ SendDone
    PROVE  Keeps
<1>0. stack \in Seq(Frames)
  BY DEF TypeInv
<1>l. /\ {"flush", "flush_purged", "send"} \subseteq FlushLabels
      /\ "send" \in Labels /\ "send" \in SendLabels
      /\ "flush" \notin SendLabels /\ "flush_purged" \notin SendLabels
  BY DEF FlushLabels, SendLabels, Labels, Classes
<1>1. CASE FlushStart
  <2>1. /\ At("flush") /\ UNCHANGED Stream
        /\ UNCHANGED << client, purging, bytes, cursor >>
    BY <1>1 DEF FlushStart, Stream, net, buffers, known, api
  <2>2. CASE PurgeDue
    BY <1>0, <1>1, <2>1, <2>2, CallsOther, Zenon DEF FlushStart, Purge
  <2>3. CASE ~PurgeDue
    <3>1. Goto("flush_purged")
      BY <1>1, <2>3, Zenon DEF FlushStart, Purge
    <3>2. CallInv' /\ BelowIdle' /\ Top'.at = "flush_purged"
      BY <1>0, <1>l, <2>1, <3>1, FlushGoto
    <3>3. ~PurgeDue'
      BY <2>1, <2>3, SamePurge
    <3>4. TopPurge'
      BY <3>2, <3>3 DEF TopPurge
    <3>5. ASSUME HereInv PROVE TopStream'
      <4>1. BelowIdle /\ Top.at \notin SendLabels
        BY <1>0, <1>l, <2>1, SendingOnTop DEF At
      <4>2. QED
        BY <1>l, <2>1, <3>2, <3>5, <4>1, TopOfStream, Zenon
           DEF TopStream, Stream
    <3>6. QED
      BY <3>2, <3>4, <3>5, PurgeOfTop, StreamOfTop, Zenon DEF Keeps
  <2>4. QED
    BY <2>2, <2>3
<1>2. CASE FlushPurged
  <2>1. /\ At("flush_purged") /\ UNCHANGED Stream
        /\ UNCHANGED << client, purging, bytes, cursor >>
    BY <1>2 DEF FlushPurged, Stream, net, buffers, known, api
  <2>2. CASE ok /\ UNCHANGED ok
             /\ stack' = [stack EXCEPT ![Len(stack)].at = "send",
                                       ![Len(stack)].todo = wbuf]
    <3> DEFINE t == [Top EXCEPT !.at = "send", !.todo = wbuf]
    <3>1. wbuf \in Seq(Requests) /\ Top \in Frames /\ stack # << >>
      BY <1>0, <2>1, TopFrame, HereTypes DEF At, TypeInv, ConnTypes
    <3>2. t \in Frames /\ t.at = "send" /\ t.todo = wbuf
      BY <1>l, <3>1, Zenon DEF Frames
    <3>3. Changes(t)
      BY <1>0, <2>2, <3>1, Zenon DEF Changes, Top
    <3> HIDE DEF t
    <3>4. CallInv' /\ BelowIdle' /\ Top' = t
      BY <1>0, <1>l, <2>1, <3>1, <3>2, <3>3, FlushGoesOn DEF At
    <3>5. t.todo # << >> => ~PurgeDue'
      BY <2>1, <2>2, <3>2, SamePurge, Zenon DEF PurgeInv
    <3>6. TopPurge'
      BY <3>2, <3>4, <3>5 DEF TopPurge
    <3>7. ASSUME HereInv PROVE TopStream'
      <4>1. BelowIdle /\ Top.at \notin SendLabels
        BY <1>0, <1>l, <2>1, SendingOnTop DEF At
      <4>2. QED
        BY <1>l, <2>1, <3>2, <3>4, <3>7, <4>1, TopOfStream, Zenon
           DEF TopStream, Stream
    <3>8. QED
      BY <3>4, <3>6, <3>7, PurgeOfTop, StreamOfTop, Zenon DEF Keeps
  <2>3. CASE ~ok /\ Return(FALSE)
    BY <1>l, <2>1, <2>3, FlushEnds DEF At, Return
  <2>4. QED
    BY <1>2, <2>2, <2>3, Zenon DEF FlushPurged
<1>3. CASE SendFails
  BY <1>l, <1>3, FlushEnds DEF SendFails, At, Return
<1>4. CASE SendDone
  <2>1. UNCHANGED << fd, peer, wire, written, received >>
    BY <1>4 DEF SendDone, net, known
  <2>2. stack # << >> /\ Top.at = "send" /\ Top.todo = << >>
        /\ wbuf' = << >> /\ stack' = Rest
    BY <1>4, Zenon DEF SendDone, At, Return
  <2>3. QED
    BY <1>l, <2>1, <2>2, FlushEnds
<1>5. QED
  BY <1>1, <1>2, <1>3, <1>4

(* A send that goes on: the same is left.                                  *)
LEMMA SendGoesOn ==
    ASSUME TypeInv, CallInv, PurgeInv, NEW a \in SendLabels, At(a),
           NEW l \in SendLabels, Goto(l), UNCHANGED Stream,
           UNCHANGED << client, call, purging, bytes, cursor >>,
           l = "wait" => fd,
           l = "input" => Callbacks,
           Top.todo # << >> => ~PurgeDue \/ Callbacks
    PROVE  Keeps
<1>0. stack \in Seq(Frames) /\ stack # << >> /\ Top.at = a
      /\ Top.at # "reading"
  BY DEF TypeInv, At, SendLabels
<1>1. /\ CallInv' /\ BelowIdle' /\ Top'.at = l /\ Top'.todo = Top.todo
  BY <1>0, FlushGoto DEF SendLabels, FlushLabels
<1>2. (PurgeDue' <=> PurgeDue) /\ (Callbacks' <=> Callbacks)
  BY SamePurge DEF Callbacks
<1>3. TopPurge'
  BY <1>1, <1>2 DEF TopPurge, SendLabels, Stream
<1>4. ASSUME HereInv PROVE TopStream'
  <2>1. TopStream
    BY <1>0, <1>4, SendingOnTop, TopOfStream
  <2>2. QED
    BY <1>0, <1>1, <2>1, Zenon DEF TopStream, Stream
<1>5. QED
  BY <1>1, <1>3, <1>4, PurgeOfTop, StreamOfTop, Zenon DEF Keeps

(* As long as WatermarkKept, sending does not make a purge due.            *)
LEMMA SendKeepsPurge ==
    ASSUME TypeInv, ~PurgeDue, NEW n \in Nat, bytes' = bytes + n,
           UNCHANGED << client, purging, cursor >>,
           cursor' >= 2 => purging' \/ bytes' < client'.bytes_watermark
    PROVE  ~PurgeDue'
<1>1. /\ bytes \in Nat /\ cursor \in Nat /\ client.bytes_watermark \in Int
      /\ client.msg_watermark \in Int
  <2>1. client.bytes_watermark \in Int /\ client.msg_watermark \in Int
    BY PipelineAssumption, SMTT(30) DEF TypeInv, ClientType
  <2>2. bytes \in Nat /\ cursor \in Nat
    BY HereTypes DEF TypeInv, ConnTypes
  <2>3. QED
    BY <2>1, <2>2
<1>2. CASE purging
  BY <1>2 DEF PurgeDue
<1>3. CASE ~purging /\ cursor < 2
  BY <1>1, <1>3 DEF PurgeDue
<1>4. CASE ~purging /\ ~(cursor < 2)
  BY <1>1, <1>4 DEF PurgeDue
<1>5. QED
  BY <1>2, <1>3, <1>4

(* io_flush sends a part of the buffer.  No purge is due after it, so that *)
(* no nested flush sends the same part again.                              *)
LEMMA SendKeeps ==
    ASSUME TypeInv, CallInv, PurgeInv, WatermarkKept', Send
    PROVE  Keeps
<1> DEFINE n == Min({Room, Len(Top.todo)})
           q == SubSeq(Top.todo, n + 1, Len(Top.todo))
           t == [Top EXCEPT !.todo = q]
<1>0. /\ stack \in Seq(Frames) /\ ConnTypes /\ client.wire_room \in Int
  BY HereTypes, PipelineAssumption DEF TypeInv, ClientType
<1>1. /\ At("send") /\ stack # << >> /\ Top.at = "send" /\ Top \in Frames
      /\ Top.todo \in Seq(Requests) /\ Top.todo # << >> /\ fd
  BY <1>0, TopFrame, Zenon DEF Send, At, Frames
<1>2. n \in 0 .. Len(Top.todo) /\ n \in Nat
  <2>1. Room \in Int /\ Room >= 0
    <3>1. Len(wire) \in Nat
      BY <1>0 DEF ConnTypes
    <3>2. QED
      BY <1>0, <3>1 DEF Send, Room
  <2>2. n \in 0 .. Len(Top.todo)
    BY <1>1, <2>1, MinOfRoom, Zenon
  <2> HIDE DEF n
  <2>3. QED
    BY <1>1, <2>2
<1>3. /\ wire' = wire \o SubSeq(Top.todo, 1, n) /\ bytes' = bytes + n
      /\ UNCHANGED << fd, peer, wbuf, written, received >>
      /\ UNCHANGED << client, call, purging, cursor, ok >>
  BY Zenon DEF Send, known, api
<1>4. Changes(t)
  BY <1>0, <1>1 DEF Send, Changes, Top
<1> HIDE DEF n
<1>5. q \in Seq(Requests)
  BY <1>1, <1>2, SuffixFacts, Zenon
<1>6. t \in Frames /\ t.at = "send" /\ t.todo = q
  BY <1>1, <1>5, Zenon DEF Frames
<1> HIDE DEF q, t
<1>7. CallInv' /\ BelowIdle' /\ Top' = t /\ BelowIdle
  <2>1. Top.at \in FlushLabels /\ t.at \in FlushLabels /\ Top.at # "reading"
    BY <1>1, <1>6 DEF FlushLabels
  <2>2. QED
    BY <1>0, <1>1, <1>4, <1>6, <2>1, FlushGoesOn, SendingOnTop, Zenon
<1>8. ASSUME t.todo # << >> PROVE ~PurgeDue' \/ Callbacks'
  <2>1. ~PurgeDue \/ Callbacks
    BY <1>1, Zenon DEF PurgeInv
  <2>2. cursor' >= 2 => purging' \/ bytes' < client'.bytes_watermark
    BY <1>6, <1>7, <1>8 DEF WatermarkKept, At, BelowIdle
  <2>3. CASE Callbacks
    BY <1>3, <2>3 DEF Callbacks
  <2>4. CASE ~PurgeDue
    BY <1>2, <1>3, <2>2, <2>4, SendKeepsPurge, Zenon
  <2>5. QED
    BY <2>1, <2>3, <2>4
<1>9. TopPurge'
  BY <1>6, <1>7, <1>8 DEF TopPurge
<1>10. ASSUME HereInv PROVE TopStream'
  <2>1. received \o wire' \o q = received \o wire \o Top.todo
    <3>1. Sends(received, wire, Top.todo, n)
      BY <1>0, <1>1, <1>2, SentPart, Zenon DEF ConnTypes
    <3>2. QED
      BY <1>3, <3>1, Zenon DEF Sends, q
  <2>2. "send" \in SendLabels
    BY DEF SendLabels
  <2>3. (fd => peer) => received \o wire \o Top.todo = written
    BY <1>1, <1>7, <1>10, <2>2, TopOfStream, Zenon DEF TopStream
  <2>4. QED
    BY <1>3, <1>6, <1>7, <2>1, <2>2, <2>3, Zenon DEF TopStream
<1>11. QED
  BY <1>7, <1>9, <1>10, PurgeOfTop, StreamOfTop, Zenon DEF Keeps


(* The stack stays as it is.                                               *)
LEMMA SameCalls ==
    ASSUME CallInv, PurgeInv, UNCHANGED << wbuf, fd >>,
           UNCHANGED << stack, ok, client, call >>,
           \/ UNCHANGED << purging, bytes, cursor >>
           \/ At("reading") \/ At("purge_read")
    PROVE  CallInv' /\ PurgeInv'
<1>1. CallInv'
  BY DEF CallInv
<1>2. Callbacks' <=> Callbacks
  BY DEF Callbacks
<1>3. UNCHANGED << wbuf, fd, ok, stack >>
  OBVIOUS
<1>4. PurgeInv'
  <2>1. CASE PurgeDue' <=> PurgeDue
    <3>1. /\ At("flush_purged")' <=> At("flush_purged")
          /\ At("purged")' <=> At("purged")
          /\ At("purge_read")' <=> At("purge_read")
          /\ At("send")' <=> At("send")
          /\ At("wait")' <=> At("wait")
          /\ Top' = Top /\ wbuf' = wbuf /\ stack' = stack
          /\ (ok' <=> ok)
          /\ (fd' <=> fd)
      BY <1>3 DEF At, Top
    <3>2. QED
      BY <1>2, <2>1, <3>1, Zenon DEF PurgeInv
  <2>2. CASE At("reading") \/ At("purge_read")
    <3>1. ~At("flush_purged") /\ ~At("purged") /\ ~At("send") /\ ~At("wait")
      BY <2>2 DEF At
    <3>2. QED
      BY <1>2, <1>3, <3>1, Zenon DEF PurgeInv, At, Top
  <2>3. QED
    BY <2>1, <2>2, SamePurge
<1>5. QED
  BY <1>1, <1>4

(* A step that changes no stack and sends nothing.                         *)
LEMMA SamePlace ==
    ASSUME CallInv, PurgeInv, UNCHANGED Stream,
           UNCHANGED << stack, ok, client, call >>,
           \/ UNCHANGED << purging, bytes, cursor >>
           \/ At("reading") \/ At("purge_read")
    PROVE  Keeps
<1>1. CallInv' /\ PurgeInv'
  BY SameCalls, Zenon DEF Stream
<1>2. HereInv => HereInv'
  BY Zenon DEF HereInv, Idle, Stream
<1>3. QED
  BY <1>1, <1>2 DEF Keeps

(* A reply is read, for an API call or in the middle of a flush.           *)
LEMMA ReadingReturns ==
    ASSUME stack \in Seq(Frames), CallInv, PurgeInv, At("reading"),
           stack' = Rest, UNCHANGED << client, call >>,
           Close \/ UNCHANGED Stream
    PROVE  Keeps
<1> DEFINE n == Len(stack)
<1>0. n \in Nat \ {0} /\ Top = stack[n] /\ stack # << >>
  BY TopFrame DEF At
<1>1. /\ Len(stack') = n - 1 /\ stack' \in Seq(Frames)
      /\ \A i \in 1 .. n - 1 : stack'[i] = stack[i]
  BY <1>0, PopFacts, Zenon
<1>2. CallInv'
  <2>1. ASSUME NEW i \in 1 .. n - 2
        PROVE  /\ Waits(stack'[i].at, stack'[i + 1].at)
               /\ stack'[i].at # "input"
    <3>1. i \in 1 .. n - 1 /\ i + 1 \in 1 .. n - 1 /\ i # n - 1
      BY <1>0
    <3>2. stack'[i] = stack[i] /\ stack'[i + 1] = stack[i + 1]
      BY <1>1, <3>1, Zenon
    <3>3. QED
      BY <3>1, <3>2, Zenon DEF CallInv
  <2>2. QED
    BY <1>0, <1>1, <2>1 DEF CallInv
<1>3. ASSUME stack' # << >> PROVE Waits(Top'.at, "reading")
  <2>1. n - 1 \in 1 .. n - 1 /\ Top' = stack[n - 1]
    BY <1>0, <1>1, <1>3 DEF Top
  <2>2. Waits(stack[n - 1].at, stack[n - 1 + 1].at)
    BY <2>1, Zenon DEF CallInv
  <2>3. stack[n - 1 + 1].at = "reading"
    BY <1>0 DEF At
  <2>4. QED
    BY <2>1, <2>2, <2>3
<1>4. PurgeInv'
  <2>1. /\ ~At("flush_purged")' /\ ~At("purged")' /\ ~At("purge_read")'
        /\ ~At("send")' /\ ~At("wait")'
    BY <1>3 DEF At, Waits, MidLabels, SendLabels, FlushLabels, PurgeLabels
  <2>2. \A i \in 1 .. Len(stack') : i \in 1 .. n - 1 /\ i \in 1 .. n
    BY <1>0, <1>1
  <2>3. \A i \in 1 .. Len(stack') : stack'[i].at = "input" => Callbacks
    BY <1>1, <2>2, Zenon DEF PurgeInv
  <2>4. Callbacks' <=> Callbacks
    BY DEF Callbacks
  <2>5. QED
    BY <2>1, <2>3, <2>4, Zenon DEF PurgeInv
<1>5. ASSUME HereInv, UNCHANGED Stream PROVE HereInv'
  <2>1. \A i \in 1 .. Len(stack') : i \in 1 .. n /\ stack'[i] = stack[i]
    BY <1>0, <1>1
  <2>2. stack[n].at \notin SendLabels
    BY <1>0 DEF At, SendLabels
  <2>3. \A i \in 1 .. n : i = n \/ i \in 1 .. Len(stack')
    BY <1>0, <1>1
  <2>4. Idle' => Idle
    BY <2>1, <2>2, <2>3, Zenon DEF Idle
  <2>5. QED
    BY <1>5, <2>1, <2>4, Zenon DEF HereInv, Stream
<1>6. QED
  BY <1>2, <1>4, <1>5, EmptyStream DEF Keeps

(* Reading replies, by a purge, a callback or a call.                      *)
LEMMA ReadKeeps ==
    ASSUME TypeInv, CallInv, PurgeInv,
           \/ Fill \/ SkipQuietError \/ JunkRead \/ ResponseRead
           \/ ResponseFails
    PROVE  Keeps
<1>0. stack \in Seq(Frames)
  BY DEF TypeInv
<1>1. CASE Fill \/ SkipQuietError \/ JunkRead
  <2>1. At("reading") \/ At("purge_read")
    BY <1>1, Zenon DEF Fill, SkipQuietError, JunkRead, Reading
  <2>2. UNCHANGED << stack, ok, client, call >>
    BY <1>1, Zenon DEF Fill, SkipQuietError, JunkRead, control, api
  <2>3. UNCHANGED Stream
    BY <1>1, Zenon DEF Fill, SkipQuietError, JunkRead, ReadOne, Stream, net,
       known
  <2>4. QED
    BY <2>1, <2>2, <2>3, SamePlace, Zenon
<1>2. CASE ResponseRead
  BY <1>0, <1>2, ReadingReturns, Zenon
     DEF ResponseRead, Return, ReadOne, Stream, net
<1>3. CASE ResponseFails
  BY <1>0, <1>3, ReadingReturns, Zenon DEF ResponseFails, Return, ReadLost
<1>4. QED
  BY <1>1, <1>2, <1>3

(* The kernel takes no more.                                               *)
LEMMA BlockedKeeps ==
    ASSUME TypeInv, CallInv, PurgeInv, SendBlocked
    PROVE  Keeps
<1>0. stack \in Seq(Frames) /\ At("send") /\ fd /\ Top.todo # << >>
  BY Zenon DEF TypeInv, SendBlocked
<1>1. /\ UNCHANGED << purging, bytes, cursor, client, call >>
      /\ UNCHANGED Stream
  BY Zenon DEF SendBlocked, Stream, known, api
<1>2. CASE UNCHANGED << stack, ok >>
  BY <1>1, <1>2, SamePlace, Zenon
<1>3. CASE Callbacks /\ Invoke("input", Frame("reading"))
  <2> DEFINE f == Frame("reading")
             n == Len(stack)
  <2>1. f \in Frames /\ f.at = "reading"
    <3>1. "reading" \in Labels
      BY DEF Labels, Classes, ReadLabels
    <3>2. QED
      BY <3>1, FrameTypes, Zenon
  <2> HIDE DEF f
  <2>2. Waits("input", f.at) /\ "send" \in FlushLabels
        /\ "input" \in FlushLabels
    BY <2>1 DEF Waits, FlushLabels
  <2>3. /\ CallInv' /\ stack' # << >> /\ Top' = f
        /\ n \in Nat \ {0} /\ Len(stack') = n + 1
        /\ stack'[n].at = "input" /\ stack'[n].todo = Top.todo
        /\ \A i \in 1 .. n - 1 :
              stack'[i] = stack[i] /\ stack[i].at \notin SendLabels
    BY <1>0, <1>3, <2>1, <2>2, FlushInvokes, Zenon DEF f
  <2>4. stack'[n + 1] = f
    BY <2>3 DEF Top
  <2>5. \A i \in 1 .. Len(stack') : i = n + 1 \/ i = n \/ i \in 1 .. n - 1
    BY <2>3
  <2>6. PurgeInv'
    <3>1. /\ ~At("flush_purged")' /\ ~At("purged")' /\ ~At("purge_read")'
          /\ ~At("send")' /\ ~At("wait")'
      BY <2>1, <2>3 DEF At
    <3>2. Callbacks'
      BY <1>1, <1>3 DEF Callbacks
    <3>3. QED
      BY <3>1, <3>2, Zenon DEF PurgeInv
  <2>7. ASSUME HereInv PROVE HereInv'
    <3>1. n \in 1 .. Len(stack') /\ n \in 1 .. n
      BY <2>3
    <3>2. "input" \in SendLabels /\ "send" \in SendLabels
          /\ "reading" \notin SendLabels
      BY DEF SendLabels
    <3>3. ~Idle'
      BY <2>3, <3>1, <3>2, Zenon DEF Idle
    <3>4. ASSUME NEW i \in 1 .. Len(stack'), stack'[i].at \in SendLabels
          PROVE  stack'[i].todo = Top.todo
      BY <2>1, <2>3, <2>4, <2>5, <3>2, <3>4, Zenon
    <3>5. (fd => peer) => received \o wire \o Top.todo = written
      <4>1. BelowIdle
        BY <1>0, SendingOnTop DEF At
      <4>2. QED
        BY <1>0, <2>7, <3>2, <4>1, TopOfStream, Zenon DEF TopStream, At
    <3>6. QED
      BY <1>1, <3>3, <3>4, <3>5, Zenon DEF HereInv, Stream
  <2>8. QED
    BY <2>3, <2>6, <2>7 DEF Keeps
<1>4. CASE ~Callbacks /\ Purge("wait")
  <2>1. ~PurgeDue
    BY <1>0, <1>4, Zenon DEF PurgeInv
  <2>2. Goto("wait")
    BY <1>4, <2>1, Zenon DEF Purge
  <2>3. {"wait", "send"} \subseteq SendLabels
    BY DEF SendLabels
  <2>4. QED
    BY <1>0, <1>1, <2>1, <2>2, <2>3, SendGoesOn
<1>5. QED
  BY <1>2, <1>3, <1>4, Zenon DEF SendBlocked, Callbacks

(* io_wait, and the callbacks it runs, within a flush.                     *)
LEMMA WaitKeeps ==
    ASSUME TypeInv, CallInv, PurgeInv, InputProcessed \/ Wait
    PROVE  Keeps
<1>l. {"wait", "send", "input"} \subseteq SendLabels /\ "wait" \in FlushLabels
  BY DEF SendLabels, FlushLabels
<1>0. UNCHANGED << purging, client, call >>
  BY Zenon DEF InputProcessed, Wait, api
<1>1. CASE InputProcessed
  <2>1. At("input") /\ Goto("send") /\ UNCHANGED << bytes, cursor >>
        /\ UNCHANGED Stream
    BY <1>1, Zenon DEF InputProcessed, Stream, net, buffers, known
  <2>2. Callbacks
    <3>1. Len(stack) \in 1 .. Len(stack) /\ stack[Len(stack)].at = "input"
      BY <2>1, TopFrame DEF At, TypeInv
    <3>2. QED
      BY <3>1, Zenon DEF PurgeInv
  <2>3. QED
    BY <1>l, <1>0, <2>1, <2>2, SendGoesOn
<1>2. CASE Wait
  <2>0. At("wait") /\ fd /\ stack # << >> /\ Top.at = "wait"
    BY <1>2 DEF Wait, PurgeInv, At
  <2>1. CASE Goto("send") /\ UNCHANGED << net, buffers, known >>
    <3>1. UNCHANGED << bytes, cursor >> /\ UNCHANGED Stream
      BY <2>1 DEF Stream, net, buffers, known
    <3>2. Top.todo # << >> => ~PurgeDue \/ Callbacks
      BY <2>0, Zenon DEF PurgeInv
    <3>3. QED
      BY <1>l, <1>0, <2>0, <2>1, <3>1, <3>2, SendGoesOn
  <2>2. CASE Return(FALSE) /\ UNCHANGED << net, buffers, known >>
             /\ (~fd \/ "send" \in client.timeouts)
    <3>1. ~SendsInTime
      BY <2>0, <2>2 DEF SendsInTime
    <3>2. stack' = Rest /\ ~ok' /\ UNCHANGED Stream
      BY <2>2, Zenon DEF Return, Stream, net, buffers, known
    <3>3. QED
      BY <1>l, <2>0, <3>1, <3>2, FlushEnds, Zenon
  <2>3. CASE Close /\ Return(FALSE)
    BY <1>l, <2>0, <2>3, FlushEnds, Zenon DEF Return
  <2>4. QED
    BY <1>2, <2>1, <2>2, <2>3, Zenon DEF Wait
<1>3. QED
  BY <1>1, <1>2

-----------------------------------------------------------------------------
(* The servers.                                                            *)
Serves(r, w) == Append(r, Head(w)) \o Tail(w) = r \o w

(* A server takes the next request off the wire.                           *)
LEMMA ServedPart ==
    ASSUME NEW S, NEW r \in Seq(S), NEW w \in Seq(S), w # << >>
    PROVE  Serves(r, w)
BY DEF Serves

(* The server in use takes a request or drops the connection.              *)
LEMMA ServerKeeps ==
    ASSUME TypeInv, CallInv, PurgeInv, Serve \/ Drop
    PROVE  Keeps
<1>0. received \in Seq(Requests) /\ wire \in Seq(Requests)
  BY HereTypes DEF TypeInv, ConnTypes
<1>1. /\ UNCHANGED << wbuf, fd, stack, ok, client, call >>
      /\ UNCHANGED << purging, bytes, cursor >>
  BY Zenon DEF Serve, Drop, buffers, control, api
<1>2. CallInv' /\ PurgeInv'
  BY <1>1, SameCalls, Zenon
<1>3. CASE Drop
  <2>1. fd' /\ ~peer'
    BY <1>1, <1>3 DEF Drop
  <2>2. HereInv'
    BY <2>1 DEF HereInv
  <2>3. QED
    BY <1>2, <2>2 DEF Keeps
<1>4. CASE Serve
  <2>1. received' \o wire' = received \o wire
    <3>1. Serves(received, wire)
      BY <1>0, <1>4, ServedPart, Zenon DEF Serve
    <3>2. QED
      BY <1>4, <3>1, Zenon DEF Serve, Serves
  <2>2. UNCHANGED << wbuf, stack, written >>
    BY <1>1, <1>4 DEF Serve
  <2>3. fd /\ peer /\ (fd' <=> fd)
    BY <1>1, <1>4 DEF Serve
  <2>4. HereInv => HereInv'
    BY <2>1, <2>2, <2>3, Zenon DEF HereInv, Idle
  <2>5. QED
    BY <1>2, <2>4 DEF Keeps
<1>5. QED
  BY <1>3, <1>4

(* So does another one.                                                    *)
LEMMA OtherKeeps ==
    ASSUME TypeInv, OnceInv, NEW s \in 1 .. N, s # cur,
           ServeOther(s) \/ DropOther(s)
    PROVE  OnceInv'
<1>0. s \in 0 .. N /\ others \in [0 .. N -> Conns] /\ others[s] \in Conns
  <2>1. s \in 0 .. N
    BY ServerRanges
  <2>2. QED
    BY <2>1 DEF TypeInv
<1>1. UNCHANGED << vars, cur, job >>
  BY Zenon DEF ServeOther, DropOther
<1>2. /\ UNCHANGED Stream
      /\ UNCHANGED << stack, ok, client, call, purging, bytes, cursor, cur >>
  BY <1>1, Zenon DEF vars, net, buffers, known, control, api, Stream
<1>3. Keeps
  BY <1>2, SamePlace, Zenon DEF OnceInv
<1>4. ASSUME ConnInv(others[s]) PROVE ConnInv(others'[s])
  <2> DEFINE c == others[s]
  <2>1. CASE ServeOther(s)
    <3>1. PICK b : others' = [others EXCEPT ![s] =
                     [c EXCEPT !.back = b, !.wire = Tail(c.wire),
                               !.received = Append(c.received, Head(c.wire))]]
      BY <2>1, Zenon DEF ServeOther
    <3>2. /\ c.wire \in Seq(Requests) /\ c.received \in Seq(Requests)
          /\ c.wire # << >> /\ c.fd /\ c.peer
      BY <1>0, <2>1, Zenon DEF ServeOther, Conns
    <3>3. Serves(c.received, c.wire)
      BY <3>2, ServedPart, Zenon
    <3>4. others'[s] =
             [c EXCEPT !.back = b, !.wire = Tail(c.wire),
                       !.received = Append(c.received, Head(c.wire))]
      BY <1>0, <3>1, Zenon
    <3>5. /\ others'[s].wire = Tail(c.wire)
          /\ others'[s].received = Append(c.received, Head(c.wire))
          /\ others'[s].wbuf = c.wbuf /\ others'[s].written = c.written
      BY <1>0, <3>4, Zenon DEF Conns
    <3>6. QED
      BY <1>4, <3>2, <3>3, <3>5, Zenon DEF ConnInv, Serves
  <2>2. CASE DropOther(s)
    <3>1. PICK b : others' = [others EXCEPT ![s] =
                     [c EXCEPT !.peer = FALSE, !.wire = << >>, !.back = b]]
      BY <2>2, Zenon DEF DropOther
    <3>2. others'[s] = [c EXCEPT !.peer = FALSE, !.wire = << >>, !.back = b]
      BY <1>0, <3>1, Zenon
    <3>3. others'[s].fd = c.fd /\ others'[s].peer = FALSE
      BY <1>0, <3>2, Zenon DEF Conns
    <3>4. others'[s].fd /\ ~others'[s].peer
      BY <2>2, <3>3 DEF DropOther
    <3>5. QED
      BY <3>4 DEF ConnInv
  <2>3. QED
    BY <2>1, <2>2
<1>5. ASSUME OthersInv PROVE OthersInv'
  <2>1. \A x \in 0 .. N : x # s => others'[x] = others[x]
    BY <1>0, Zenon DEF ServeOther, DropOther
  <2>2. ASSUME NEW x \in 0 .. N, x # cur PROVE ConnInv(others'[x])
    BY <1>0, <1>4, <1>5, <2>1, <2>2, Zenon DEF OthersInv
  <2>3. N' = N /\ cur' = cur
    BY <1>2 DEF N
  <2>4. QED
    BY <2>2, <2>3, Zenon DEF OthersInv, ConnInv
<1>6. SendsInTime' <=> SendsInTime
  BY <1>2 DEF SendsInTime
<1>7. QED
  BY <1>3, <1>5, <1>6, Zenon DEF Keeps, OnceInv, StreamInv

-----------------------------------------------------------------------------
(* The calls of the program.                                               *)
StartLabels ==
    {"vdo", "drain", "fetch", "buffers", "quit", "version", "flush_send",
     "each", "drain_all", "fetch_any"}

(* Calls start with an empty stack.                                        *)
LEMMA Beginnings ==
    ASSUME TypeInv, One(Begin) \/ SBegin
    PROVE  /\ stack = << >> /\ UNCHANGED client /\ Moved
           /\ \E l \in StartLabels : stack' = << Frame(l) >>
<1> DEFINE Starts ==
             /\ stack = << >> /\ UNCHANGED client
             /\ \E l \in StartLabels : stack' = << Frame(l) >>
<1>1. ASSUME NEW c, NEW l \in StartLabels, StartCall(c, l) PROVE Starts
  BY <1>1, Zenon DEF StartCall
<1>2. CASE One(Begin)
  <2>1. UNCHANGED << cur, others, connection >>
    BY <1>2, Zenon DEF One, Begin, StartStorage, StartDelete, StartIncr,
       StartTouch, StartExist, StartGet, StartFetch, StartFlushBuffers,
       StartQuit, Start, connection
  <2>2. StartFetch \/ \E c : \E l \in StartLabels : StartCall(c, l)
    BY <1>2, Zenon DEF One, Begin, StartStorage, StartDelete, StartIncr,
       StartTouch, StartExist, StartGet, StartFlushBuffers, StartQuit, Start,
       StartLabels
  <2>3. CASE StartFetch
    BY <2>1, <2>3, Zenon DEF StartFetch, StartLabels, Moved
  <2>4. QED
    BY <1>1, <2>1, <2>2, <2>3, Zenon DEF Moved
<1>3. CASE SBegin
  <2>1. StartFetchAny \/ \E c : \E l \in StartLabels : StartCall(c, l)
    BY <1>3, Zenon DEF SBegin, StartVersion, StartFlush, StartStat,
       StartStatExecute, StartVerbosity, StartDump, StartMget, StartJob,
       StartOn, StartLabels
  <2>2. \/ UNCHANGED << cur, others, connection >>
        \/ \E s \in 1 .. N : Select(s)
    BY <1>3, Zenon DEF SBegin, StartVersion, StartFlush, StartStat,
       StartStatExecute, StartVerbosity, StartDump, StartMget, StartJob,
       StartOn, StartFetchAny
  <2>3. Moved
    <3>1. \A s \in 1 .. N : s \in 0 .. N
      BY ServerRanges
    <3>2. QED
      BY <2>2, <3>1, Zenon DEF Moved
  <2>4. CASE StartFetchAny
    BY <2>3, <2>4, Zenon DEF StartFetchAny, StartLabels
  <2>5. QED
    BY <1>1, <2>1, <2>3, <2>4, Zenon
<1>4. QED
  BY <1>2, <1>3

(* A call that starts keeps the invariant.                                 *)
LEMMA BeginningKeeps ==
    ASSUME TypeInv, OnceInv, One(Begin) \/ SBegin
    PROVE  OnceInv'
<1>1. /\ stack = << >> /\ UNCHANGED client /\ Moved
      /\ \E l \in StartLabels : stack' = << Frame(l) >>
  BY Beginnings
<1>2. PICK l \in StartLabels : stack' = << Frame(l) >>
  BY <1>1
<1>3. l \notin MidLabels
  BY DEF StartLabels, MidLabels, SendLabels
<1>4. /\ Len(stack') = 1 /\ stack'[1].at = l
  BY <1>2 DEF Frame
<1>5. CallInv' /\ Settled' /\ Idle
  BY <1>1, <1>3, <1>4 DEF CallInv, Settled, Idle, Top, MidLabels
<1>6. PurgeInv'
  BY <1>5, SettledPurge
<1>7. ASSUME SendsInTime PROVE HereInv' /\ OthersInv'
  BY <1>1, <1>5, <1>7, MovedStream, Zenon DEF OnceInv, StreamInv, Settled
<1>8. StreamInv'
  BY <1>1, <1>7, Zenon DEF StreamInv, SendsInTime
<1>9. QED
  BY <1>5, <1>6, <1>8 DEF OnceInv


-----------------------------------------------------------------------------
(* The steps of flushes, purges and reads, and the server's, keep it.      *)
LEMMA ConnectionKeeps ==
    ASSUME IInv, OnceInv, WatermarkKept',
           \/ One(Step) /\ ~PlainStep
           \/ One(Serve) \/ One(Drop)
    PROVE  OnceInv'
<1>1. TypeInv /\ CallInv /\ PurgeInv
  BY DEF IInv, OnceInv
<1>2. Keeps
  BY <1>1, PurgeKeeps, FlushKeeps, SendKeeps, BlockedKeeps, WaitKeeps,
     ReadKeeps, ServerKeeps, Zenon DEF One, Step, PlainStep
<1>3. UNCHANGED << client, cur, others >>
  <2>1. CASE One(Step)
    BY <2>1, StepKeeps, Zenon DEF One
  <2>2. CASE One(Serve) \/ One(Drop)
    BY <2>2, Zenon DEF One, Serve, Drop, api
  <2>3. QED
    BY <2>1, <2>2
<1>4. OthersInv => OthersInv'
  BY <1>3, OthersKept, Zenon
<1>5. SendsInTime' <=> SendsInTime
  BY <1>3 DEF SendsInTime
<1>6. QED
  BY <1>2, <1>4, <1>5, Zenon DEF Keeps, OnceInv, StreamInv

(* Every step keeps the invariant as long as the watermark is.             *)
LEMMA OnceKept ==
    ASSUME IInv, OnceInv, WatermarkKept', [SNext]_svars
    PROVE  OnceInv'
<1>0. TypeInv
  BY DEF IInv
<1>1. CASE One(Begin) \/ SBegin
  BY <1>0, <1>1, BeginningKeeps
<1>2. CASE One(PlainStep) \/ JobStep
  BY <1>2, PlainKeeps
<1>3. CASE (One(Step) /\ ~PlainStep) \/ One(Serve) \/ One(Drop)
  BY <1>3, ConnectionKeeps
<1>4. CASE One(Step) /\ PlainStep
  BY <1>2, <1>4 DEF One
<1>5. CASE \E s \in 1 .. N : s # cur /\ (ServeOther(s) \/ DropOther(s))
  BY <1>0, <1>5, OtherKeeps, Zenon
<1>6. CASE One(Done) \/ UNCHANGED svars
  <2>1. UNCHANGED << vars, cur, others >>
    BY <1>6 DEF One, Done, svars
  <2>2. /\ UNCHANGED Stream
        /\ UNCHANGED << stack, ok, client, call, purging, bytes, cursor >>
        /\ UNCHANGED << cur, others >>
    BY <2>1, Zenon DEF vars, net, buffers, known, control, api, Stream
  <2>3. Keeps
    BY <2>2, SamePlace, Zenon DEF OnceInv
  <2>4. OthersInv => OthersInv'
    BY <2>2, OthersKept, Zenon
  <2>5. SendsInTime' <=> SendsInTime
    BY <2>2 DEF SendsInTime
  <2>6. QED
    BY <2>3, <2>4, <2>5, Zenon DEF Keeps, OnceInv, StreamInv
<1>7. QED
  BY <1>1, <1>2, <1>3, <1>4, <1>5, <1>6, Zenon
     DEF SNext, SStep, SServe

(* The invariant holds initially.                                          *)
LEMMA OnceInit ==
    ASSUME SInit
    PROVE  OnceInv
<1>1. /\ stack = << >> /\ received = << >> /\ wire = << >> /\ wbuf = << >>
      /\ written = << >> /\ others = [s \in 0 .. N |-> NewConn]
  BY Zenon DEF SInit, Init
<1>2. << >> \o << >> \o << >> = << >> /\ Len(<< >>) = 0
  OBVIOUS
<1>3. CallInv /\ PurgeInv
  BY <1>1 DEF CallInv, PurgeInv, At
<1>4. HereInv
  <2>1. \A i \in 1 .. Len(stack) : FALSE
    BY <1>1
  <2>2. QED
    BY <1>1, <1>2, <2>1, Zenon DEF HereInv
<1>5. OthersInv
  <2>1. NewConn.wbuf = << >> /\ NewConn.wire = << >>
        /\ NewConn.received = << >> /\ NewConn.written = << >>
    BY DEF NewConn
  <2>2. ConnInv(NewConn)
    BY <1>2, <2>1, Zenon DEF ConnInv
  <2>3. QED
    BY <1>1, <2>2, Zenon DEF OthersInv
<1>6. QED
  BY <1>3, <1>4, <1>5 DEF OnceInv, StreamInv

(* What is sent is the beginning of what was written.                      *)
LEMMA Beginning ==
    ASSUME NEW S, NEW s \in Seq(S), NEW t \in Seq(S)
    PROVE  \E n \in 0 .. Len(s \o t) : s = SubSeq(s \o t, 1, n)
<1>1. /\ s \o t \in Seq(S) /\ Len(s \o t) = Len(s) + Len(t)
      /\ \A i \in 1 .. Len(s) : (s \o t)[i] = s[i]
      /\ Len(s) \in Nat /\ Len(t) \in Nat
  OBVIOUS
<1>2. PICK u \in Seq(S) : /\ u = s \o t /\ Len(s) \in 0 .. Len(u)
                          /\ \A i \in 1 .. Len(s) : u[i] = s[i]
  <2>1. Len(s) \in 0 .. Len(s \o t)
    BY <1>1
  <2>2. QED
    BY <1>1, <2>1, Zenon
<1>3. /\ SubSeq(u, 1, Len(s)) \in Seq(S)
      /\ Len(SubSeq(u, 1, Len(s))) = Len(s)
      /\ \A i \in 1 .. Len(s) : SubSeq(u, 1, Len(s))[i] = u[i]
  BY <1>2, PrefixFacts, Zenon
<1>4. s = SubSeq(u, 1, Len(s))
  BY <1>2, <1>3
<1>5. QED
  BY <1>2, <1>4, Zenon

(* The invariant says that each request is sent once, in order.            *)
LEMMA OnceSent ==
    ASSUME IInv, OnceInv
    PROVE  SentOnce
<1>0. ConnTypes /\ stack \in Seq(Frames)
  BY HereTypes DEF IInv, TypeInv
<1>1. SUFFICES ASSUME SendsInTime, fd, peer
               PROVE  \E n \in 0 .. Len(written) :
                         received \o wire = SubSeq(written, 1, n)
  BY DEF SentOnce
<1>2. received \o wire \in Seq(Requests)
  BY <1>0, ConcatTypes, Zenon DEF ConnTypes
<1>3. PICK t \in Seq(Requests) : received \o wire \o t = written
  <2>1. HereInv
    BY <1>1, Zenon DEF OnceInv, StreamInv
  <2>2. CASE Idle
    BY <1>0, <1>1, <2>1, <2>2, Zenon DEF HereInv, ConnTypes
  <2>3. CASE ~Idle
    <3>1. PICK i \in 1 .. Len(stack) : stack[i].at \in SendLabels
      BY <2>3, Zenon DEF Idle
    <3>2. stack[i] \in Frames
      BY <1>0
    <3>3. stack[i].todo \in Seq(Requests)
      BY <3>2, Zenon DEF Frames
    <3>4. QED
      BY <1>1, <2>1, <3>1, <3>3, Zenon DEF HereInv
  <2>4. QED
    BY <2>2, <2>3
<1>4. \E n \in 0 .. Len(received \o wire \o t) :
         received \o wire = SubSeq(received \o wire \o t, 1, n)
  BY <1>2, Beginning, Zenon
<1>5. QED
  BY <1>3, <1>4, Zenon

(* For every client and any number of servers: the server gets the         *)
(* requests in the order in which memcached_io_writev buffered them, each  *)
(* at most once, whatever flushes, purges, callbacks and lost connections  *)
(* come in between, as long as no send times out and no flush reaches      *)
(* io_bytes_watermark with something left to send.                         *)
THEOREM ServersSendOnce == SSpec /\ []WatermarkKept => []SentOnce
<1>1. SInit => OnceInv
  BY OnceInit
<1>2. IInv /\ OnceInv /\ WatermarkKept' /\ [SNext]_svars => OnceInv'
  BY OnceKept
<1>3. IInv /\ OnceInv => SentOnce
  BY OnceSent
<1>4. QED
  BY <1>1, <1>2, <1>3, ServersInductive, PTL DEF SSpec
=============================================================================
