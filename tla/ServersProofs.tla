--------------------------- MODULE ServersProofs ----------------------------
(***************************************************************************)
(* What the calls over several servers do, for every client: the types of  *)
(* the state, the shape of the stack of activations, and from these the    *)
(* rounds of a replicated get and the answers to the calls that go from    *)
(* one server to the next.                                                 *)
(***************************************************************************)
EXTENDS Servers, TLAPS

-----------------------------------------------------------------------------
(* Types.                                                                  *)

(* Where an activation can be, by the function that it is of.              *)
FlushLabels == {"flush", "flush_purged", "send", "wait", "input"}
PurgeLabels == {"purge", "purged", "purge_read"}
WriteLabels == {"writev", "writev_full", "writev_again"}
ReadLabels == {"response", "reading"}
VdoLabels == {"vdo", "vdo_sent", "answered"}
QuitLabels == {"quit", "quit_sent", "slurp_wait"}
InnerLabels ==
    UNION {FlushLabels, PurgeLabels, WriteLabels, ReadLabels, VdoLabels,
           QuitLabels}

(* The places of a flush or a purge that is under way.                     *)
SendLabels == {"send", "wait", "input"}
MidLabels == SendLabels \union {"flush_purged", "purged", "purge_read"}

FetchLabels == {"fetch", "fetched"}
GetLabels ==
    {"drain", "draining", "keys", "key_sent", "noop", "noop_sent", "got"}
VersionLabels == {"version", "version_sent", "version_read", "version_got"}
EachLabels == {"each", "each_sent", "each_got", "each_free"}
FlushAllLabels == {"flush_send", "flush_sent", "flush_read"}
DumpLabels == {"dump", "dump_sent", "dump_read", "dump_got"}
DrainLabels == {"drain_all", "draining_all"}
MgetLabels ==
    {"mget_key", "mget_connect", "mget_sent", "mget_end", "mget_noop",
     "mget_flushed"}
ReplicaLabels == {"replica", "replica_connect", "replica_sent"}

AnyLabels == {"fetch_any", "fetch_got"}
BufferLabels == {"buffers", "flushed"}

(* The places of one function.                                             *)
Classes ==
    {FlushLabels, PurgeLabels, WriteLabels, ReadLabels, VdoLabels, QuitLabels,
     FetchLabels, GetLabels, VersionLabels, EachLabels, FlushAllLabels,
     DumpLabels, DrainLabels, MgetLabels, ReplicaLabels, AnyLabels,
     BufferLabels}

Labels == {"end"} \union UNION Classes

VdoCalls ==
    {"set", "add", "delete", "incr", "touch", "exist", "replica_set",
     "replica_delete"}

(* Where the lowest activation, the one of the API call, can be.           *)
OuterLabels(c) ==
    CASE c \in VdoCalls -> VdoLabels
      [] c \in {"get", "mget"} -> GetLabels \union FetchLabels
      [] c = "fetch" -> FetchLabels
      [] c = "flush_buffers" -> BufferLabels
      [] c = "quit" -> QuitLabels
      [] c = "version" -> VersionLabels \union {"end"}
      [] c = "flush" ->
             (IF client.binary THEN FlushAllLabels ELSE EachLabels)
             \union {"end"}
      [] c \in {"stat", "verbosity"} -> EachLabels \union {"end"}
      [] c = "stat_execute" -> VersionLabels \union EachLabels \union {"end"}
      [] c = "dump" -> VersionLabels \union DumpLabels \union {"end"}
      [] c = "mget_all" ->
             (IF Replicated THEN ReplicaLabels ELSE MgetLabels)
             \union DrainLabels \union {"end"}
      [] c = "fetch_any" -> AnyLabels \union {"end"}

Requests == [id : Nat, kind : Kinds, key : Nat]
Whats == {"FAILED", "ANSWER", "VALUE", "END", "NOTFOUND", "QUIET_ERROR"}
Replies == [id : Nat, kind : Kinds, key : Nat, what : Whats]
Frames ==
    [at : Labels, todo : Seq(Requests), left : Int, req : Requests,
     flush : BOOLEAN]
Conns ==
    [fd : BOOLEAN, peer : BOOLEAN, wire : Seq(Requests), back : Seq(Replies),
     wbuf : Seq(Requests), rbuf : Seq(Replies), bytes : Nat, cursor : Nat,
     version : BOOLEAN, written : Seq(Requests), received : Seq(Requests)]
Jobs ==
    [x : Nat \ {0}, slab : Nat, replica : Nat, start : Nat, success : BOOLEAN,
     sent : SUBSET Nat, dead : SUBSET Nat, lost : BOOLEAN, errors : BOOLEAN,
     asked : SUBSET Nat, answered : SUBSET Nat, count : Nat,
     last : Whats \union {"none"},
     rc : {"none", "SUCCESS", "END", "NOTFOUND", "CONNECTION_FAILURE"}]

TypeInv ==
    /\ client \in Clients
    /\ stack \in Seq(Frames) /\ ok \in BOOLEAN /\ purging \in BOOLEAN
    /\ reply \in Replies /\ call \in [api : AllCalls, id : Nat]
    /\ calls \in Nat /\ fetching \in Nat
    /\ Here \in Conns
    /\ cur \in 0 .. N
    /\ others \in [0 .. N -> Conns]
    /\ job \in Jobs

(* The lowest activation is the API call, and those above it are of the    *)
(* functions that work on a connection.                                    *)
StackInv ==
    \A i \in 1 .. Len(stack) :
        stack[i].at \in IF i = 1 THEN OuterLabels(call.api) ELSE InnerLabels

(* A request is made up by memcached_vdo only for a call of the program.   *)
RequestInv ==
    /\ stack # << >> => call.id # 0
    /\ \A i \in 1 .. Len(stack) :
        stack[i].at = "vdo" /\ stack[i].req = NoRequest => i = 1

(* The inductive invariant: types, the shape of the stack, and where       *)
(* requests come from.                                                     *)
IInv == TypeInv /\ StackInv /\ RequestInv

-----------------------------------------------------------------------------
(* The stack.                                                              *)

(* The activation on top becomes t; and it does so and invokes f.          *)
Changes(t) == stack' = [stack EXCEPT ![Len(stack)] = t]
Pushes(t, f) == stack' = Append([stack EXCEPT ![Len(stack)] = t], f)

(* A place of the same function.                                           *)
Follows(a, b) ==
    /\ b \in Labels
    /\ a \in InnerLabels => b \in InnerLabels
    /\ a \in OuterLabels(call.api) => b \in OuterLabels(call.api)
    /\ b \in MidLabels => a \in FlushLabels \union PurgeLabels

(* What a step does with the activations: nothing, or the one on top goes  *)
(* on, calls another one, or returns.                                      *)
StackMove ==
    \/ UNCHANGED stack
    \/ /\ stack # << >>
       /\ \/ \E t \in Frames :
                /\ Follows(Top.at, t.at) /\ t.at # "vdo"
                /\ Changes(t)
          \/ \E t \in Frames, f \in Frames :
                /\ Follows(Top.at, t.at) /\ t.at # "vdo"
                /\ f.at \in InnerLabels \ MidLabels
                /\ f.at = "vdo" => f.req # NoRequest
                /\ Pushes(t, f)
          \/ stack' = Rest

(* The activation on top is the last one of the stack.                     *)
LEMMA TopFrame ==
    ASSUME stack \in Seq(Frames), stack # << >>
    PROVE  /\ Len(stack) \in Nat \ {0}
           /\ Top = stack[Len(stack)] /\ Top \in Frames
BY DEF Top

(* Goto changes the activation on top and no other.                        *)
LEMMA ChangeFacts ==
    ASSUME stack \in Seq(Frames), stack # << >>, NEW t \in Frames, Changes(t)
    PROVE  /\ stack' \in Seq(Frames) /\ Len(stack') = Len(stack)
           /\ stack'[Len(stack)] = t
           /\ \A i \in 1 .. Len(stack) - 1 : stack'[i] = stack[i]
BY TopFrame DEF Changes

(* Invoke keeps the activations below the one on top.                      *)
LEMMA PushFacts ==
    ASSUME stack \in Seq(Frames), stack # << >>, NEW t \in Frames,
           NEW f \in Frames, Pushes(t, f)
    PROVE  /\ stack' \in Seq(Frames) /\ Len(stack') = Len(stack) + 1
           /\ stack'[Len(stack) + 1] = f /\ stack'[Len(stack)] = t
           /\ \A i \in 1 .. Len(stack) - 1 : stack'[i] = stack[i]
BY TopFrame DEF Pushes

(* The first n elements of a sequence.                                     *)
LEMMA PrefixFacts ==
    ASSUME NEW S, NEW s \in Seq(S), NEW n \in 0 .. Len(s)
    PROVE  /\ SubSeq(s, 1, n) \in Seq(S) /\ Len(SubSeq(s, 1, n)) = n
           /\ \A i \in 1 .. n : SubSeq(s, 1, n)[i] = s[i]
OBVIOUS

(* A sequence is its first n elements and the rest: a send that takes part *)
(* of the buffer loses nothing.                                            *)
LEMMA SuffixFacts ==
    ASSUME NEW S, NEW s \in Seq(S), NEW n \in 0 .. Len(s)
    PROVE  /\ SubSeq(s, n + 1, Len(s)) \in Seq(S)
           /\ Len(SubSeq(s, n + 1, Len(s))) = Len(s) - n
           /\ SubSeq(s, 1, n) \o SubSeq(s, n + 1, Len(s)) = s
<1> DEFINE u == SubSeq(s, 1, n)
           v == SubSeq(s, n + 1, Len(s))
           w == u \o v
<1>1. /\ u \in Seq(S) /\ Len(u) = n
      /\ \A i \in 1 .. n : u[i] = s[i]
  BY PrefixFacts
<1>2. /\ v \in Seq(S) /\ Len(v) = Len(s) - n
      /\ \A i \in 1 .. Len(s) - n : v[i] = s[n + i]
  OBVIOUS
<1> HIDE DEF u, v
<1>3. /\ w \in Seq(S) /\ Len(w) = Len(s)
      /\ \A i \in 1 .. Len(s) : w[i] = IF i <= n THEN u[i] ELSE v[i - n]
  BY <1>1, <1>2
<1> HIDE DEF w
<1>4. \A i \in 1 .. Len(s) : w[i] = s[i]
  BY <1>1, <1>2, <1>3
<1>5. w = s
  BY <1>3, <1>4
<1>6. QED
  <2>1. w = u \o v
    BY DEF w
  <2>2. QED
    BY <1>2, <1>5, <2>1, Zenon DEF u, v

(* The minimum that the send and the buffer take.                          *)
LEMMA MinOfTwo ==
    ASSUME NEW a \in Int, NEW b \in Int
    PROVE  Min({a, b}) = IF a <= b THEN a ELSE b
<1> DEFINE m == IF a <= b THEN a ELSE b
<1>1. /\ m \in {a, b} /\ \A y \in {a, b} : m <= y
      /\ \A x \in {a, b} : (\A y \in {a, b} : x <= y) => x = m
  OBVIOUS
<1>2. QED
  BY <1>1 DEF Min

(* What fits into a room of size r.                                        *)
LEMMA MinOfRoom ==
    ASSUME NEW S, NEW q \in Seq(S), NEW r \in Int, r >= 0
    PROVE  Min({r, Len(q)}) \in 0 .. Len(q)
<1>1. Len(q) \in Nat
  OBVIOUS
<1>2. Min({r, Len(q)}) = IF r <= Len(q) THEN r ELSE Len(q)
  BY <1>1, MinOfTwo
<1>3. QED
  BY <1>1, <1>2

(* What a send takes is at most what there is.                             *)
LEMMA MinOfSpace ==
    ASSUME NEW a \in Int, NEW b \in Nat, Min({a, b}) > 0
    PROVE  Min({a, b}) \in 0 .. b
BY MinOfTwo

(* Popping and pushing is replacing the top.                               *)
LEMMA ReplaceTop ==
    ASSUME stack \in Seq(Frames), stack # << >>, NEW f \in Frames
    PROVE  Append(Rest, f) = [stack EXCEPT ![Len(stack)] = f]
<1> DEFINE t == Append(Rest, f)
           u == [stack EXCEPT ![Len(stack)] = f]
<1>1. Len(stack) \in Nat \ {0} /\ Len(stack) - 1 \in 0 .. Len(stack)
  OBVIOUS
<1>2. /\ Rest \in Seq(Frames) /\ Len(Rest) = Len(stack) - 1
      /\ \A i \in 1 .. Len(stack) - 1 : Rest[i] = stack[i]
  BY <1>1, PrefixFacts, Zenon DEF Rest
<1>3. /\ t \in Seq(Frames) /\ Len(t) = Len(stack)
      /\ \A i \in 1 .. Len(stack) :
            t[i] = IF i = Len(stack) THEN f ELSE stack[i]
  BY <1>1, <1>2
<1>4. /\ u \in Seq(Frames) /\ Len(u) = Len(stack)
      /\ \A i \in 1 .. Len(stack) :
            u[i] = IF i = Len(stack) THEN f ELSE stack[i]
  BY <1>1
<1> HIDE DEF t, u
<1>5. t = u
  BY <1>3, <1>4
<1>6. QED
  BY <1>5 DEF t, u

(* Return keeps the activations below the one on top.                      *)
LEMMA PopFacts ==
    ASSUME stack \in Seq(Frames), stack # << >>, stack' = Rest
    PROVE  /\ stack' \in Seq(Frames) /\ Len(stack') = Len(stack) - 1
           /\ \A i \in 1 .. Len(stack) - 1 : stack'[i] = stack[i]
<1>1. Len(stack) - 1 \in 0 .. Len(stack)
  BY TopFrame
<1>2. QED
  BY <1>1, PrefixFacts, Zenon DEF Rest

(* A step that goes on, invokes or returns keeps the shape of the stack.   *)
LEMMA MoveKeepsStack ==
    ASSUME stack \in Seq(Frames), StackInv, RequestInv, StackMove,
           UNCHANGED << client, call >>
    PROVE  stack' \in Seq(Frames) /\ StackInv' /\ RequestInv'
<1> DEFINE Out == OuterLabels(call.api)
<1>0. Out' = Out BY DEF OuterLabels, Replicated
<1>1. CASE UNCHANGED stack
  BY <1>0, <1>1 DEF StackInv, RequestInv
<1>2. ASSUME stack # << >>, NEW t \in Frames, Follows(Top.at, t.at),
             t.at # "vdo", Changes(t)
      PROVE  stack' \in Seq(Frames) /\ StackInv' /\ RequestInv'
  BY <1>0, <1>2, TopFrame, ChangeFacts DEF StackInv, RequestInv, Follows
<1>3. ASSUME stack # << >>, NEW t \in Frames, NEW f \in Frames,
             Follows(Top.at, t.at), t.at # "vdo",
             f.at \in InnerLabels \ MidLabels,
             f.at = "vdo" => f.req # NoRequest, Pushes(t, f)
      PROVE  stack' \in Seq(Frames) /\ StackInv' /\ RequestInv'
  <2>1. /\ Len(stack) \in Nat \ {0} /\ Top = stack[Len(stack)]
        /\ stack' \in Seq(Frames) /\ Len(stack') = Len(stack) + 1
        /\ stack'[Len(stack) + 1] = f /\ stack'[Len(stack)] = t
        /\ \A i \in 1 .. Len(stack) - 1 : stack'[i] = stack[i]
    BY <1>3, TopFrame, PushFacts, Zenon
  <2>2. t.at \in IF Len(stack) = 1 THEN Out ELSE InnerLabels
    <3>1. Len(stack) \in 1 .. Len(stack)
      BY <2>1
    <3>2. Top.at \in IF Len(stack) = 1 THEN Out ELSE InnerLabels
      BY <2>1, <3>1, Zenon DEF StackInv
    <3>3. QED
      BY <1>3, <3>2 DEF Follows
  <2>3. f.at \in InnerLabels
    BY <1>3
  <2>4. StackInv'
    <3>1. SUFFICES ASSUME NEW i \in 1 .. Len(stack')
                   PROVE  stack'[i].at \in IF i = 1 THEN Out ELSE InnerLabels
      BY <1>0 DEF StackInv
    <3>2. CASE i \in 1 .. Len(stack) - 1
      BY <2>1, <3>2 DEF StackInv
    <3>3. CASE i = Len(stack)
      BY <2>1, <2>2, <3>3
    <3>4. CASE i = Len(stack) + 1
      BY <2>1, <2>3, <3>4
    <3>5. QED
      BY <2>1, <3>2, <3>3, <3>4
  <2>5. RequestInv'
    BY <1>3, <2>1 DEF RequestInv
  <2>6. QED
    BY <2>1, <2>4, <2>5
<1>4. CASE stack # << >> /\ stack' = Rest
  <2>1. /\ Len(stack) \in Nat \ {0}
        /\ stack' \in Seq(Frames) /\ Len(stack') = Len(stack) - 1
        /\ \A i \in 1 .. Len(stack) - 1 : stack'[i] = stack[i]
    BY <1>4, TopFrame, PopFacts, Zenon
  <2>2. QED
    BY <1>0, <1>4, <2>1 DEF StackInv, RequestInv
<1>5. QED
  BY <1>1, <1>2, <1>3, <1>4 DEF StackMove

(* The places of one function can follow each other.                       *)
LEMMA SameFunction ==
    ASSUME call.api \in AllCalls, NEW L \in Classes, NEW a \in L, NEW b \in L
    PROVE  Follows(a, b)
<1> USE DEF FlushLabels, PurgeLabels, WriteLabels, ReadLabels, VdoLabels,
            QuitLabels, FetchLabels, GetLabels, VersionLabels, EachLabels,
            FlushAllLabels, DumpLabels, DrainLabels, MgetLabels,
            ReplicaLabels, AnyLabels, BufferLabels
<1>1. a \in InnerLabels => b \in InnerLabels
  BY DEF Classes, InnerLabels
<1>2. a \in OuterLabels(call.api) => b \in OuterLabels(call.api)
  BY DEF Classes, OuterLabels, AllCalls, VdoCalls
<1>3. b \in Labels
  BY DEF Labels
<1>4. b \in MidLabels => a \in FlushLabels \union PurgeLabels
  BY DEF Classes, MidLabels, SendLabels
<1>5. QED
  BY <1>1, <1>2, <1>3, <1>4 DEF Follows

(* The places of io_flush, io_write, memcached_purge and the reads follow  *)
(* each other as in the code.                                              *)
LEMMA ConnectionPlaces ==
    ASSUME call.api \in AllCalls
    PROVE  /\ Follows("flush", "flush_purged") /\ Follows("flush_purged", "send")
           /\ Follows("send", "send") /\ Follows("send", "input")
           /\ Follows("send", "wait") /\ Follows("input", "send")
           /\ Follows("wait", "send") /\ Follows("purge", "purged")
           /\ Follows("purged", "purge_read") /\ Follows("purge_read", "purge_read")
           /\ Follows("writev", "writev_full") /\ Follows("writev", "writev_again")
           /\ Follows("writev_again", "writev") /\ Follows("response", "reading")
           /\ Follows("writev_full", "flush")
<1>1. /\ Follows("flush", "flush_purged") /\ Follows("flush_purged", "send")
      /\ Follows("send", "send") /\ Follows("send", "input")
      /\ Follows("send", "wait") /\ Follows("input", "send")
      /\ Follows("wait", "send")
  BY SameFunction DEF Classes, FlushLabels
<1>2. /\ Follows("purge", "purged") /\ Follows("purged", "purge_read")
      /\ Follows("purge_read", "purge_read")
  BY SameFunction DEF Classes, PurgeLabels
<1>3. /\ Follows("writev", "writev_full") /\ Follows("writev", "writev_again")
      /\ Follows("writev_again", "writev")
  BY SameFunction DEF Classes, WriteLabels
<1>4. /\ Follows("response", "reading")
  BY SameFunction DEF Classes, ReadLabels
<1>5. /\ Follows("writev_full", "flush")
  BY DEF Follows, Labels, Classes, AllCalls, InnerLabels, OuterLabels,
         VdoCalls, FlushLabels, MidLabels, SendLabels, WriteLabels, VdoLabels, QuitLabels, FetchLabels, GetLabels,
         VersionLabels, EachLabels, FlushAllLabels, DumpLabels, DrainLabels,
         MgetLabels, ReplicaLabels, AnyLabels, BufferLabels
<1>6. QED
  BY <1>1, <1>2, <1>3, <1>4, <1>5

(* The places of memcached_vdo, the gets, fetch and quit do too.           *)
LEMMA CallPlaces ==
    ASSUME call.api \in AllCalls
    PROVE  /\ Follows("vdo", "vdo_sent") /\ Follows("vdo_sent", "answered")
           /\ Follows("drain", "draining") /\ Follows("draining", "draining")
           /\ Follows("draining", "keys") /\ Follows("keys", "key_sent")
           /\ Follows("key_sent", "keys") /\ Follows("key_sent", "got")
           /\ Follows("key_sent", "noop") /\ Follows("noop", "noop_sent")
           /\ Follows("noop_sent", "got") /\ Follows("fetch", "fetched")
           /\ Follows("fetched", "fetch") /\ Follows("buffers", "flushed")
           /\ Follows("quit", "quit_sent") /\ Follows("quit_sent", "slurp_wait")
           /\ Follows("got", "fetch")
<1>1. /\ Follows("vdo", "vdo_sent") /\ Follows("vdo_sent", "answered")
  BY SameFunction DEF Classes, VdoLabels
<1>2. /\ Follows("drain", "draining") /\ Follows("draining", "draining")
      /\ Follows("draining", "keys") /\ Follows("keys", "key_sent")
      /\ Follows("key_sent", "keys") /\ Follows("key_sent", "got")
      /\ Follows("key_sent", "noop") /\ Follows("noop", "noop_sent")
      /\ Follows("noop_sent", "got")
  BY SameFunction DEF Classes, GetLabels
<1>3. /\ Follows("fetch", "fetched") /\ Follows("fetched", "fetch")
  BY SameFunction DEF Classes, FetchLabels
<1>4. /\ Follows("buffers", "flushed")
  BY SameFunction DEF Classes, BufferLabels
<1>5. /\ Follows("quit", "quit_sent") /\ Follows("quit_sent", "slurp_wait")
  BY SameFunction DEF Classes, QuitLabels
<1>6. /\ Follows("got", "fetch")
  BY DEF Follows, Labels, Classes, AllCalls, InnerLabels, OuterLabels,
         VdoCalls, FlushLabels, PurgeLabels, MidLabels, SendLabels,
         WriteLabels, ReadLabels, VdoLabels, QuitLabels, FetchLabels, GetLabels,
         VersionLabels, EachLabels, FlushAllLabels, DumpLabels, DrainLabels,
         MgetLabels, ReplicaLabels, AnyLabels, BufferLabels
<1>7. QED
  BY <1>1, <1>2, <1>3, <1>4, <1>5, <1>6

(* The activations that others call.                                       *)
Callable(f) ==
    /\ f \in Frames /\ f.at \in InnerLabels \ MidLabels
    /\ f.at = "vdo" => f.req # NoRequest

(* New activations are well typed.                                         *)
LEMMA FrameTypes ==
    /\ NoRequest \in Requests
    /\ \A l \in Labels : /\ Frame(l) \in Frames /\ Frame(l).at = l
                         /\ Frame(l).todo = << >>
<1>1. NoRequest \in Requests
  BY DEF NoRequest, Requests, Kinds
<1>2. << >> \in Seq(Requests)
  OBVIOUS
<1>3. QED
  BY <1>1, <1>2 DEF Frame, Frames

(* And so are those of memcached_io_writev.                                *)
LEMMA WritevTypes ==
    ASSUME NEW r \in Requests, NEW f \in BOOLEAN
    PROVE  /\ Writev(r, f) \in Frames /\ Writev(r, f).at = "writev"
           /\ Writev(r, f).todo = << >> /\ Writev(r, f).req = r
<1> DEFINE w == Frame("writev")
<1>1. w \in Frames /\ w.at = "writev" /\ w.todo = << >>
  BY FrameTypes DEF Labels, Classes, WriteLabels
<1>2. QED
  BY <1>1, Zenon DEF Writev, Frames

(* The places of the functions that calls share are places.                *)
LEMMA InnerAreLabels == InnerLabels \subseteq Labels
BY DEF InnerLabels, Labels, Classes

(* The activations that the steps invoke may be invoked anywhere.          *)
LEMMA CallableFrames ==
    /\ Callable(Flush)
    /\ Callable(Frame("purge")) /\ Callable(Frame("reading"))
    /\ Callable(Frame("response")) /\ Callable(Frame("quit"))
    /\ \A r \in Requests, f \in BOOLEAN : Callable(Writev(r, f))
<1>1. {"flush", "purge", "reading", "response", "quit", "writev"}
         \subseteq InnerLabels \ MidLabels
  BY DEF InnerLabels, FlushLabels, PurgeLabels, WriteLabels, ReadLabels,
         QuitLabels, MidLabels, SendLabels
<1>2. QED
  BY <1>1, InnerAreLabels, FrameTypes, WritevTypes DEF Callable, Flush

(* Updates of one or two fields keep the type of an activation.            *)
LEMMA FrameUpdates ==
    ASSUME NEW f \in Frames, NEW l \in Labels, NEW n \in Int,
           NEW q \in Seq(Requests)
    PROVE  /\ [f EXCEPT !.at = l] \in Frames
           /\ [f EXCEPT !.left = n] \in Frames
           /\ [f EXCEPT !.todo = q] \in Frames
           /\ [f EXCEPT !.at = l, !.left = n] \in Frames
           /\ [f EXCEPT !.at = l, !.todo = q] \in Frames
<1>1. [f EXCEPT !.at = l] \in Frames /\ [f EXCEPT !.left = n] \in Frames
  BY DEF Frames
<1>2. [f EXCEPT !.todo = q] \in Frames
  BY DEF Frames
<1>3. [f EXCEPT !.at = l, !.left = n] \in Frames
  BY Zenon DEF Frames
<1>4. [f EXCEPT !.at = l, !.todo = q] \in Frames
  BY Zenon DEF Frames
<1>5. QED
  BY <1>1, <1>2, <1>3, <1>4

(* The forms in which the actions move the stack.                          *)
LEMMA ChangeMoves ==
    ASSUME stack \in Seq(Frames), stack # << >>,
           NEW t \in Frames, Follows(Top.at, t.at), t.at # "vdo", Changes(t)
    PROVE  StackMove
BY DEF StackMove

(* Going on within a function is a move of the stack.                      *)
LEMMA GotoMoves ==
    ASSUME stack \in Seq(Frames), NEW a, At(a),
           NEW l, Follows(a, l), l # "vdo", Goto(l)
    PROVE  StackMove
<1> DEFINE t == [Top EXCEPT !.at = l]
<1>1. t \in Frames /\ t.at = l
  BY TopFrame, Zenon DEF Frames, At, Follows
<1>2. Changes(t)
  BY TopFrame, Zenon DEF Goto, Changes, At
<1>3. QED
  BY <1>1, <1>2, Zenon DEF StackMove, At

(* Calling a function is a move of the stack.                              *)
LEMMA InvokeMoves ==
    ASSUME stack \in Seq(Frames), NEW a, At(a),
           NEW l, Follows(a, l), l # "vdo",
           NEW f, Callable(f), Invoke(l, f)
    PROVE  StackMove
<1> DEFINE t == [Top EXCEPT !.at = l]
<1>1. t \in Frames /\ t.at = l
  BY TopFrame, Zenon DEF Frames, At, Follows
<1>2. Pushes(t, f)
  BY TopFrame, Zenon DEF Invoke, Pushes, At
<1>3. QED
  BY <1>1, <1>2, Zenon DEF StackMove, At, Callable

(* Returning is a move of the stack, and hands over the result.            *)
LEMMA ReturnMoves ==
    ASSUME NEW a, At(a), NEW v, Return(v)
    PROVE  StackMove /\ ok' = v
BY DEF StackMove, At, Return

-----------------------------------------------------------------------------
(* Every step of module Pipeline moves the stack so.                       *)
LEMMA ConnectionMoves ==
    ASSUME TypeInv,
           \/ PurgeStart \/ PurgeFlushed \/ PurgeRead \/ PurgeFails
           \/ PurgeEnd \/ FlushStart \/ FlushPurged
           \/ Send \/ SendFails \/ SendDone \/ SendBlocked
           \/ InputProcessed \/ Wait
           \/ WriteStart \/ WriteFull \/ WriteEnd
           \/ Fill \/ SkipQuietError \/ JunkRead \/ ResponseRead
           \/ ResponseFails \/ Response
    PROVE  StackMove
<1> USE ConnectionPlaces, CallableFrames, GotoMoves, InvokeMoves, ReturnMoves
    DEF Goto, Invoke
<1>0. /\ stack \in Seq(Frames) /\ call.api \in AllCalls
      /\ cursor \in Nat /\ wbuf \in Seq(Requests) /\ wire \in Seq(Requests)
      /\ client.wire_room \in Int
  BY PipelineAssumption DEF TypeInv, Here, Conns, ClientType
<1> USE <1>0
<1>1. CASE PurgeStart BY <1>1, Zenon DEF PurgeStart
<1>2. CASE PurgeFlushed
  <2>1. CASE ok
    <3> DEFINE t == [Top EXCEPT !.at = "purge_read", !.left = Decrement]
    <3>1. Top \in Frames /\ "purge_read" \in Labels /\ Decrement \in Int
      BY <1>2, TopFrame DEF PurgeFlushed, At, Follows, Decrement
    <3>a. t \in Frames /\ t.at = "purge_read"
      BY <3>1, FrameUpdates, Zenon DEF Frames
    <3>2. Changes(t)
      BY <1>2, <2>1, TopFrame, Zenon DEF PurgeFlushed, At, Changes
    <3>3. QED
      BY <1>2, <3>a, <3>2, ChangeMoves, Zenon DEF PurgeFlushed, At
  <2>2. CASE ~ok BY <1>2, <2>2, Zenon DEF PurgeFlushed
  <2>3. QED BY <2>1, <2>2
<1>3. CASE PurgeRead
  <2> DEFINE t == [Top EXCEPT !.left = @ - 1]
  <2>a. Top \in Frames /\ Top.at = "purge_read" /\ Top.left - 1 \in Int
    BY <1>3, TopFrame DEF PurgeRead, At, Frames
  <2>1. t \in Frames /\ t.at = "purge_read"
    BY <2>a, FrameUpdates, Zenon DEF Frames
  <2>2. Changes(t)
    BY <1>3, TopFrame, Zenon DEF PurgeRead, At, Changes
  <2>3. QED
    BY <1>3, <2>1, <2>2, ChangeMoves, Zenon DEF PurgeRead, At
<1>4. CASE PurgeFails BY <1>4 DEF PurgeFails
<1>5. CASE PurgeEnd BY <1>5, Zenon DEF PurgeEnd
<1>6. CASE FlushStart BY <1>6, Zenon DEF FlushStart, Purge
<1>7. CASE FlushPurged
  <2>1. CASE ok
    <3> DEFINE t == [Top EXCEPT !.at = "send", !.todo = wbuf]
    <3>1. t \in Frames /\ t.at = "send"
      BY <1>7, TopFrame, Zenon DEF FlushPurged, At, Frames, Follows, TypeInv, Here,
         Conns
    <3>2. Changes(t)
      BY <1>7, <2>1, TopFrame, Zenon DEF FlushPurged, At, Changes
    <3>3. QED
      BY <1>7, <3>1, <3>2, ChangeMoves, Zenon DEF FlushPurged, At
  <2>2. CASE ~ok BY <1>7, <2>2, Zenon DEF FlushPurged
  <2>3. QED BY <2>1, <2>2
<1>8. CASE Send
  <2> DEFINE n == Min({Room, Len(Top.todo)})
             t == [Top EXCEPT !.todo = SubSeq(@, n + 1, Len(@))]
  <2>1. n \in 0 .. Len(Top.todo)
    <3>1. Top.todo \in Seq(Requests)
      BY <1>8, TopFrame, Zenon DEF Send, At, Frames
    <3>2. Len(wire) \in Nat
      OBVIOUS
    <3>3. Room \in Int /\ Room >= 0
      <4>1. Room > 0
        BY <1>8, Zenon DEF Send
      <4>2. QED
        BY <3>2, <4>1 DEF Room
    <3>4. QED
      BY <3>1, <3>3, MinOfRoom, Zenon
  <2>2. t \in Frames /\ t.at = "send"
    BY <1>8, <2>1, TopFrame, SuffixFacts, FrameUpdates, Zenon DEF Send, At, Frames
  <2>3. Changes(t)
    BY <1>8, TopFrame, Zenon DEF Send, At, Changes
  <2>4. QED
    BY <1>8, <2>2, <2>3, ChangeMoves, Zenon DEF Send, At
<1>9. CASE SendFails BY <1>9, Zenon DEF SendFails
<1>10. CASE SendDone BY <1>10, Zenon DEF SendDone
<1>11. CASE SendBlocked BY <1>11, Zenon DEF SendBlocked, Purge, StackMove
<1>12. CASE InputProcessed BY <1>12, Zenon DEF InputProcessed
<1>13. CASE Wait BY <1>13, Zenon DEF Wait
<1>14. CASE WriteStart BY <1>14, Zenon DEF WriteStart
<1>15. CASE WriteFull BY <1>15, Zenon DEF WriteFull
<1>16. CASE WriteEnd
  <2>1. CASE ok /\ Top.flush
    <3>1. Flush \in Frames /\ Flush.at = "flush"
      BY FrameTypes DEF Flush, Labels, Classes, FlushLabels
    <3>2. stack' = Append(Rest, Flush) /\ At("writev_full")
      BY <1>16, <2>1 DEF WriteEnd
    <3>3. Changes(Flush)
      BY <3>1, <3>2, TopFrame, ReplaceTop DEF At, Changes
    <3>4. QED
      BY <3>1, <3>2, <3>3, ChangeMoves DEF At
  <2>2. CASE ~(ok /\ Top.flush) BY <1>16, <2>2 DEF WriteEnd
  <2>3. QED BY <2>1, <2>2
<1>17. CASE Fill \/ SkipQuietError \/ JunkRead
  BY <1>17, Zenon DEF Fill, SkipQuietError, JunkRead, control, StackMove
<1>18. CASE ResponseRead BY <1>18, Zenon DEF ResponseRead
<1>19. CASE ResponseFails BY <1>19, Zenon DEF ResponseFails
<1>20. CASE Response BY <1>20, Zenon DEF Response
<1>21. QED
  BY <1>1, <1>2, <1>3, <1>4, <1>5, <1>6, <1>7, <1>8, <1>9, <1>10, <1>11,
     <1>12, <1>13, <1>14, <1>15, <1>16, <1>17, <1>18, <1>19, <1>20

(* The calls that the place of the lowest activation belongs to.           *)
LEMMA OuterTop ==
    ASSUME TypeInv, StackInv, stack # << >>,
           Len(stack) = 1 \/ Top.at \notin InnerLabels
    PROVE  Len(stack) = 1 /\ Top.at \in OuterLabels(call.api)
<1>1. stack \in Seq(Frames)
  BY DEF TypeInv
<1>2. Len(stack) \in 1 .. Len(stack) /\ Top = stack[Len(stack)]
  BY <1>1, TopFrame
<1>3. Top.at \in IF Len(stack) = 1 THEN OuterLabels(call.api) ELSE InnerLabels
  BY <1>2, Zenon DEF StackInv
<1>4. QED
  BY <1>3

(* The calls whose own places include vdo, keys and each.                  *)
LEMMA CallOf ==
    ASSUME NEW c \in AllCalls
    PROVE  /\ "vdo" \in OuterLabels(c) => c \in VdoCalls
           /\ "keys" \in OuterLabels(c) => c \in {"get", "mget"}
           /\ \A l \in EachLabels : l \in OuterLabels(c) =>
                 c \in {"stat", "stat_execute", "flush", "verbosity"}
<1> USE DEF AllCalls, OuterLabels, VdoCalls, VdoLabels, QuitLabels,
            FetchLabels, GetLabels, VersionLabels, EachLabels,
            FlushAllLabels, DumpLabels, DrainLabels, MgetLabels,
            ReplicaLabels, AnyLabels, BufferLabels
<1>1. "vdo" \in OuterLabels(c) => c \in VdoCalls
  OBVIOUS
<1>2. "keys" \in OuterLabels(c) => c \in {"get", "mget"}
  OBVIOUS
<1>3. ASSUME NEW l \in EachLabels, l \in OuterLabels(c)
      PROVE  c \in {"stat", "stat_execute", "flush", "verbosity"}
  BY <1>3
<1>4. QED
  BY <1>1, <1>2, <1>3, Zenon

(* The loops over keys and servers are places of calls only.               *)
LEMMA NotInner ==
    ASSUME NEW l \in {"keys", "each"}
    PROVE  l \notin InnerLabels
BY DEF InnerLabels, FlushLabels, PurgeLabels, WriteLabels, ReadLabels,
       VdoLabels, QuitLabels

(* The requests that a call writes are requests.                           *)
LEMMA RequestTypes ==
    ASSUME TypeInv, StackInv, RequestInv
    PROVE  /\ At("vdo") => VdoRequest \in Requests
           /\ At("keys") => GetRequest \in Requests
           /\ \A k \in Kinds, n \in Nat : KeyRequest(k, n) \in Requests
           /\ \A k \in Kinds : Request(k) \in Requests
<1>1. \A k \in Kinds, n \in Nat : KeyRequest(k, n) \in Requests
  BY DEF TypeInv, KeyRequest, Requests
<1>2. \A k \in Kinds : Request(k) \in Requests
  BY <1>1 DEF Request
<1>3. ASSUME At("vdo") PROVE VdoRequest \in Requests
  <2>1. CASE Top.req = NoRequest
    <3>a. Len(stack) \in 1 .. Len(stack) /\ Top = stack[Len(stack)]
      BY <1>3, TopFrame DEF At, TypeInv
    <3>1. Len(stack) = 1
      BY <1>3, <2>1, <3>a, Zenon DEF At, RequestInv
    <3>2. call.api \in VdoCalls
      BY <1>3, <3>1, OuterTop, CallOf DEF At, TypeInv
    <3>3. Kind(call.api) \in Kinds
      BY <3>2 DEF Kind, VdoCalls, Kinds, StorageKind, DeleteKind, IncrKind
    <3>4. QED
      BY <1>2, <2>1, <3>3 DEF VdoRequest
  <2>2. CASE Top.req # NoRequest
    BY <1>3, <2>2, TopFrame DEF At, VdoRequest, Frames, TypeInv
  <2>3. QED
    BY <2>1, <2>2
<1>4. ASSUME At("keys") PROVE GetRequest \in Requests
  <2>1. call.api \in {"get", "mget"}
    BY <1>4, OuterTop, CallOf, NotInner DEF At, TypeInv
  <2>2. QED
    BY <1>2, <2>1 DEF GetRequest, Kinds
<1>5. QED
  BY <1>1, <1>2, <1>3, <1>4

(* The steps of calls to one server are moves of the stack.                *)
LEMMA CallMoves ==
    ASSUME TypeInv, StackInv, RequestInv,
           \/ Vdo \/ VdoSent \/ Answered \/ FlushBuffers
           \/ Drain \/ Draining \/ GetKey \/ GetKeySent \/ GetNoop \/ Got
           \/ Fetch \/ Fetched \/ Quit \/ Slurp \/ QuitEnd
    PROVE  StackMove
<1> USE CallPlaces, CallableFrames, GotoMoves, InvokeMoves, ReturnMoves
    DEF Goto, Invoke, End
<1>0. /\ stack \in Seq(Frames) /\ call.api \in AllCalls
      /\ client.binary \in BOOLEAN /\ client.buffering \in BOOLEAN
  BY PipelineAssumption, Zenon DEF TypeInv, ClientType
<1> USE <1>0
<1>1. CASE Vdo
  <2>1. VdoRequest \in Requests /\ Flushes(call.api) \in BOOLEAN
    BY <1>1, RequestTypes DEF Vdo, Flushes
  <2>2. QED
    BY <1>1, <2>1, Zenon DEF Vdo
<1>2. CASE VdoSent \/ Answered \/ FlushBuffers \/ Drain
  BY <1>2, Zenon DEF VdoSent, Answered, FlushBuffers, Drain
<1>3. CASE Draining
  <2> DEFINE t == [Top EXCEPT !.at = "keys", !.left = 2]
  <2>1. t \in Frames /\ t.at = "keys"
    <3>1. Top \in Frames /\ "keys" \in Labels /\ 2 \in Int
      BY <1>3, TopFrame DEF Draining, At, Follows
    <3>2. QED
      BY <3>1, FrameUpdates, Zenon DEF Frames
  <2>2. cursor > 0 \/ Changes(t)
    BY <1>3, TopFrame, Zenon DEF Draining, At, Changes
  <2>3. QED
    BY <1>3, <2>1, <2>2, ChangeMoves, Zenon DEF Draining, At
<1>4. CASE GetKey
  <2>1. /\ GetRequest \in Requests
        /\ (client.binary /\ call.api = "get") \in BOOLEAN
    BY <1>4, RequestTypes DEF GetKey
  <2>2. QED
    BY <1>4, <2>1, Zenon DEF GetKey
<1>5. CASE GetKeySent
  <2> DEFINE t == [Top EXCEPT !.at = "keys", !.left = @ - 1]
  <2>1. CASE LastKey
    BY <1>5, <2>1, Zenon DEF GetKeySent
  <2>2. CASE ~LastKey
    <3>1. t \in Frames /\ t.at = "keys"
      <4>1. Top \in Frames /\ "keys" \in Labels
        BY <1>5, TopFrame, Zenon DEF GetKeySent, At, Follows
      <4>2. Top.left - 1 \in Int
        BY <4>1 DEF Frames
      <4>3. QED
        BY <4>1, <4>2, FrameUpdates, Zenon DEF Frames
    <3>2. Changes(t)
      BY <1>5, <2>2, TopFrame, Zenon DEF GetKeySent, At, Changes
    <3>3. QED
      BY <1>5, <3>1, <3>2, ChangeMoves, Zenon DEF GetKeySent, At
  <2>3. QED
    BY <2>1, <2>2
<1>6. CASE GetNoop
  <2>1. Request("noop") \in Requests
    BY RequestTypes DEF Kinds
  <2>2. QED
    BY <1>6, <2>1, Zenon DEF GetNoop
<1>7. CASE Got \/ Fetch \/ Fetched
  BY <1>7, Zenon DEF Got, Fetch, Fetched
<1>8. CASE Quit
  <2>1. Request("quit") \in Requests
    BY RequestTypes DEF Kinds
  <2>2. QED
    BY <1>8, <2>1, Zenon DEF Quit
<1>9. CASE Slurp \/ QuitEnd
  BY <1>9, Zenon DEF Slurp, QuitEnd, Slurps, SlurpEnds, StackMove
<1>10. QED
  BY <1>1, <1>2, <1>3, <1>4, <1>5, <1>6, <1>7, <1>8, <1>9

-----------------------------------------------------------------------------
(* So does every step of a call that goes over the servers.                *)
LEMMA JobPlaces ==
    ASSUME call.api \in AllCalls
    PROVE  /\ \A a \in VersionLabels, b \in VersionLabels : Follows(a, b)
           /\ \A a \in EachLabels, b \in EachLabels : Follows(a, b)
           /\ \A a \in FlushAllLabels, b \in FlushAllLabels : Follows(a, b)
           /\ \A a \in DumpLabels, b \in DumpLabels : Follows(a, b)
           /\ \A a \in DrainLabels, b \in DrainLabels : Follows(a, b)
           /\ \A a \in MgetLabels, b \in MgetLabels : Follows(a, b)
           /\ \A a \in ReplicaLabels, b \in ReplicaLabels : Follows(a, b)
           /\ \A a \in AnyLabels, b \in AnyLabels : Follows(a, b)
BY SameFunction DEF Classes

(* The places of the jobs, at which only one activation is there.          *)
JobLabels ==
    UNION {VersionLabels, EachLabels, FlushAllLabels, DumpLabels, DrainLabels,
           MgetLabels, ReplicaLabels, AnyLabels}

(* A step of a call over several servers has that call alone on the stack. *)
LEMMA JobTop ==
    ASSUME TypeInv, StackInv, stack # << >>,
           Top.at \in JobLabels \union {"end"}
    PROVE  /\ Len(stack) = 1 /\ Top = stack[1]
           /\ Top.at \in OuterLabels(call.api) /\ Top.at \notin InnerLabels
<1>1. Top.at \notin InnerLabels
  BY DEF InnerLabels, FlushLabels, PurgeLabels, WriteLabels, ReadLabels,
         VdoLabels, QuitLabels, JobLabels, VersionLabels, EachLabels,
         FlushAllLabels, DumpLabels, DrainLabels, MgetLabels, ReplicaLabels,
         AnyLabels
<1>2. QED
  BY <1>1, OuterTop, Zenon DEF Top

(* A job goes on to its end, memcached_dump and memcached_stat_execute go  *)
(* on from the version, and memcached_mget goes on from the old replies.   *)
LEMMA NextPlaces ==
    ASSUME TypeInv, StackInv, stack # << >>,
           Top.at \in JobLabels \union {"end"}
    PROVE  /\ Top.at \notin VersionLabels \union DrainLabels =>
                 Follows(Top.at, "end")
           /\ Top.at \in VersionLabels =>
                 /\ Follows(Top.at, AfterVersion)
                 /\ AfterVersion \in {"end", "dump", "each"}
           /\ Top.at \in DrainLabels =>
                 Follows(Top.at, IF Replicated THEN "replica" ELSE "mget_key")
<1>1. /\ Top.at \in OuterLabels(call.api) /\ Top.at \notin InnerLabels
      /\ call.api \in AllCalls
  BY JobTop DEF TypeInv
<1>2. "end" \in Labels /\ \A L \in Classes : \A b \in L : b \in Labels
  BY DEF Labels
<1>3. /\ "end" \in Labels /\ "replica" \in Labels /\ "mget_key" \in Labels
      /\ "dump" \in Labels /\ "each" \in Labels
  BY <1>2 DEF Classes, ReplicaLabels, MgetLabels, DumpLabels, EachLabels
<1> USE DEF AllCalls, OuterLabels, VdoCalls, VdoLabels, QuitLabels,
            FetchLabels, GetLabels, VersionLabels, EachLabels,
            FlushAllLabels, DumpLabels, DrainLabels, MgetLabels,
            ReplicaLabels, AnyLabels, BufferLabels
<1>4. ASSUME Top.at \notin VersionLabels \union DrainLabels
      PROVE  "end" \in OuterLabels(call.api)
  BY <1>1, <1>4 DEF JobLabels
<1>5. ASSUME Top.at \in VersionLabels
      PROVE  /\ AfterVersion \in OuterLabels(call.api)
             /\ AfterVersion \in Labels
             /\ AfterVersion \in {"end", "dump", "each"}
  BY <1>1, <1>3, <1>5 DEF AfterVersion
<1>6. ASSUME Top.at \in DrainLabels
      PROVE  (IF Replicated THEN "replica" ELSE "mget_key")
             \in OuterLabels(call.api)
  BY <1>1, <1>6
<1>7. {"end", "dump", "each", "replica", "mget_key"} \intersect MidLabels = {}
  BY DEF MidLabels, SendLabels
<1>8. QED
  BY <1>1, <1>3, <1>4, <1>5, <1>6, <1>7, Zenon DEF Follows

(* The request that memcached_vdo is to send.                              *)
LEMMA SendVdoFrame ==
    ASSUME TypeInv, StackInv, RequestInv, stack # << >>, NEW k \in Kinds
    PROVE  Callable(SendVdo(k))
<1>1. Request(k) \in Requests /\ Request(k) # NoRequest
  BY RequestTypes DEF RequestInv, Request, KeyRequest, NoRequest
<1>2. "vdo" \in InnerLabels \ MidLabels
  BY DEF InnerLabels, VdoLabels, MidLabels, SendLabels
<1>3. Frame("vdo") \in Frames /\ Frame("vdo").at = "vdo"
  BY <1>2, InnerAreLabels, FrameTypes
<1>4. QED
  BY <1>1, <1>2, <1>3 DEF Callable, SendVdo, Frames

(* The request of a loop over all servers.                                 *)
LEMMA EachKind ==
    ASSUME TypeInv, StackInv, At("each")
    PROVE  EachRequest \in Kinds
<1>1. call.api \in {"stat", "stat_execute", "flush", "verbosity"}
  BY OuterTop, CallOf, NotInner DEF At, TypeInv, EachLabels
<1>2. QED
  BY <1>1 DEF EachRequest, StorageKind, Kinds

(* The steps of calls over several servers are moves of the stack.         *)
LEMMA JobMoves ==
    ASSUME TypeInv, StackInv, RequestInv, JobStep
    PROVE  StackMove
<1> USE JobPlaces, CallableFrames, GotoMoves, InvokeMoves, ReturnMoves
    DEF Goto, Invoke, Call, CallHere, Stay, StayWith, Collect
<1>0. /\ stack \in Seq(Frames) /\ call.api \in AllCalls
      /\ client.binary \in BOOLEAN
  BY PipelineAssumption DEF TypeInv, ClientType
<1> USE <1>0
<1>1. CASE VersionSend \/ VersionSent \/ VersionRead \/ VersionGot \/ VersionEnd
  <2>1. stack # << >> => Callable(SendVdo("version"))
    BY SendVdoFrame DEF Kinds
  <2>2. \A l \in VersionLabels : At(l) =>
           Follows(l, AfterVersion) /\ AfterVersion # "vdo"
    BY NextPlaces DEF At, JobLabels
  <2>3. QED
    BY <1>1, <2>1, <2>2, Zenon
    DEF VersionSend, VersionSent, VersionRead, VersionGot, VersionEnd,
        VersionLabels, At
<1> DEFINE Ends(L) == \A l \in L : At(l) => Follows(l, "end")
<1>2. CASE EachSend \/ EachSent \/ EachGot \/ EachFree
  <2>1. At("each") => Callable(SendVdo(EachRequest))
    BY SendVdoFrame, EachKind DEF At
  <2>2. Ends(EachLabels)
    BY NextPlaces DEF At, JobLabels, EachLabels, VersionLabels, DrainLabels
  <2>3. EachNext \in {"each_free", "each"}
    BY DEF EachNext
  <2>4. QED
    BY <1>2, <2>1, <2>2, <2>3, Zenon
    DEF EachSend, EachSent, EachGot, EachFree, EachLabels
<1>3. CASE FlushSend \/ FlushSent \/ FlushRead
  <2>1. stack # << >> => Callable(SendVdo(StorageKind))
    BY SendVdoFrame DEF Kinds, StorageKind
  <2>2. Ends(FlushAllLabels)
    BY NextPlaces DEF At, JobLabels, FlushAllLabels, VersionLabels,
       DrainLabels
  <2>3. QED
    BY <1>3, <2>1, <2>2, Zenon
    DEF FlushSend, FlushSent, FlushRead, FlushAllLabels, At
<1>4. CASE DumpSend \/ DumpSent \/ DumpRead \/ DumpGot \/ DumpNext
  <2>1. stack # << >> => Callable(SendVdo("stat"))
    BY SendVdoFrame DEF Kinds
  <2>2. Ends(DumpLabels)
    BY NextPlaces DEF At, JobLabels, DumpLabels, VersionLabels, DrainLabels
  <2>3. QED
    BY <1>4, <2>1, <2>2, Zenon
    DEF DumpSend, DumpSent, DumpRead, DumpGot, DumpNext, DumpLabels, At
<1>5. CASE DrainAll \/ DrainingAll
  <2>1. \A l \in DrainLabels : At(l) =>
           Follows(l, IF Replicated THEN "replica" ELSE "mget_key")
    BY NextPlaces DEF At, JobLabels
  <2>2. QED
    BY <1>5, <2>1, Zenon DEF DrainAll, DrainingAll, DrainLabels
<1>6. CASE MgetKey \/ MgetConnect \/ MgetSent \/ MgetEnd \/ MgetNoop
           \/ MgetFlushed
  <2>1. /\ KeyRequest("getkq", job.x) \in Requests
        /\ Request("mget") \in Requests /\ Request("noop") \in Requests
    BY RequestTypes DEF Kinds, TypeInv, Jobs
  <2>2. Ends(MgetLabels)
    BY NextPlaces DEF At, JobLabels, MgetLabels, VersionLabels, DrainLabels
  <2>3. CASE MgetConnect
    <3> DEFINE w == Writev(IF client.binary THEN KeyRequest("getkq", job.x)
                           ELSE Request("mget"), FALSE)
    <3>1. Callable(w)
      BY <2>1, Zenon
    <3>2. /\ At("mget_connect")
          /\ Invoke("mget_sent", w) \/ Goto("mget_key")
      BY <2>3, Zenon DEF MgetConnect
    <3> HIDE DEF w
    <3>3. QED
      BY <3>1, <3>2, Zenon DEF MgetLabels
  <2>4. CASE MgetKey \/ MgetSent \/ MgetNoop
    BY <2>1, <2>4, Zenon DEF MgetKey, MgetSent, MgetNoop, MgetLabels
  <2>5. CASE MgetEnd \/ MgetFlushed
    BY <2>2, <2>5, Zenon DEF MgetEnd, MgetFlushed, MgetLabels
  <2>6. QED
    BY <1>6, <2>3, <2>4, <2>5
<1>7. CASE ReplicaKey \/ ReplicaConnect \/ ReplicaSent
  <2>0. KeyRequest("getk", job.x) \in Requests
    BY RequestTypes DEF Kinds, TypeInv, Jobs
  <2> DEFINE w == Writev(KeyRequest("getk", job.x), TRUE)
  <2>1. Callable(w)
    BY <2>0, Zenon
  <2>2. Ends(ReplicaLabels)
    BY NextPlaces DEF At, JobLabels, ReplicaLabels, VersionLabels,
       DrainLabels
  <2>3. CASE ReplicaKey
    BY <2>2, <2>3, Zenon DEF ReplicaKey, ReplicaLabels
  <2>4. CASE ReplicaConnect
    <3>1. /\ At("replica_connect")
          /\ Invoke("replica_sent", w) \/ Goto("replica")
      BY <2>4, Zenon DEF ReplicaConnect, ReplicaFails
    <3> HIDE DEF w
    <3>2. QED
      BY <2>1, <3>1, Zenon DEF ReplicaLabels
  <2>5. CASE ReplicaSent
    BY <2>5, Zenon DEF ReplicaSent, ReplicaFails, ReplicaLabels
  <2>6. QED
    BY <1>7, <2>3, <2>4, <2>5
<1>8. CASE FetchAny \/ FetchGot \/ FetchNone \/ JobEnd
  <2>1. Ends(AnyLabels)
    BY NextPlaces DEF At, JobLabels, AnyLabels, VersionLabels, DrainLabels
  <2>2. QED
    BY <1>8, <2>1, Zenon DEF FetchAny, FetchGot, FetchNone, JobEnd, AnyLabels
<1>9. QED
  BY <1>1, <1>2, <1>3, <1>4, <1>5, <1>6, <1>7, <1>8 DEF JobStep

-----------------------------------------------------------------------------
(* The types of the connection at hand.                                    *)
ConnTypes ==
    /\ fd \in BOOLEAN /\ peer \in BOOLEAN
    /\ wire \in Seq(Requests) /\ back \in Seq(Replies)
    /\ wbuf \in Seq(Requests) /\ rbuf \in Seq(Replies)
    /\ bytes \in Nat /\ cursor \in Nat /\ version \in BOOLEAN
    /\ written \in Seq(Requests) /\ received \in Seq(Requests)

(* The connection in use, as a record and as variables.                    *)
LEMMA HereTypes == Here \in Conns <=> ConnTypes
BY DEF Here, Conns, ConnTypes

(* The same after a step.                                                  *)
LEMMA HereTypesAfter == Here' \in Conns <=> ConnTypes'
BY DEF Here, Conns, ConnTypes

(* Closing, connecting and reading keep the types of a connection.         *)
LEMMA ConnectionChanges ==
    ASSUME ConnTypes
    PROVE  /\ Close => ConnTypes'
           /\ Connect => ConnTypes'
           /\ UNCHANGED connection => ConnTypes'
           /\ UNCHANGED << net, wbuf, rbuf, bytes, known >> /\ cursor' \in Nat
                 => ConnTypes'
           /\ ReadOne => ConnTypes' /\ Head(rbuf) \in Replies
<1>1. ASSUME Close PROVE ConnTypes'
  <2>1. 0 \in Nat /\ << >> \in Seq(Requests) /\ << >> \in Seq(Replies)
    OBVIOUS
  <2>2. QED
    BY <1>1, <2>1, Zenon DEF Close, ConnTypes
<1>2. Connect => ConnTypes'
  BY DEF Connect, ConnTypes, buffers, known
<1>3. ASSUME UNCHANGED connection PROVE ConnTypes'
  <2>1. UNCHANGED net /\ UNCHANGED buffers /\ UNCHANGED known
    BY <1>3 DEF connection
  <2>2. QED
    BY <2>1 DEF ConnTypes, net, buffers, known
<1>4. UNCHANGED << net, wbuf, rbuf, bytes, known >> /\ cursor' \in Nat
         => ConnTypes'
  BY DEF ConnTypes, net, known
<1>5. ASSUME ReadOne PROVE ConnTypes' /\ Head(rbuf) \in Replies
  <2>1. Tail(rbuf) \in Seq(Replies) /\ Head(rbuf) \in Replies
    BY <1>5 DEF ReadOne, ConnTypes
  <2>2. CursorAfter(Head(rbuf)) \in Nat
    BY DEF CursorAfter, Decrement, ConnTypes
  <2>3. QED
    BY <1>5, <2>1, <2>2 DEF ReadOne, ConnTypes, net
<1>6. QED
  BY <1>1, <1>2, <1>3, <1>4, <1>5

(* Concatenation stays within a set of sequences.                          *)
LEMMA ConcatTypes ==
    ASSUME NEW S, NEW s \in Seq(S), NEW t \in Seq(S)
    PROVE  s \o t \in Seq(S)
OBVIOUS

(* Sending, buffering and filling keep the types of a connection.          *)
LEMMA TransferTypes ==
    ASSUME TypeInv, Send \/ SendDone \/ SendBlocked \/ WriteStart \/ Fill
                    \/ SkipQuietError \/ Slurp
    PROVE  ConnTypes'
<1>0. ConnTypes /\ stack \in Seq(Frames) /\ client.wire_room \in Int
      /\ client.read_room \in Nat
  BY HereTypes, PipelineAssumption DEF TypeInv, ClientType
<1> USE <1>0
<1>1. CASE Send
  <2> DEFINE n == Min({Room, Len(Top.todo)})
  <2>1. Top.todo \in Seq(Requests)
    BY <1>1, TopFrame, Zenon DEF Send, At, Frames
  <2>2. Room \in Int /\ Room >= 0
    <3>1. Len(wire) \in Nat
      BY DEF ConnTypes
    <3>2. QED
      BY <1>1, <3>1 DEF Send, Room
  <2>3. n \in 0 .. Len(Top.todo)
    BY <2>1, <2>2, MinOfRoom, Zenon
  <2>4. bytes' = bytes + n /\ wire' = wire \o SubSeq(Top.todo, 1, n)
    BY <1>1, Zenon DEF Send
  <2> HIDE DEF n
  <2>5. n \in Nat
    BY <2>1, <2>3
  <2>6. SubSeq(Top.todo, 1, n) \in Seq(Requests)
    BY <2>1, <2>3, PrefixFacts, Zenon
  <2>7. wire' \in Seq(Requests)
    BY <2>4, <2>6, ConcatTypes, Zenon DEF ConnTypes
  <2>8. bytes' \in Nat
    BY <2>4, <2>5 DEF ConnTypes
  <2>9. QED
    BY <1>1, <2>7, <2>8, Zenon DEF Send, ConnTypes, known
<1>2. CASE SendDone
  BY <1>2 DEF SendDone, ConnTypes, net, known
<1>3. CASE SendBlocked
  <2>1. CASE ReadRoomLeft > 0
    <3>1. client.read_room - Len(rbuf) \in Int /\ Len(back) \in Nat
      BY DEF ConnTypes
    <3>2. ReadRoomLeft \in 0 .. Len(back)
      BY <2>1, <3>1, MinOfSpace, Zenon DEF ReadRoomLeft
    <3>3. /\ SubSeq(back, 1, ReadRoomLeft) \in Seq(Replies)
          /\ SubSeq(back, ReadRoomLeft + 1, Len(back)) \in Seq(Replies)
      BY <3>2, PrefixFacts, SuffixFacts, Zenon DEF ConnTypes
    <3>4. rbuf \o SubSeq(back, 1, ReadRoomLeft) \in Seq(Replies)
      BY <3>3, ConcatTypes, Zenon DEF ConnTypes
    <3>5. rbuf' \in Seq(Replies) /\ back' \in Seq(Replies)
      BY <1>3, <2>1, <3>3, <3>4, Zenon DEF SendBlocked, ConnTypes
    <3>6. QED
      BY <1>3, <3>5 DEF SendBlocked, ConnTypes, known
  <2>2. CASE ~(ReadRoomLeft > 0)
    BY <1>3, <2>2 DEF SendBlocked, ConnTypes, known
  <2>3. QED
    BY <2>1, <2>2
<1>4. CASE WriteStart
  <2>1. Top.req \in Requests
    BY <1>4, TopFrame, Zenon DEF WriteStart, At, Frames
  <2>2. wbuf' \in Seq(Requests) /\ written' \in Seq(Requests)
    BY <1>4, <2>1 DEF WriteStart, ConnTypes
  <2>3. QED
    BY <1>4, <2>2 DEF WriteStart, ConnTypes, net
<1>5. CASE Fill
  <2>1. /\ client.read_room - Len(rbuf) \in Int
        /\ client.read_room - Len(rbuf) >= 0
    BY <1>5 DEF Fill, ConnTypes
  <2>2. ReadRoomLeft \in 0 .. Len(back)
    BY <2>1, MinOfRoom, Zenon DEF ReadRoomLeft, ConnTypes
  <2>3. /\ SubSeq(back, 1, ReadRoomLeft) \in Seq(Replies)
        /\ SubSeq(back, ReadRoomLeft + 1, Len(back)) \in Seq(Replies)
    BY <2>2, PrefixFacts, SuffixFacts, Zenon DEF ConnTypes
  <2>4. QED
    BY <1>5, <2>3, Zenon DEF Fill, ConnTypes, known
<1>6. CASE SkipQuietError
  BY <1>6 DEF SkipQuietError, ConnTypes, net, known
<1>7. CASE Slurp
  BY <1>7 DEF Slurp, ConnTypes, buffers, known
<1>8. QED
  BY <1>1, <1>2, <1>3, <1>4, <1>5, <1>6, <1>7

(* Every step on a connection keeps its types.                             *)
LEMMA StepConnection ==
    ASSUME TypeInv, Step
    PROVE  ConnTypes'
<1>0. ConnTypes
  BY HereTypes DEF TypeInv
<1> USE <1>0, ConnectionChanges
<1>1. CASE \/ PurgeStart \/ PurgeEnd \/ FlushStart \/ FlushPurged
           \/ InputProcessed \/ WriteFull \/ WriteEnd \/ Response
           \/ Answered \/ FlushBuffers \/ Drain \/ Draining \/ Got \/ Fetch
  <2>1. UNCHANGED << net, buffers, known >>
    BY <1>1, Zenon
    DEF PurgeStart, PurgeEnd, FlushStart, FlushPurged, InputProcessed,
        WriteFull, WriteEnd, Response, Answered, FlushBuffers, Drain,
        Draining, Got, Fetch
  <2>2. QED
    BY <2>1, Zenon DEF connection
<1>2. CASE \/ PurgeFlushed \/ SendFails \/ Wait \/ ResponseFails \/ PurgeFails
           \/ GetNoop \/ Quit \/ QuitEnd
  <2>1. Close \/ UNCHANGED << net, buffers, known >>
    BY <1>2, Zenon
    DEF PurgeFlushed, SendFails, Wait, ResponseFails, PurgeFails, ReadLost,
        GetNoop, Quit, QuitEnd
  <2>2. QED
    BY <2>1, Zenon DEF connection
<1>3. CASE Send \/ SendDone \/ SendBlocked \/ WriteStart \/ Fill
           \/ SkipQuietError \/ Slurp
  BY <1>3, TransferTypes
<1>4. CASE PurgeRead \/ JunkRead \/ ResponseRead
  BY <1>4, Zenon DEF PurgeRead, JunkRead, ResponseRead
<1>5. CASE Vdo \/ GetKey
  <2>1. Connect \/ UNCHANGED << net, buffers, known >>
    BY <1>5, Zenon DEF Vdo, GetKey
  <2>2. QED
    BY <2>1, Zenon DEF connection
<1>6. CASE VdoSent \/ GetKeySent \/ Fetched
  <2> DEFINE Kept == UNCHANGED << net, wbuf, rbuf, bytes, known >>
  <2>1. cursor \in Nat /\ CursorSent \in Nat /\ 0 \in Nat /\ 1 \in Nat
    <3>1. /\ cursor \in Nat /\ cursor + 1 \in Nat /\ Decrement \in Nat
          /\ 0 \in Nat /\ 1 \in Nat
      BY DEF Decrement, ConnTypes
    <3>2. CursorSent \in {Decrement, cursor, cursor + 1}
      BY Zenon DEF CursorSent
    <3>3. QED
      BY <3>1, <3>2
  <2>2. ASSUME VdoSent PROVE Close \/ (Kept /\ cursor' \in Nat)
    BY <2>1, <2>2, Zenon DEF VdoSent
  <2>3. ASSUME GetKeySent PROVE Close \/ (Kept /\ cursor' \in Nat)
    BY <2>1, <2>3 DEF GetKeySent
  <2>4. ASSUME Fetched PROVE Kept /\ cursor' \in Nat
    BY <2>1, <2>4, Zenon DEF Fetched
  <2>5. QED
    BY <1>6, <2>2, <2>3, <2>4
<1>7. QED
  BY <1>1, <1>2, <1>3, <1>4, <1>5, <1>6 DEF Step

(* The types of results, flags and the reply that was read.                *)
ControlTypes ==
    /\ ok \in BOOLEAN /\ purging \in BOOLEAN /\ reply \in Replies
    /\ fetching \in Nat

(* The reply that stands for a failed read is a reply.                     *)
LEMMA FailedType == Failed \in Replies
BY DEF Failed, Reply, NoRequest, Replies, Kinds, Whats

(* Every step on a connection keeps these types, and the call.             *)
LEMMA StepControl ==
    ASSUME TypeInv, Step
    PROVE  ControlTypes' /\ UNCHANGED << client, call, calls >>
<1>0. /\ ControlTypes /\ ConnTypes /\ call.id \in Nat
      /\ TRUE \in BOOLEAN /\ FALSE \in BOOLEAN /\ 0 \in Nat
  BY HereTypes DEF TypeInv, ControlTypes
<1> USE <1>0 DEF Return, End, control, api
<1>1. CASE \/ PurgeStart \/ PurgeFlushed \/ PurgeRead \/ PurgeEnd
           \/ FlushStart \/ FlushPurged \/ Send \/ SendFails \/ SendDone
           \/ SendBlocked \/ InputProcessed \/ Wait
  <2>1. /\ ok' \in BOOLEAN /\ purging' \in BOOLEAN
        /\ UNCHANGED << client, reply, call, calls, fetching >>
    BY <1>1, Zenon
    DEF PurgeStart, PurgeFlushed, PurgeRead, PurgeEnd, FlushStart,
        FlushPurged, Send, SendFails, SendDone, SendBlocked, InputProcessed,
        Wait, Purge, ControlTypes
  <2>2. QED
    BY <2>1 DEF ControlTypes
<1>2. CASE \/ WriteStart \/ WriteFull \/ WriteEnd \/ Fill \/ SkipQuietError
           \/ JunkRead \/ Response \/ Slurp \/ Quit \/ QuitEnd \/ Drain
           \/ Draining \/ PurgeFails
  <2>1. /\ ok' \in BOOLEAN /\ purging' \in BOOLEAN
        /\ UNCHANGED << client, reply, call, calls, fetching >>
    BY <1>2, Zenon
    DEF WriteStart, WriteFull, WriteEnd, Fill, SkipQuietError, JunkRead,
        Response, Slurp, Quit, QuitEnd, Drain, Draining, PurgeFails,
        ControlTypes
  <2>2. QED
    BY <2>1 DEF ControlTypes
<1>3. CASE ResponseRead \/ ResponseFails
  <2>1. reply' \in Replies
    BY <1>3, FailedType, ConnectionChanges, Zenon
    DEF ResponseRead, ResponseFails
  <2>2. QED
    BY <1>3, <2>1, Zenon DEF ResponseRead, ResponseFails, ControlTypes
<1>4. CASE Vdo \/ VdoSent \/ Answered \/ FlushBuffers \/ GetKey \/ GetKeySent
           \/ GetNoop
  BY <1>4, Zenon
  DEF Vdo, VdoSent, Answered, FlushBuffers, GetKey, GetKeySent, GetNoop,
      ControlTypes
<1>5. CASE Got \/ Fetch \/ Fetched
  BY <1>5, Zenon DEF Got, Fetch, Fetched, ControlTypes
<1>6. QED
  BY <1>1, <1>2, <1>3, <1>4, <1>5 DEF Step

-----------------------------------------------------------------------------
(* The types of the connections.                                           *)
Placed ==
    ConnTypes /\ cur \in 0 .. N /\ others \in [0 .. N -> Conns]

(* A new connection and the state of a new call are well typed.            *)
LEMMA NewTypes ==
    NewConn \in Conns /\ NewJob \in Jobs
<1>1. /\ 0 \in Nat /\ 1 \in Nat /\ 1 # 0 /\ {} \in SUBSET Nat
      /\ << >> \in Seq(Requests) /\ << >> \in Seq(Replies)
  OBVIOUS
<1>2. NewConn \in Conns
  BY <1>1, Zenon DEF NewConn, Conns
<1>3. NewJob \in Jobs
  BY <1>1, Zenon DEF NewJob, Jobs
<1>4. QED
  BY <1>2, <1>3

(* Turning to another server puts one connection away and takes the other, *)
(* and both stay well typed.                                               *)
LEMMA SelectTypes ==
    ASSUME Placed, UNCHANGED client, NEW s \in 0 .. N, Select(s)
    PROVE  Placed'
<1>1. CASE s = cur /\ UNCHANGED << cur, others, connection >>
  BY <1>1, ConnectionChanges, Zenon DEF Placed, N
<1>2. CASE s # cur /\ ~UNCHANGED << cur, others, connection >>
  <2> DEFINE c == others[s]
  <2>1. c \in Conns /\ Here \in Conns
    BY HereTypes DEF Placed
  <2>2. ConnTypes'
    BY <1>2, <2>1, Zenon DEF Select, Conns, ConnTypes
  <2>3. NewConn \in Conns
    BY NewTypes
  <2>4. others' = [others EXCEPT ![cur] = Here, ![s] = NewConn] /\ cur' = s
    BY <1>2, Zenon DEF Select
  <2>5. others' \in [0 .. N -> Conns]
    BY <2>1, <2>3, <2>4 DEF Placed
  <2>6. QED
    BY <2>2, <2>4, <2>5, Zenon DEF Placed, N
<1>3. QED
  BY <1>1, <1>2 DEF Select

(* The forms in which the actions change the connections.                  *)
Moved ==
    \/ \E s \in 0 .. N : Select(s)
    \/ /\ UNCHANGED << cur, others >>
       /\ \/ Close \/ Connect
          \/ UNCHANGED connection
          \/ UNCHANGED << net, wbuf, rbuf, bytes, known >> /\ cursor' \in Nat

(* The ways in which a step changes the connection in use.                 *)
LEMMA PlaceChanges ==
    ASSUME Placed, UNCHANGED client
    PROVE  /\ Moved => Placed'
           /\ \A s \in 0 .. N : Select(s) => Placed'
           /\ UNCHANGED << cur, others, connection >> => Placed'
<1>1. ASSUME UNCHANGED << cur, others >>, ConnTypes' PROVE Placed'
  BY <1>1, Zenon DEF Placed, N
<1>2. ConnTypes
  BY DEF Placed
<1>3. QED
  BY <1>1, <1>2, SelectTypes, ConnectionChanges, Zenon DEF Moved

(* A position modulo the number of servers is a server.                    *)
LEMMA ModRange ==
    ASSUME NEW a \in Int, NEW n \in Nat \ {0}
    PROVE  (a % n) + 1 \in 1 .. n
OBVIOUS

(* The counters of a call over several servers, and the servers of a key's *)
(* replicas, are in range.                                                 *)
LEMMA ServerRanges ==
    ASSUME TypeInv
    PROVE  /\ N \in Nat \ {0} /\ 1 .. N \subseteq 0 .. N
           /\ client.number_of_replicas \in Nat
           /\ job.x \in Nat \ {0} /\ job.start \in Nat /\ job.replica \in Nat
           /\ job.x <= N => job.x \in 0 .. N
           /\ Len(client.homes) \in Nat /\ Keys = 1 .. Len(client.homes)
           /\ \A k \in Keys : client.homes[k] \in 1 .. N
           /\ \A k \in Keys, r \in Nat : ReplicaOf(k, r) \in 1 .. N
<1>1. client \in ClientType /\ client.homes \in Seq(Nat)
  BY PipelineAssumption DEF TypeInv, ClientType
<1>2. /\ N \in Nat \ {0} /\ client.number_of_replicas \in Nat
      /\ Len(client.homes) \in Nat /\ Keys = 1 .. Len(client.homes)
  BY <1>1 DEF ClientType, N, Keys
<1>3. job.x \in Nat \ {0} /\ job.start \in Nat /\ job.replica \in Nat
  BY DEF TypeInv, Jobs
<1>4. \A k \in Keys : client.homes[k] \in 1 .. N
  BY PipelineAssumption, Zenon DEF TypeInv, Keys, N
<1>5. ASSUME NEW k \in Keys, NEW r \in Nat
      PROVE  ReplicaOf(k, r) \in 1 .. N
  <2> DEFINE st == IF r + job.start <= client.number_of_replicas
                   THEN job.start ELSE 0
             a == client.homes[k] - 1 + r + st
  <2>1. a \in Int
    <3>1. client.homes[k] \in Int
      BY <1>2, <1>4
    <3>2. st \in Int
      BY <1>3
    <3> HIDE DEF st
    <3>3. QED
      BY <3>1, <3>2
  <2>2. ReplicaOf(k, r) = (a % N) + 1
    BY DEF ReplicaOf
  <2> HIDE DEF a
  <2>3. QED
    BY <1>2, <2>1, <2>2, ModRange
<1>6. QED
  BY <1>2, <1>3, <1>4, <1>5

(* The steps of the calls over the servers keep the types of the           *)
(* connections.                                                            *)
LEMMA JobConnections ==
    ASSUME TypeInv, JobStep
    PROVE  Moved
<1>0. /\ Placed /\ cursor \in Nat /\ Decrement \in Nat /\ cursor + 1 \in Nat
      /\ 0 \in Nat /\ 1 \in Nat /\ 0 \in 0 .. N
  <2>1. Placed
    BY HereTypes, Zenon DEF TypeInv, Placed
  <2>2. cursor \in Nat
    BY <2>1, Zenon DEF Placed, ConnTypes
  <2>3. N \in Nat
    BY ServerRanges
  <2>4. QED
    BY <2>1, <2>2, <2>3 DEF Decrement
<1> USE <1>0 DEF Call, CallHere, Stay, StayWith, Moved
<1>1. job.x <= N => job.x \in 0 .. N
  BY ServerRanges
<1>2. CASE VersionSend \/ VersionSent \/ VersionGot \/ VersionEnd
  BY <1>1, <1>2, Zenon DEF VersionSend, VersionSent, VersionGot, VersionEnd
<1>3. CASE VersionRead \/ DumpRead \/ FetchAny
  <2>1. PICK s \in 1 .. N : Select(s)
    BY <1>3, Zenon DEF VersionRead, DumpRead, FetchAny, Collect
  <2>2. s \in 0 .. N
    BY ServerRanges
  <2>3. QED
    BY <2>1, <2>2, Zenon
<1>4. CASE EachSend \/ EachSent \/ EachGot \/ EachFree
  <2>1. job.x <= N => Instance \in 0 .. N
    BY <1>1 DEF Instance
  <2>2. QED
    BY <1>4, <2>1, Zenon DEF EachSend, EachSent, EachGot, EachFree
<1>5. CASE FlushSend \/ FlushSent \/ FlushRead
  BY <1>1, <1>5, Zenon DEF FlushSend, FlushSent, FlushRead
<1>6. CASE DumpSend \/ DumpSent \/ DumpGot \/ DumpNext
  BY <1>1, <1>6, Zenon DEF DumpSend, DumpSent, DumpGot, DumpNext
<1>7. CASE DrainAll \/ DrainingAll \/ MgetSent \/ MgetEnd \/ MgetNoop
  BY <1>1, <1>7, Zenon DEF DrainAll, DrainingAll, MgetSent, MgetEnd, MgetNoop
<1>8. CASE MgetKey
  <2>1. ASSUME job.x <= Len(client.homes)
        PROVE  client.homes[job.x] \in 0 .. N
    <3>1. job.x \in Keys
      BY <2>1, ServerRanges
    <3>2. QED
      BY <3>1, ServerRanges, Zenon
  <2>2. QED
    BY <1>8, <2>1, Zenon DEF MgetKey
<1>9. CASE MgetConnect \/ MgetFlushed
  BY <1>9, Zenon DEF MgetConnect, MgetFlushed
<1>10. CASE ReplicaKey
  <2>1. ASSUME job.x <= Len(client.homes)
        PROVE  ReplicaOf(job.x, job.replica) \in 0 .. N
    <3>1. job.x \in Keys
      BY <2>1, ServerRanges
    <3>2. QED
      BY <3>1, ServerRanges, Zenon
  <2>2. QED
    BY <1>10, <2>1, Zenon DEF ReplicaKey
<1>11. CASE ReplicaConnect \/ ReplicaSent
  BY <1>11, Zenon DEF ReplicaConnect, ReplicaSent, ReplicaFails
<1>12. CASE FetchGot \/ FetchNone \/ JobEnd
  BY <1>12, Zenon DEF FetchGot, FetchNone, JobEnd
<1>13. QED
  BY <1>2, <1>3, <1>4, <1>5, <1>6, <1>7, <1>8, <1>9, <1>10, <1>11, <1>12, Zenon
  DEF JobStep

(* A step of a call over several servers keeps the types of results and    *)
(* flags, and the call.                                                    *)
LEMMA JobControl ==
    ASSUME TypeInv, JobStep
    PROVE  ControlTypes' /\ UNCHANGED << client, call, calls >>
<1>0. /\ ControlTypes /\ call.id \in Nat /\ 0 \in Nat
      /\ TRUE \in BOOLEAN /\ FALSE \in BOOLEAN
  BY DEF TypeInv, ControlTypes
<1>1. CASE ~JobEnd
  <2>1. UNCHANGED << purging, ok, api >>
    <3> USE DEF Call, CallHere, Stay, StayWith, Collect
    <3>1. CASE VersionSend \/ VersionSent \/ VersionRead \/ VersionGot
               \/ VersionEnd \/ FlushSend \/ FlushSent \/ FlushRead
      BY <3>1, Zenon
      DEF VersionSend, VersionSent, VersionRead, VersionGot, VersionEnd,
          FlushSend, FlushSent, FlushRead
    <3>2. CASE EachSend \/ EachSent \/ EachGot \/ EachFree
               \/ DumpSend \/ DumpSent \/ DumpRead \/ DumpGot \/ DumpNext
      BY <3>2, Zenon
      DEF EachSend, EachSent, EachGot, EachFree, DumpSend, DumpSent,
          DumpRead, DumpGot, DumpNext
    <3>3. CASE DrainAll \/ DrainingAll \/ MgetKey \/ MgetConnect \/ MgetSent
               \/ MgetEnd \/ MgetNoop \/ MgetFlushed
      BY <3>3, Zenon
      DEF DrainAll, DrainingAll, MgetKey, MgetConnect, MgetSent, MgetEnd,
          MgetNoop, MgetFlushed
    <3>4. CASE ReplicaKey \/ ReplicaConnect \/ ReplicaSent
               \/ FetchAny \/ FetchGot \/ FetchNone
      BY <3>4, Zenon
      DEF ReplicaKey, ReplicaConnect, ReplicaSent, ReplicaFails, FetchAny,
          FetchGot, FetchNone
    <3>5. QED
      BY <1>1, <3>1, <3>2, <3>3, <3>4 DEF JobStep
  <2>2. QED
    BY <1>0, <2>1, Zenon DEF api, ControlTypes
<1>2. CASE JobEnd
  BY <1>0, <1>2, Zenon DEF JobEnd, Return, ControlTypes
<1>3. QED
  BY <1>1, <1>2

(* The results of fetching from any server.                                *)
Results == {"none", "SUCCESS", "END", "NOTFOUND", "CONNECTION_FAILURE"}

(* Updates of one field keep the type of a call's state.                   *)
LEMMA JobUpdates ==
    ASSUME NEW j \in Jobs
    PROVE  /\ \A n \in Nat \ {0} : [j EXCEPT !.x = n] \in Jobs
           /\ \A n \in Nat :
                 /\ [j EXCEPT !.slab = n] \in Jobs
                 /\ [j EXCEPT !.replica = n] \in Jobs
                 /\ [j EXCEPT !.start = n] \in Jobs
                 /\ [j EXCEPT !.count = n] \in Jobs
           /\ \A b \in BOOLEAN :
                 /\ [j EXCEPT !.success = b] \in Jobs
                 /\ [j EXCEPT !.lost = b] \in Jobs
                 /\ [j EXCEPT !.errors = b] \in Jobs
           /\ \A S \in SUBSET Nat :
                 /\ [j EXCEPT !.sent = S] \in Jobs
                 /\ [j EXCEPT !.dead = S] \in Jobs
                 /\ [j EXCEPT !.asked = S] \in Jobs
                 /\ [j EXCEPT !.answered = S] \in Jobs
           /\ \A w \in Whats \union {"none"} : [j EXCEPT !.last = w] \in Jobs
           /\ \A r \in Results : [j EXCEPT !.rc = r] \in Jobs
<1> USE DEF Jobs
<1>1. \A n \in Nat \ {0} : [j EXCEPT !.x = n] \in Jobs
  BY Zenon
<1>2. \A n \in Nat : /\ [j EXCEPT !.slab = n] \in Jobs
                     /\ [j EXCEPT !.replica = n] \in Jobs
  BY Zenon
<1>3. \A n \in Nat : /\ [j EXCEPT !.start = n] \in Jobs
                     /\ [j EXCEPT !.count = n] \in Jobs
  BY Zenon
<1>4. \A b \in BOOLEAN : /\ [j EXCEPT !.success = b] \in Jobs
                         /\ [j EXCEPT !.lost = b] \in Jobs
                         /\ [j EXCEPT !.errors = b] \in Jobs
  BY Zenon
<1>5. \A S \in SUBSET Nat : /\ [j EXCEPT !.sent = S] \in Jobs
                            /\ [j EXCEPT !.dead = S] \in Jobs
  BY Zenon
<1>6. \A S \in SUBSET Nat : /\ [j EXCEPT !.asked = S] \in Jobs
                            /\ [j EXCEPT !.answered = S] \in Jobs
  BY Zenon
<1>7. \A w \in Whats \union {"none"} : [j EXCEPT !.last = w] \in Jobs
  BY Zenon
<1>8. \A r \in Results : [j EXCEPT !.rc = r] \in Jobs
  BY Zenon DEF Results
<1> HIDE DEF Jobs
<1>9. QED
  BY <1>1, <1>2, <1>3, <1>4, <1>5, <1>6, <1>7, <1>8, Zenon

(* Every step of a call over several servers keeps the type of its state.  *)
LEMMA JobTypes ==
    ASSUME TypeInv, JobStep
    PROVE  job' \in Jobs
<1>0. job \in Jobs /\ ok \in BOOLEAN
  BY DEF TypeInv
<1>1. NewJob \in Jobs
  BY DEF Jobs, NewJob
<1>2. /\ job.x \in Nat \ {0} /\ job.slab \in Nat /\ job.replica \in Nat
      /\ job.sent \in SUBSET Nat /\ job.dead \in SUBSET Nat
      /\ job.asked \in SUBSET Nat /\ job.answered \in SUBSET Nat
      /\ job.count \in Nat /\ job.rc \in Results
  BY <1>0 DEF Jobs, Results
<1>3. cur \in Nat
  BY ServerRanges DEF TypeInv
<1>4. /\ job.x + 1 \in Nat \ {0} /\ 1 \in Nat \ {0} /\ job.slab + 1 \in Nat
      /\ job.replica + 1 \in Nat
      /\ job.dead \union {cur} \in SUBSET Nat
      /\ job.sent \union {job.x} \in SUBSET Nat
      /\ (IF ok THEN job.asked \union {cur} ELSE job.asked) \in SUBSET Nat
      /\ (IF ok THEN job.sent \union {job.x} ELSE job.sent) \in SUBSET Nat
      /\ (IF ok THEN job.answered \union {job.x} ELSE job.answered)
           \in SUBSET Nat
  BY <1>2, <1>3
<1>5. /\ (job.errors \/ ~ok) \in BOOLEAN /\ (job.lost \/ ~ok) \in BOOLEAN
      /\ (job.lost \/ At("replica_sent")) \in BOOLEAN
      /\ TRUE \in BOOLEAN /\ FALSE \in BOOLEAN
  OBVIOUS
<1>6. /\ [job EXCEPT !.x = 1] \in Jobs /\ [job EXCEPT !.x = @ + 1] \in Jobs
      /\ [job EXCEPT !.x = @ + 1, !.errors = @ \/ ~ok] \in Jobs
  BY <1>0, <1>4, <1>5, JobUpdates, Zenon
<1> USE <1>0, <1>6
<1>7. CASE VersionSend \/ VersionSent \/ VersionRead \/ VersionGot \/ VersionEnd
  <2>1. /\ [job EXCEPT !.x = @ + 1, !.errors = @ \/ ~ok,
                       !.asked = IF ok THEN @ \union {cur} ELSE @] \in Jobs
        /\ [job EXCEPT !.errors = @ \/ ~ok] \in Jobs
    BY <1>4, <1>5, JobUpdates, Zenon
  <2>2. QED
    BY <1>7, <2>1, Zenon
    DEF VersionSend, VersionSent, VersionRead, VersionGot, VersionEnd, NextX,
        Collect
<1>8. CASE EachSend \/ EachSent \/ EachFree
  BY <1>8, Zenon DEF EachSend, EachSent, EachFree
<1>9. CASE EachGot
  <2> DEFINE refused == ok /\ EachRequest = "stat" /\ reply.what = "ANSWER"
  <2>1. (job.errors \/ ~ok \/ refused) \in BOOLEAN
    BY Zenon
  <2>2. [job EXCEPT !.x = @ + 1, !.errors = @ \/ ~ok \/ refused,
                    !.answered = IF ok THEN @ \union {job.x} ELSE @] \in Jobs
    BY <1>4, <2>1, JobUpdates, Zenon
  <2>3. QED
    BY <1>9, <2>2, Zenon DEF EachGot
<1>10. CASE FlushSend \/ FlushSent \/ FlushRead
  BY <1>10, Zenon DEF FlushSend, FlushSent, FlushRead, NextX
<1>11. CASE DumpSend \/ DumpSent \/ DumpRead \/ DumpGot \/ DumpNext
  <2>1. /\ [job EXCEPT !.errors = FALSE] \in Jobs
        /\ [job EXCEPT !.errors = TRUE] \in Jobs
        /\ [job EXCEPT !.x = 1, !.slab = @ + 1] \in Jobs
    BY <1>4, <1>5, JobUpdates, Zenon
  <2>2. QED
    BY <1>11, <2>1, Zenon
    DEF DumpSend, DumpSent, DumpRead, DumpGot, DumpNext, NextX, Collect
<1>12. CASE DrainAll \/ DrainingAll
  BY <1>12, Zenon DEF DrainAll, DrainingAll, NextX
<1>13. CASE MgetKey \/ MgetConnect \/ MgetSent \/ MgetEnd \/ MgetNoop
           \/ MgetFlushed
  <2>1. /\ [job EXCEPT !.x = @ + 1, !.sent = @ \union {job.x}] \in Jobs
        /\ [job EXCEPT !.x = @ + 1, !.lost = @ \/ ~ok] \in Jobs
        /\ [job EXCEPT !.x = @ + 1, !.lost = @ \/ ~ok,
                       !.sent = IF ok THEN @ \union {job.x} ELSE @] \in Jobs
    BY <1>4, <1>5, JobUpdates, Zenon
  <2>2. QED
    BY <1>13, <2>1, Zenon
    DEF MgetKey, MgetConnect, MgetSent, MgetEnd, MgetNoop, MgetFlushed, NextX
<1>14. CASE ReplicaKey \/ ReplicaConnect \/ ReplicaSent
  <2>1. /\ [job EXCEPT !.x = 1, !.replica = @ + 1, !.success = TRUE] \in Jobs
        /\ [job EXCEPT !.x = @ + 1, !.sent = @ \union {job.x}] \in Jobs
    BY <1>4, <1>5, JobUpdates, Zenon
  <2>2. [job EXCEPT !.x = @ + 1, !.dead = @ \union {cur}, !.success = FALSE,
                    !.lost = @ \/ At("replica_sent")] \in Jobs
    BY <1>4, <1>5, JobUpdates, Zenon
  <2>3. QED
    BY <1>14, <2>1, <2>2, Zenon
    DEF ReplicaKey, ReplicaConnect, ReplicaSent, ReplicaFails, NextX
<1>15. CASE FetchGot
  <2> DEFINE what == IF ok THEN reply.what ELSE "FAILED"
             keys == CASE what = "END" ->
                              {k \in job.sent : client.homes[k] = cur}
                       [] what \in {"VALUE", "NOTFOUND"} -> {reply.key}
                       [] OTHER -> {}
             count == IF what = "VALUE" THEN 1 ELSE job.count
             rc == IF what = "VALUE" THEN "SUCCESS" ELSE job.rc
  <2>1. what \in Whats \union {"none"}
    BY DEF TypeInv, Replies, Whats
  <2>2. reply.key \in Nat
    BY DEF TypeInv, Replies
  <2>3. keys \subseteq Nat
    BY <1>2, <2>2, Zenon
  <2>4. count \in Nat /\ rc \in Results
    BY <1>2 DEF Results
  <2>5. job' = [job EXCEPT
                !.errors = @ \/ ~ok, !.last = what,
                !.answered = @ \union keys,
                !.count = count, !.rc = rc]
    BY <1>15, Zenon DEF FetchGot
  <2> HIDE DEF what, keys, count, rc
  <2>6. job.answered \union keys \in SUBSET Nat
    BY <1>2, <2>3, Zenon
  <2>7. QED
    BY <1>5, <2>1, <2>4, <2>5, <2>6, JobUpdates, Zenon
<1>16. CASE FetchAny \/ FetchNone
  <2>1. FetchResult \in Results
    BY DEF FetchResult, Results
  <2>2. [job EXCEPT !.rc = FetchResult] \in Jobs
    BY <2>1, JobUpdates, Zenon
  <2>3. QED
    BY <1>16, <2>2, Zenon DEF FetchAny, Collect, FetchNone
<1>17. CASE JobEnd
  BY <1>1, <1>17, Zenon DEF JobEnd
<1>18. QED
  BY <1>7, <1>8, <1>9, <1>10, <1>11, <1>12, <1>13, <1>14, <1>15, <1>16, <1>17
  DEF JobStep

-----------------------------------------------------------------------------
(* The servers.                                                            *)
LEMMA TupleTypes ==
    ASSUME NEW S, NEW x \in S, NEW y \in S, NEW z \in S
    PROVE  /\ << >> \in Seq(S) /\ << x >> \in Seq(S)
           /\ << x, y >> \in Seq(S) /\ << x, y, z >> \in Seq(S)
OBVIOUS

(* What a server answers is a sequence of replies.                         *)
LEMMA AnswerTypes ==
    ASSUME NEW r \in Requests, NEW a \in Answers(r)
    PROVE  a \in Seq(Replies)
<1> DEFINE R(w) == Reply(r, w)
<1>1. \A w \in Whats : R(w) \in Replies
  BY DEF Reply, Requests, Replies
<1>2. /\ R("ANSWER") \in Replies /\ R("QUIET_ERROR") \in Replies
      /\ R("END") \in Replies /\ R("VALUE") \in Replies
      /\ R("NOTFOUND") \in Replies
  BY <1>1 DEF Whats
<1>3. a \in {<< >>, << R("ANSWER") >>, << R("QUIET_ERROR") >>, << R("END") >>,
             << R("VALUE"), R("END") >>, << R("VALUE"), R("VALUE"), R("END") >>,
             << R("VALUE") >>, << R("NOTFOUND") >>}
  BY DEF Answers, Requests, Kinds
<1> HIDE DEF R
<1>4. QED
  BY <1>2, <1>3, TupleTypes, Zenon

(* A server's steps keep the types of the connection in use.               *)
LEMMA ServerTypes ==
    ASSUME ConnTypes, Serve \/ Drop
    PROVE  ConnTypes'
<1>1. CASE Serve
  <2>1. PICK a \in Answers(Head(wire)) : back' = back \o a
    BY <1>1 DEF Serve
  <2>2. Head(wire) \in Requests /\ Tail(wire) \in Seq(Requests)
    BY <1>1 DEF Serve, ConnTypes
  <2>3. a \in Seq(Replies)
    BY <2>1, <2>2, AnswerTypes, Zenon
  <2>4. back' \in Seq(Replies)
    BY <2>1, <2>3, ConcatTypes, Zenon DEF ConnTypes
  <2>5. received' \in Seq(Requests)
    BY <1>1, <2>2 DEF Serve, ConnTypes
  <2>6. QED
    BY <1>1, <2>2, <2>4, <2>5 DEF Serve, ConnTypes, buffers
<1>2. CASE Drop
  <2>1. << >> \in Seq(Requests) /\ << >> \in Seq(Replies)
    OBVIOUS
  <2>2. back' \in Seq(Replies)
    BY <1>2, <2>1, Zenon DEF Drop, ConnTypes
  <2>3. QED
    BY <1>2, <2>1, <2>2, Zenon DEF Drop, ConnTypes, buffers, known
<1>3. QED
  BY <1>1, <1>2

(* And of the other connections.                                           *)
LEMMA OtherTypes ==
    ASSUME others \in [0 .. N -> Conns], NEW s \in 0 .. N,
           ServeOther(s) \/ DropOther(s)
    PROVE  others' \in [0 .. N -> Conns]
<1> DEFINE c == others[s]
<1>0. c \in Conns
  OBVIOUS
<1>1. CASE ServeOther(s)
  <2> DEFINE d(a) == [c EXCEPT !.back = @ \o a, !.wire = Tail(@),
                               !.received = Append(@, Head(c.wire))]
  <2>1. PICK a \in Answers(Head(c.wire)) : others' = [others EXCEPT ![s] = d(a)]
    BY <1>1, Zenon DEF ServeOther
  <2>2. c.wire # << >>
    BY <1>1, Zenon DEF ServeOther
  <2>3. /\ c.wire \in Seq(Requests) /\ c.back \in Seq(Replies)
        /\ c.received \in Seq(Requests)
    BY <1>0 DEF Conns
  <2>4. Head(c.wire) \in Requests /\ Tail(c.wire) \in Seq(Requests)
    BY <2>2, <2>3
  <2>5. a \in Seq(Replies)
    BY <2>1, <2>4, AnswerTypes, Zenon
  <2>6. c.back \o a \in Seq(Replies)
    BY <2>3, <2>5, ConcatTypes, Zenon
  <2>7. Append(c.received, Head(c.wire)) \in Seq(Requests)
    BY <2>3, <2>4
  <2>8. d(a) \in Conns
    BY <1>0, <2>4, <2>6, <2>7, Zenon DEF Conns
  <2> HIDE DEF d
  <2>9. QED
    BY <2>1, <2>8
<1>2. CASE DropOther(s)
  <2> DEFINE d(b) == [c EXCEPT !.peer = FALSE, !.wire = << >>, !.back = b]
  <2>1. PICK b \in {c.back, << >>} : others' = [others EXCEPT ![s] = d(b)]
    BY <1>2, Zenon DEF DropOther
  <2>2. << >> \in Seq(Requests) /\ << >> \in Seq(Replies)
    OBVIOUS
  <2>3. b \in Seq(Replies)
    BY <1>0, <2>1, <2>2, Zenon DEF Conns
  <2>4. d(b) \in Conns
    BY <1>0, <2>2, <2>3, Zenon DEF Conns
  <2> HIDE DEF d
  <2>5. QED
    BY <2>1, <2>4
<1>3. QED
  BY <1>1, <1>2

-----------------------------------------------------------------------------
(* The beginning of a call.                                                *)
LEMMA BeginStack ==
    ASSUME UNCHANGED client, NEW c \in AllCalls, NEW l \in Labels,
           l \in OuterLabels(c), NEW n \in Nat \ {0},
           call' = [api |-> c, id |-> n], stack' = << Frame(l) >>
    PROVE  /\ stack' \in Seq(Frames) /\ call' \in [api : AllCalls, id : Nat]
           /\ StackInv' /\ RequestInv'
<1>1. Frame(l) \in Frames /\ Frame(l).at = l
  BY FrameTypes
<1>2. OuterLabels(c)' = OuterLabels(c)
  BY DEF OuterLabels, Replicated
<1>3. /\ stack' \in Seq(Frames) /\ Len(stack') = 1 /\ stack'[1] = Frame(l)
      /\ call'.api = c /\ call'.id = n
      /\ call' \in [api : AllCalls, id : Nat]
  BY <1>1
<1>4. OuterLabels(call.api)' = OuterLabels(c)
  BY <1>2, <1>3
<1>5. StackInv'
  BY <1>1, <1>3, <1>4 DEF StackInv
<1>6. RequestInv'
  BY <1>3 DEF RequestInv
<1>7. QED
  BY <1>3, <1>5, <1>6

(* Every call starts at a place of its own.                                *)
LEMMA StartPlaces ==
    /\ \A c \in VdoCalls : "vdo" \in OuterLabels(c)
    /\ \A c \in {"get", "mget"} : "drain" \in OuterLabels(c)
    /\ "fetch" \in OuterLabels("fetch")
    /\ "buffers" \in OuterLabels("flush_buffers")
    /\ "quit" \in OuterLabels("quit")
    /\ \A c \in {"version", "stat_execute", "dump"} :
          "version" \in OuterLabels(c)
    /\ (IF client.binary THEN "flush_send" ELSE "each") \in OuterLabels("flush")
    /\ \A c \in {"stat", "verbosity"} : "each" \in OuterLabels(c)
    /\ "drain_all" \in OuterLabels("mget_all")
    /\ "fetch_any" \in OuterLabels("fetch_any")
BY DEF OuterLabels, VdoCalls, VdoLabels, GetLabels, FetchLabels, BufferLabels,
       QuitLabels, VersionLabels, FlushAllLabels, EachLabels, DrainLabels,
       AnyLabels

(* The places of a call are places.                                        *)
LEMMA OuterAreLabels ==
    ASSUME NEW c \in AllCalls
    PROVE  OuterLabels(c) \subseteq Labels
BY DEF AllCalls, VdoCalls, OuterLabels, Labels, Classes

(* A call that starts is alone on a well-shaped stack.                     *)
LEMMA StartCallFacts ==
    ASSUME TypeInv, NEW c, NEW l, StartCall(c, l), l \in OuterLabels(c)
    PROVE  /\ stack' \in Seq(Frames) /\ call' \in [api : AllCalls, id : Nat]
           /\ StackInv' /\ RequestInv' /\ ControlTypes'
           /\ calls' \in Nat /\ UNCHANGED client
<1>1. c \in AllCalls
  BY PipelineAssumption DEF StartCall, TypeInv, ClientType
<1>2. l \in Labels
  BY <1>1, OuterAreLabels
<1>3. calls + 1 \in Nat \ {0} /\ calls + 1 \in Nat /\ 0 \in Nat
  BY DEF TypeInv
<1>4. ControlTypes' /\ calls' \in Nat /\ UNCHANGED client
  BY <1>3, Zenon DEF StartCall, ControlTypes, TypeInv
<1>5. QED
  BY <1>1, <1>2, <1>3, <1>4, BeginStack, Zenon DEF StartCall

(* The type invariant is the types of its parts.                           *)
LEMMA Assembled ==
    ASSUME client' \in Clients, stack' \in Seq(Frames), ControlTypes',
           call' \in [api : AllCalls, id : Nat], calls' \in Nat, Placed',
           job' \in Jobs
    PROVE  TypeInv'
BY HereTypesAfter, Zenon DEF TypeInv, ControlTypes, Placed

(* The parts of the type invariant.                                        *)
LEMMA PlacedNow ==
    ASSUME TypeInv
    PROVE  Placed /\ ControlTypes /\ job \in Jobs /\ client \in Clients
BY HereTypes, Zenon DEF TypeInv, ControlTypes, Placed

(* A call to one server starts with the invariant.                         *)
LEMMA BeginKeeps ==
    ASSUME TypeInv, One(Begin)
    PROVE  IInv'
<1> USE PlacedNow, StartPlaces
<1>1. UNCHANGED << cur, others, job, connection >>
  BY Zenon DEF One, Begin, StartStorage, StartDelete, StartIncr, StartTouch,
     StartExist, StartGet, StartFetch, StartFlushBuffers, StartQuit, Start,
     connection
<1>2. CASE StartFetch
  <2>1. "fetch" \in AllCalls /\ "fetch" \in Labels /\ fetching \in Nat \ {0}
    BY <1>2, Zenon DEF AllCalls, Labels, Classes, FetchLabels, StartFetch, TypeInv
  <2>2. UNCHANGED client /\ UNCHANGED calls /\ ControlTypes' /\ calls \in Nat
    BY <1>2, Zenon DEF StartFetch, ControlTypes, TypeInv
  <2>3. /\ stack' \in Seq(Frames) /\ call' \in [api : AllCalls, id : Nat]
        /\ StackInv' /\ RequestInv'
    BY <1>2, <2>1, <2>2, BeginStack, Zenon DEF StartFetch
  <2>4. Placed'
    BY <1>1, <2>2, PlaceChanges, Zenon
  <2>5. QED
    BY <1>1, <2>2, <2>3, <2>4, Assembled, Zenon DEF IInv
<1>3. CASE ~StartFetch
  <2>1. PICK c, l : StartCall(c, l) /\ l \in OuterLabels(c)
    BY <1>3, Zenon
    DEF One, Begin, StartStorage, StartDelete, StartIncr, StartTouch,
        StartExist, StartGet, StartFlushBuffers, StartQuit, Start, VdoCalls
  <2>2. /\ stack' \in Seq(Frames) /\ call' \in [api : AllCalls, id : Nat]
        /\ StackInv' /\ RequestInv' /\ ControlTypes'
        /\ calls' \in Nat /\ UNCHANGED client
    BY <2>1, StartCallFacts, Zenon
  <2>3. Placed'
    BY <1>1, <2>2, PlaceChanges, Zenon
  <2>4. QED
    BY <1>1, <2>2, <2>3, Assembled, Zenon DEF IInv
<1>4. QED
  BY <1>2, <1>3

(* A call over several servers starts with the invariant.                  *)
LEMMA JobBegins ==
    ASSUME TypeInv, SBegin
    PROVE  IInv'
<1> USE PlacedNow, StartPlaces
<1>0. NewJob \in Jobs
  BY NewTypes
<1>1. CASE StartFetchAny
  <2>1. "fetch_any" \in AllCalls /\ "fetch_any" \in Labels
        /\ fetching \in Nat \ {0}
    BY <1>1 DEF AllCalls, Labels, Classes, AnyLabels, StartFetchAny, TypeInv
  <2>2. /\ UNCHANGED << client, calls, cur, others, connection >>
        /\ ControlTypes' /\ calls \in Nat
    BY <1>1, Zenon DEF StartFetchAny, ControlTypes, TypeInv
  <2>3. /\ stack' \in Seq(Frames) /\ call' \in [api : AllCalls, id : Nat]
        /\ StackInv' /\ RequestInv'
    BY <1>1, <2>1, <2>2, BeginStack, Zenon DEF StartFetchAny
  <2>4. Placed'
    BY <2>2, PlaceChanges, Zenon
  <2>5. job' \in Jobs
    <3>1. "none" \in Whats \union {"none"} /\ "none" \in Results
          /\ FALSE \in BOOLEAN
      BY DEF Results
    <3>2. QED
      BY <1>1, <3>1, JobUpdates, Zenon DEF StartFetchAny
  <2>6. QED
    BY <2>2, <2>3, <2>4, <2>5, Assembled, Zenon DEF IInv
<1>2. CASE ~StartFetchAny
  <2>1. PICK c, l : StartCall(c, l) /\ l \in OuterLabels(c)
    BY <1>2, Zenon
    DEF SBegin, StartVersion, StartFlush, StartStat, StartStatExecute,
        StartVerbosity, StartDump, StartMget, StartJob, StartOn, VdoCalls
  <2>2. /\ stack' \in Seq(Frames) /\ call' \in [api : AllCalls, id : Nat]
        /\ StackInv' /\ RequestInv' /\ ControlTypes'
        /\ calls' \in Nat /\ UNCHANGED client
    BY <2>1, StartCallFacts, Zenon
  <2>3. CASE \E s \in 1 .. N : StartOn(s)
    <3>1. PICK s \in 1 .. N : Select(s) /\ job' = NewJob
      BY <2>3, Zenon DEF StartOn
    <3>2. s \in 0 .. N
      BY ServerRanges
    <3>3. Placed'
      BY <2>2, <3>1, <3>2, PlaceChanges, Zenon
    <3>4. QED
      BY <1>0, <2>2, <3>1, <3>3, Assembled, Zenon DEF IInv
  <2>4. CASE ~\E s \in 1 .. N : StartOn(s)
    <3>1. UNCHANGED << cur, others, connection >>
          /\ \E start \in IF client.randomize
                          THEN 0 .. client.number_of_replicas ELSE {0} :
                job' = [NewJob EXCEPT !.start = start]
      BY <1>2, <2>4, Zenon
      DEF SBegin, StartVersion, StartFlush, StartStat, StartStatExecute,
          StartVerbosity, StartDump, StartMget, StartJob
    <3>2. PICK start \in Nat : job' = [NewJob EXCEPT !.start = start]
      BY <3>1, ServerRanges
    <3>3. job' \in Jobs
      BY <1>0, <3>2, JobUpdates, Zenon
    <3>4. Placed'
      BY <2>2, <3>1, PlaceChanges, Zenon
    <3>5. QED
      BY <2>2, <3>3, <3>4, Assembled, Zenon DEF IInv
  <2>5. QED
    BY <2>3, <2>4
<1>3. QED
  BY <1>1, <1>2

-----------------------------------------------------------------------------
(* Every step of a call keeps the invariant.                               *)
LEMMA StepKeeps ==
    ASSUME IInv, One(Step) \/ JobStep
    PROVE  IInv' /\ StackMove /\ UNCHANGED << client, call, calls >>
<1> USE DEF IInv
<1>1. StackMove
  <2>1. CASE Step
    BY <2>1, ConnectionMoves, CallMoves, Zenon DEF Step
  <2>2. CASE JobStep
    BY <2>2, JobMoves
  <2>3. QED
    BY <2>1, <2>2 DEF One
<1>2. ControlTypes' /\ UNCHANGED << client, call, calls >>
  BY StepControl, JobControl, Zenon DEF One
<1>3. stack' \in Seq(Frames) /\ StackInv' /\ RequestInv'
  BY <1>1, <1>2, MoveKeepsStack, Zenon DEF TypeInv
<1>4. Placed' /\ job' \in Jobs
  <2>1. CASE One(Step)
    BY <1>2, <2>1, PlacedNow, StepConnection, Zenon DEF One, Placed, N
  <2>2. CASE JobStep
    BY <1>2, <2>2, PlacedNow, PlaceChanges, JobConnections, JobTypes, Zenon
  <2>3. QED
    BY <2>1, <2>2
<1>5. QED
  BY <1>1, <1>2, <1>3, <1>4, Assembled, Zenon DEF TypeInv

(* Every step keeps the invariant.                                         *)
LEMMA NextKeeps ==
    ASSUME IInv, [SNext]_svars
    PROVE  IInv'
<1>0. TypeInv /\ StackInv /\ RequestInv /\ Placed /\ ControlTypes /\ job \in Jobs
      /\ N \in Nat
  BY PlacedNow, ServerRanges DEF IInv
<1>1. ASSUME UNCHANGED << client, stack, call, calls, job >>, ControlTypes',
             Placed'
      PROVE  IInv'
  <2>1. StackInv' /\ RequestInv' /\ stack' \in Seq(Frames)
    BY <1>0, <1>1, MoveKeepsStack DEF StackMove, TypeInv
  <2>2. QED
    BY <1>0, <1>1, <2>1, Assembled, Zenon DEF IInv, TypeInv
<1>2. CASE One(Begin)
  BY <1>0, <1>2, BeginKeeps
<1>3. CASE SBegin
  BY <1>0, <1>3, JobBegins
<1>4. CASE SStep
  BY <1>4, StepKeeps DEF SStep
<1>5. CASE One(Serve) \/ One(Drop)
  <2>1. UNCHANGED << cur, others, job, control, api >> /\ (Serve \/ Drop)
    BY <1>5, Zenon DEF One, Serve, Drop
  <2>2. ControlTypes' /\ UNCHANGED << client, stack, call, calls, job >>
    BY <1>0, <2>1, Zenon DEF control, api, ControlTypes
  <2>3. Placed'
    BY <1>0, <2>1, <2>2, ServerTypes, Zenon DEF Placed, N
  <2>4. QED
    BY <1>1, <2>2, <2>3
<1>6. CASE \E s \in 1 .. N : s # cur /\ (ServeOther(s) \/ DropOther(s))
  <2>1. PICK s \in 1 .. N : ServeOther(s) \/ DropOther(s)
    BY <1>6
  <2>2. s \in 0 .. N
    BY <1>0
  <2>3. UNCHANGED << vars, cur, job >>
    BY <2>1, Zenon DEF ServeOther, DropOther
  <2>4. /\ UNCHANGED << net, buffers, known >>
        /\ UNCHANGED << purging, stack, ok, client, reply, call, calls, fetching >>
    BY <2>3 DEF vars, control, api
  <2>5. ConnTypes'
    BY <1>0, <2>4, ConnectionChanges, Zenon DEF connection, Placed
  <2>6. Placed'
    BY <1>0, <2>1, <2>2, <2>3, <2>4, <2>5, OtherTypes, Zenon DEF Placed, N
  <2>7. QED
    BY <1>0, <1>1, <2>3, <2>4, <2>6, Zenon DEF ControlTypes
<1>7. CASE One(Done) \/ UNCHANGED svars
  <2>1. UNCHANGED << vars, cur, others, job >>
    BY <1>7 DEF One, Done, svars
  <2>2. /\ UNCHANGED << net, buffers, known >>
        /\ UNCHANGED << purging, stack, ok, client, reply, call, calls, fetching >>
    BY <2>1 DEF vars, control, api
  <2>3. Placed'
    BY <1>0, <2>1, <2>2, PlaceChanges, Zenon DEF connection
  <2>4. QED
    BY <1>0, <1>1, <2>1, <2>2, <2>3, Zenon DEF ControlTypes
<1>8. QED
  BY <1>2, <1>3, <1>4, <1>5, <1>6, <1>7, Zenon DEF SNext, SServe

(* The invariant holds initially.                                          *)
LEMMA InitKeeps ==
    ASSUME SInit
    PROVE  IInv
<1>1. client \in Clients /\ client \in ClientType /\ N \in Nat \ {0}
  BY PipelineAssumption DEF SInit, Init, N, ClientType
<1>2. stack \in Seq(Frames) /\ stack = << >> /\ StackInv /\ RequestInv
  BY DEF SInit, Init, StackInv, RequestInv
<1>3. /\ ok \in BOOLEAN /\ purging \in BOOLEAN /\ reply \in Replies
      /\ call \in [api : AllCalls, id : Nat] /\ calls \in Nat
      /\ fetching \in Nat
  BY FailedType, Zenon DEF SInit, Init, AllCalls
<1>4. ConnTypes
  <2>1. 0 \in Nat /\ << >> \in Seq(Requests) /\ << >> \in Seq(Replies)
    OBVIOUS
  <2>2. QED
    BY <2>1, Zenon DEF SInit, Init, ConnTypes
<1>5. NewConn \in Conns
  BY NewTypes
<1>6. cur \in 0 .. N /\ others \in [0 .. N -> Conns]
  BY <1>1, <1>5 DEF SInit
<1>7. job \in Jobs
  BY NewTypes DEF SInit
<1>8. QED
  BY <1>1, <1>2, <1>3, <1>4, <1>6, <1>7, HereTypes, Zenon DEF IInv, TypeInv

(* For every client, the state has its types, the activations are stacked  *)
(* as the functions of the library call each other, and memcached_vdo      *)
(* always knows the request that it sends.                                 *)
THEOREM ServersInductive == SSpec => []IInv
<1>1. SInit => IInv
  BY InitKeeps
<1>2. IInv /\ [SNext]_svars => IInv'
  BY NextKeeps
<1>3. QED
  BY <1>1, <1>2, PTL DEF SSpec

-----------------------------------------------------------------------------
(* Steps on a connection.                                                  *)

(* Where the steps of module Pipeline are taken.                           *)
StepLabels ==
    InnerLabels \union GetLabels \union FetchLabels \union BufferLabels

(* A step on a connection is taken by the activation on top, at a place of *)
(* the functions that calls share.                                         *)
LEMMA StepAt ==
    ASSUME Step
    PROVE  stack # << >> /\ Top.at \in StepLabels
<1> USE DEF At, StepLabels, InnerLabels
<1>1. CASE \/ PurgeStart \/ PurgeFlushed \/ PurgeRead \/ PurgeFails \/ PurgeEnd
           \/ FlushStart \/ FlushPurged \/ Send \/ SendFails \/ SendDone
           \/ SendBlocked \/ InputProcessed \/ Wait
  <2>1. \E l \in PurgeLabels \union FlushLabels : At(l)
    BY <1>1, Zenon
    DEF PurgeStart, PurgeFlushed, PurgeRead, PurgeFails, PurgeEnd,
        FlushStart, FlushPurged, Send, SendFails, SendDone, SendBlocked,
        InputProcessed, Wait, PurgeLabels, FlushLabels
  <2>2. QED
    BY <2>1
<1>2. CASE \/ WriteStart \/ WriteFull \/ WriteEnd \/ Fill \/ SkipQuietError
           \/ JunkRead \/ ResponseRead \/ ResponseFails \/ Response
  <2>1. \E l \in WriteLabels \union ReadLabels \union PurgeLabels : At(l)
    BY <1>2, Zenon
    DEF WriteStart, WriteFull, WriteEnd, Fill, SkipQuietError, JunkRead,
        ResponseRead, ResponseFails, Response, Reading, WriteLabels,
        ReadLabels, PurgeLabels
  <2>2. QED
    BY <2>1
<1>3. CASE \/ Vdo \/ VdoSent \/ Answered \/ FlushBuffers \/ Quit \/ Slurp
           \/ QuitEnd
  <2>1. \E l \in VdoLabels \union BufferLabels \union QuitLabels : At(l)
    BY <1>3, Zenon
    DEF Vdo, VdoSent, Answered, FlushBuffers, Quit, Slurp, QuitEnd, Slurps,
        SlurpEnds, VdoLabels, BufferLabels, QuitLabels
  <2>2. QED
    BY <2>1
<1>4. CASE \/ Drain \/ Draining \/ GetKey \/ GetKeySent \/ GetNoop \/ Got
           \/ Fetch \/ Fetched
  <2>1. \E l \in GetLabels \union FetchLabels : At(l)
    BY <1>4, Zenon
    DEF Drain, Draining, GetKey, GetKeySent, GetNoop, Got, Fetch, Fetched,
        GetLabels, FetchLabels
  <2>2. QED
    BY <2>1
<1>5. QED
  BY <1>1, <1>2, <1>3, <1>4 DEF Step

(* A step of a call over several servers is taken at a place of it.        *)
LEMMA JobAt ==
    ASSUME JobStep
    PROVE  stack # << >> /\ Top.at \in JobLabels \union {"end"}
<1>1. \E l \in JobLabels \union {"end"} : At(l)
  <2>1. CASE \/ VersionSend \/ VersionSent \/ VersionRead \/ VersionGot
             \/ VersionEnd \/ EachSend \/ EachSent \/ EachGot \/ EachFree
    <3>1. \E l \in VersionLabels \union EachLabels : At(l)
      BY <2>1, Zenon
      DEF VersionSend, VersionSent, VersionRead, VersionGot, VersionEnd,
          Collect, EachSend, EachSent, EachGot, EachFree, VersionLabels,
          EachLabels
    <3>2. QED
      BY <3>1 DEF JobLabels
  <2>2. CASE \/ FlushSend \/ FlushSent \/ FlushRead \/ DumpSend \/ DumpSent
             \/ DumpRead \/ DumpGot \/ DumpNext
    <3>1. \E l \in FlushAllLabels \union DumpLabels : At(l)
      BY <2>2, Zenon
      DEF FlushSend, FlushSent, FlushRead, DumpSend, DumpSent, DumpRead,
          DumpGot, DumpNext, Collect, FlushAllLabels, DumpLabels
    <3>2. QED
      BY <3>1 DEF JobLabels
  <2>3. CASE \/ DrainAll \/ DrainingAll \/ MgetKey \/ MgetConnect \/ MgetSent
             \/ MgetEnd \/ MgetNoop \/ MgetFlushed
    <3>1. \E l \in DrainLabels \union MgetLabels : At(l)
      BY <2>3, Zenon
      DEF DrainAll, DrainingAll, MgetKey, MgetConnect, MgetSent, MgetEnd,
          MgetNoop, MgetFlushed, DrainLabels, MgetLabels
    <3>2. QED
      BY <3>1 DEF JobLabels
  <2>4. CASE \/ ReplicaKey \/ ReplicaConnect \/ ReplicaSent
             \/ FetchAny \/ FetchGot \/ FetchNone \/ JobEnd
    <3>1. \E l \in ReplicaLabels \union AnyLabels \union {"end"} : At(l)
      BY <2>4, Zenon
      DEF ReplicaKey, ReplicaConnect, ReplicaSent, FetchAny, FetchGot,
          FetchNone, JobEnd, Collect, ReplicaLabels, AnyLabels
    <3>2. QED
      BY <3>1 DEF JobLabels
  <2>5. QED
    BY <2>1, <2>2, <2>3, <2>4 DEF JobStep
<1>2. QED
  BY <1>1, Zenon DEF At

(* A number of servers other than one.                                     *)
LEMMA MoreThanOne ==
    ASSUME NEW n \in Nat \ {0}, n # 1
    PROVE  n \in Nat /\ n > 1
OBVIOUS

(* While a step is taken on a connection, the call that goes over the      *)
(* servers stays where it is.                                              *)
LEMMA StepKeepsJob ==
    ASSUME IInv, One(Step), stack # << >>,
           stack[1].at \in JobLabels \union {"end"}
    PROVE  stack' # << >> /\ stack'[1] = stack[1]
<1>1. Top.at \notin JobLabels \union {"end"}
  <2>1. Top.at \in StepLabels
    BY StepAt DEF One
  <2>2. StepLabels \intersect (JobLabels \union {"end"}) = {}
    BY DEF StepLabels, InnerLabels, JobLabels, FlushLabels, PurgeLabels,
           WriteLabels, ReadLabels, VdoLabels, QuitLabels, GetLabels,
           FetchLabels, BufferLabels, VersionLabels, EachLabels,
           FlushAllLabels, DumpLabels, DrainLabels, MgetLabels,
           ReplicaLabels, AnyLabels
  <2>3. QED
    BY <2>1, <2>2
<1>0. stack \in Seq(Frames)
  BY DEF IInv, TypeInv
<1>2. Len(stack) \in Nat /\ Len(stack) > 1
  <2>1. Len(stack) \in Nat \ {0}
    BY <1>0, TopFrame
  <2>2. ASSUME Len(stack) = 1 PROVE FALSE
    <3>1. Top = stack[1]
      BY <2>2 DEF Top
    <3>2. QED
      BY <1>1, <3>1
  <2>3. Len(stack) # 1
    BY <2>2
  <2>4. QED
    BY <2>1, <2>3, MoreThanOne, Zenon
<1>3. StackMove
  BY StepKeeps
<1>4. QED
  BY <1>0, <1>2, <1>3, ChangeFacts, PushFacts, PopFacts DEF StackMove

(* What a step of such a call does with its activation.                    *)
LEMMA JobSteps ==
    ASSUME IInv, JobStep
    PROVE  /\ Len(stack) = 1 /\ Top = stack[1] /\ stack # << >>
           /\ Top.at \in OuterLabels(call.api)
           /\ \A l : Goto(l) => stack' # << >> /\ stack'[1].at = l
           /\ \A l, f : Invoke(l, f) => stack' # << >> /\ stack'[1].at = l
<1>1. /\ Len(stack) = 1 /\ Top = stack[1] /\ stack # << >>
      /\ Top.at \in OuterLabels(call.api)
  BY JobAt, JobTop DEF IInv
<1>2. stack \in Seq(Frames) /\ stack[1] \in Frames
  BY <1>1 DEF IInv, TypeInv
<1>3. ASSUME NEW l
      PROVE  [stack EXCEPT ![1].at = l] = << [stack[1] EXCEPT !.at = l] >>
  BY <1>1, <1>2
<1>4. ASSUME NEW l PROVE [stack[1] EXCEPT !.at = l].at = l
  BY <1>2, Zenon DEF Frames
<1>5. ASSUME NEW l, Goto(l) PROVE stack' # << >> /\ stack'[1].at = l
  <2>1. stack' = << [stack[1] EXCEPT !.at = l] >>
    BY <1>1, <1>3, <1>5, Zenon DEF Goto
  <2>2. QED
    BY <1>4, <2>1, Zenon
<1>6. ASSUME NEW l, NEW f, Invoke(l, f)
      PROVE  stack' # << >> /\ stack'[1].at = l
  <2> DEFINE t == [stack[1] EXCEPT !.at = l]
  <2>1. stack' = Append(<< t >>, f)
    BY <1>1, <1>3, <1>6, Zenon DEF Invoke
  <2>2. t.at = l
    BY <1>4
  <2> HIDE DEF t
  <2>3. stack' # << >> /\ stack'[1] = t
    BY <2>1
  <2>4. QED
    BY <2>2, <2>3
<1>7. QED
  BY <1>1, <1>5, <1>6, Zenon

-----------------------------------------------------------------------------
(* The rounds of a replicated get.                                         *)
Tried(k, r) == k \in job.sent \/ ReplicaOf(k, r) \in job.dead

(* A get of several keys with replicas is going on.                        *)
ReplicatedGet == stack # << >> /\ call.api = "mget_all" /\ Replicated

(* Every key before the next one is sent in this round or its server is    *)
(* dead, and so it was in the rounds before.                               *)
RoundInv ==
    /\ job.dead \subseteq 1 .. N
    /\ job.replica <= client.number_of_replicas
    /\ \A k \in Keys, r \in 0 .. job.replica - 1 : Tried(k, r)
    /\ \A k \in Keys : k < job.x => Tried(k, job.replica)
    /\ job.replica = 0 /\ job.success => job.dead = {}

(* What holds of such a get at each of its places.                         *)
PlaceInv(l) ==
    /\ l \in DrainLabels => job.replica = 0 /\ job.success /\ job.dead = {}
    /\ l \notin DrainLabels => RoundInv
    /\ l \in {"replica_connect", "replica_sent"} =>
          job.x \in Keys /\ cur = ReplicaOf(job.x, job.replica)
    /\ l = "end" =>
          /\ job.x > Len(client.homes)
          /\ job.success \/ job.replica = client.number_of_replicas

(* The inductive invariant of replicated gets, beside IInv.                *)
ReplicaInv ==
    /\ ~client.randomize => job.start = 0
    /\ ReplicatedGet => PlaceInv(stack[1].at)

(* The replica at which a get starts is chosen once.                       *)
LEMMA StartKept ==
    ASSUME TypeInv, JobStep
    PROVE  job'.start = job.start \/ job' = NewJob
<1>0. job \in Jobs
  BY DEF TypeInv
<1> DEFINE Same == job'.start = job.start
<1>1. CASE VersionSend \/ VersionSent \/ VersionRead \/ VersionGot \/ VersionEnd
  BY <1>0, <1>1, Zenon
  DEF VersionSend, VersionSent, VersionRead, VersionGot, VersionEnd, Collect,
      NextX, Jobs
<1>2. CASE EachSend \/ EachSent \/ EachGot \/ EachFree
  BY <1>0, <1>2, Zenon DEF EachSend, EachSent, EachGot, EachFree, Jobs
<1>3. CASE FlushSend \/ FlushSent \/ FlushRead
  BY <1>0, <1>3, Zenon DEF FlushSend, FlushSent, FlushRead, NextX, Jobs
<1>4. CASE DumpSend \/ DumpSent \/ DumpRead \/ DumpGot \/ DumpNext
  BY <1>0, <1>4, Zenon
  DEF DumpSend, DumpSent, DumpRead, DumpGot, DumpNext, Collect, NextX, Jobs
<1>5. CASE DrainAll \/ DrainingAll \/ MgetKey \/ MgetConnect \/ MgetSent
  BY <1>0, <1>5, Zenon DEF DrainAll, DrainingAll, MgetKey, MgetConnect, MgetSent,
     NextX, Jobs
<1>6. CASE MgetEnd \/ MgetNoop \/ MgetFlushed
  BY <1>0, <1>6, Zenon DEF MgetEnd, MgetNoop, MgetFlushed, NextX, Jobs
<1>7. CASE ReplicaKey \/ ReplicaConnect \/ ReplicaSent
  BY <1>0, <1>7, Zenon
  DEF ReplicaKey, ReplicaConnect, ReplicaSent, ReplicaFails, NextX, Jobs
<1>8. CASE FetchAny \/ FetchGot \/ FetchNone \/ JobEnd
  BY <1>0, <1>8, Zenon DEF FetchAny, FetchGot, FetchNone, JobEnd, Collect, Jobs
<1>9. QED
  BY <1>1, <1>2, <1>3, <1>4, <1>5, <1>6, <1>7, <1>8 DEF JobStep

(* The steps of a replicated get.                                          *)
LEMMA ReplicatedSteps ==
    ASSUME IInv, ReplicatedGet, JobStep
    PROVE  \/ DrainAll \/ DrainingAll \/ ReplicaKey \/ ReplicaConnect
           \/ ReplicaSent \/ JobEnd
<1>1. stack # << >> /\ Top.at \in OuterLabels("mget_all")
  BY JobSteps DEF ReplicatedGet
<1>2. Top.at \in ReplicaLabels \union DrainLabels \union {"end"}
  BY <1>1 DEF OuterLabels, ReplicatedGet, VdoCalls
<1>3. \A l \in UNION {VersionLabels, EachLabels, FlushAllLabels, DumpLabels,
                      MgetLabels, AnyLabels} : ~At(l)
  BY <1>2 DEF At, VersionLabels, EachLabels, FlushAllLabels, DumpLabels,
     MgetLabels, AnyLabels, ReplicaLabels, DrainLabels
<1>4. /\ \A l \in VersionLabels : ~At(l)
      /\ \A l \in EachLabels : ~At(l)
      /\ \A l \in FlushAllLabels : ~At(l)
      /\ \A l \in DumpLabels : ~At(l)
      /\ \A l \in MgetLabels : ~At(l)
      /\ \A l \in AnyLabels : ~At(l)
  BY <1>3
<1>5. ~(VersionSend \/ VersionSent \/ VersionRead \/ VersionGot \/ VersionEnd)
  BY <1>4, Zenon DEF VersionSend, VersionSent, VersionRead, VersionGot,
     VersionEnd, Collect, VersionLabels
<1>6. ~(EachSend \/ EachSent \/ EachGot \/ EachFree)
  BY <1>4, Zenon DEF EachSend, EachSent, EachGot, EachFree, EachLabels
<1>7. ~(FlushSend \/ FlushSent \/ FlushRead)
  BY <1>4, Zenon DEF FlushSend, FlushSent, FlushRead, FlushAllLabels
<1>8. ~(DumpSend \/ DumpSent \/ DumpRead \/ DumpGot \/ DumpNext)
  BY <1>4, Zenon DEF DumpSend, DumpSent, DumpRead, DumpGot, DumpNext,
     Collect, DumpLabels
<1>9. ~(MgetKey \/ MgetConnect \/ MgetSent \/ MgetEnd \/ MgetNoop
        \/ MgetFlushed)
  BY <1>4, Zenon DEF MgetKey, MgetConnect, MgetSent, MgetEnd, MgetNoop,
     MgetFlushed, MgetLabels
<1>10. ~(FetchAny \/ FetchGot \/ FetchNone)
  BY <1>4, Zenon DEF FetchAny, FetchGot, FetchNone, Collect, AnyLabels
<1>11. QED
  BY <1>5, <1>6, <1>7, <1>8, <1>9, <1>10, Zenon DEF JobStep

(* A round goes on, and the next one begins.                               *)
LEMMA RoundStarts ==
    ASSUME IInv, UNCHANGED client, job.dead = {}, job.replica = 0,
           job.success, job' = [job EXCEPT !.x = 1]
    PROVE  RoundInv'
<1>1. job \in Jobs /\ Keys' = Keys /\ N' = N
  BY DEF IInv, TypeInv, Keys, N
<1>2. job'.x = 1 /\ job'.dead = {} /\ job'.replica = 0
  BY <1>1, Zenon DEF Jobs
<1>3. \A k \in Keys : ~(k < 1)
  BY ServerRanges DEF IInv
<1>4. client.number_of_replicas >= 0
  BY ServerRanges DEF IInv
<1>5. QED
  BY <1>1, <1>2, <1>3, <1>4 DEF RoundInv

(* Steps of the round that do not change the job.                          *)
LEMMA RoundKept ==
    ASSUME RoundInv, UNCHANGED << client, job >>
    PROVE  RoundInv'
BY Zenon DEF RoundInv, Tried, ReplicaOf, Keys, N

(* replication_binary_mget goes on to the next key of a round: the key was *)
(* sent to the server of this round's replica or that server has failed.   *)
LEMMA RoundGoesOn ==
    ASSUME IInv, RoundInv, UNCHANGED client, job'.start = job.start,
           job'.replica = job.replica, job'.x = job.x + 1,
           job.sent \subseteq job'.sent, job.dead \subseteq job'.dead,
           job'.dead \subseteq 1 .. N,
           job.x \in job'.sent \/ ReplicaOf(job.x, job.replica) \in job'.dead,
           job'.success => job.success /\ job'.dead = job.dead
    PROVE  RoundInv'
<1>1. /\ Keys' = Keys /\ N' = N
      /\ \A k, r : ReplicaOf(k, r)' = ReplicaOf(k, r)
  BY DEF Keys, N, ReplicaOf
<1>2. \A k, r : Tried(k, r) => Tried(k, r)'
  BY <1>1, Zenon DEF Tried
<1>3. ASSUME NEW k \in Keys, k < job.x + 1 PROVE Tried(k, job.replica)'
  <2>1. k \in 1 .. Len(client.homes) /\ job.x \in Nat
    BY ServerRanges, Zenon DEF IInv
  <2>2. CASE k = job.x
    BY <1>1, <2>2 DEF Tried
  <2>3. CASE k < job.x
    BY <1>2, <2>3 DEF RoundInv
  <2>4. QED
    BY <1>3, <2>1, <2>2, <2>3
<1>4. QED
  BY <1>1, <1>2, <1>3 DEF RoundInv

(* After a round with a failure the next one asks the next replicas.       *)
LEMMA NextRound ==
    ASSUME IInv, RoundInv, UNCHANGED client, job.x > Len(client.homes),
           job.replica # client.number_of_replicas,
           job' = [job EXCEPT !.x = 1, !.replica = @ + 1, !.success = TRUE]
    PROVE  RoundInv'
<1>1. /\ job \in Jobs /\ Keys' = Keys /\ N' = N
      /\ Keys = 1 .. Len(client.homes) /\ Len(client.homes) \in Nat
      /\ job.x \in Nat /\ job.replica \in Nat
      /\ client.number_of_replicas \in Nat
  BY ServerRanges DEF IInv, TypeInv, Keys, N
<1>2. /\ job'.x = 1 /\ job'.dead = job.dead /\ job'.sent = job.sent
      /\ job'.replica = job.replica + 1 /\ job'.start = job.start
  BY <1>1, Zenon DEF Jobs
<1>3. \A k, r : Tried(k, r)' <=> Tried(k, r)
  BY <1>2 DEF Tried, ReplicaOf, N
<1>4. ASSUME NEW k \in Keys, NEW r \in 0 .. job.replica PROVE Tried(k, r)
  <2>1. k < job.x /\ (r = job.replica \/ r \in 0 .. job.replica - 1)
    BY <1>1
  <2>2. QED
    BY <2>1 DEF RoundInv
<1>5. /\ job'.replica <= client.number_of_replicas /\ job'.replica # 0
      /\ job'.replica - 1 = job.replica
      /\ \A k \in Keys : ~(k < 1)
  BY <1>1, <1>2 DEF RoundInv
<1>6. QED
  BY <1>1, <1>2, <1>3, <1>4, <1>5 DEF RoundInv

(* Every step of a replicated get keeps what holds at its places.          *)
LEMMA ReplicaStep ==
    ASSUME IInv, ReplicatedGet, PlaceInv(stack[1].at), UNCHANGED client,
           JobStep, ~JobEnd
    PROVE  PlaceInv(stack[1].at)'
<1> DEFINE Goes(l) == stack'[1].at = l
<1>0. /\ Top = stack[1] /\ job \in Jobs
      /\ \A l : Goto(l) => Goes(l)
      /\ \A l, f : Invoke(l, f) => Goes(l)
  BY JobSteps, Zenon DEF IInv, TypeInv
<1>1. /\ "drain_all" \in DrainLabels /\ "draining_all" \in DrainLabels
      /\ "replica" \notin DrainLabels /\ "replica_connect" \notin DrainLabels
      /\ "replica_sent" \notin DrainLabels /\ "end" \notin DrainLabels
  BY DEF DrainLabels
<1>2. Keys' = Keys /\ N' = N
  BY DEF Keys, N
<1> USE <1>0, <1>1 DEF Call, CallHere, Stay, StayWith
<1>3. CASE DrainAll \/ DrainingAll
  <2>1. job.replica = 0 /\ job.success /\ job.dead = {}
    BY <1>3, Zenon DEF DrainAll, DrainingAll, At, PlaceInv
  <2>2. CASE Goes("replica") /\ job' = [job EXCEPT !.x = 1]
    BY <2>1, <2>2, RoundStarts, Zenon DEF PlaceInv
  <2>3. \/ Goes("replica") /\ job' = [job EXCEPT !.x = 1]
        \/ (Goes("drain_all") \/ Goes("draining_all")) /\ (UNCHANGED job \/ NextX)
    BY <1>3, Zenon DEF DrainAll, DrainingAll, ReplicatedGet
  <2>4. CASE (Goes("drain_all") \/ Goes("draining_all"))
             /\ (UNCHANGED job \/ NextX)
    <3>1. job'.replica = 0 /\ job'.success /\ job'.dead = {}
      BY <2>1, <2>4, Zenon DEF NextX, Jobs
    <3>2. QED
      BY <2>4, <3>1, Zenon DEF PlaceInv
  <2>5. QED
    BY <2>2, <2>3, <2>4
<1>4. CASE ReplicaKey
  <2>0. RoundInv /\ At("replica")
    BY <1>4, Zenon DEF ReplicaKey, At, PlaceInv
  <2>1. CASE /\ job.x > Len(client.homes)
             /\ job.success \/ job.replica = client.number_of_replicas
             /\ Stay("end") /\ UNCHANGED job
    <3>1. Goes("end") /\ UNCHANGED << cur, job >>
      BY <2>1, Zenon
    <3>2. RoundInv'
      BY <2>0, <3>1, RoundKept, Zenon
    <3>3. QED
      BY <2>1, <3>1, <3>2, Zenon DEF PlaceInv
  <2>2. CASE /\ job.x > Len(client.homes)
             /\ ~(job.success \/ job.replica = client.number_of_replicas)
             /\ Stay("replica")
             /\ job' = [job EXCEPT !.x = 1, !.replica = @ + 1,
                                   !.success = TRUE]
    <3>1. Goes("replica")
      BY <2>2, Zenon
    <3>2. RoundInv'
      BY <2>0, <2>2, NextRound, Zenon
    <3>3. QED
      BY <3>1, <3>2, Zenon DEF PlaceInv
  <2>3. CASE /\ job.x \in job.sent \/ ReplicaOf(job.x, job.replica) \in job.dead
             /\ Stay("replica") /\ NextX
    <3>1. Goes("replica")
      BY <2>3, Zenon
    <3>2. /\ job'.start = job.start /\ job'.replica = job.replica
          /\ job'.x = job.x + 1 /\ job'.sent = job.sent
          /\ job'.dead = job.dead /\ job'.success = job.success
      BY <2>3, Zenon DEF NextX, Jobs
    <3>3. RoundInv'
      <4>1. /\ job.sent \subseteq job'.sent /\ job.dead \subseteq job'.dead
            /\ job'.dead \subseteq 1 .. N
            /\ job.x \in job'.sent \/ ReplicaOf(job.x, job.replica) \in job'.dead
        BY <2>0, <2>3, <3>2, Zenon DEF RoundInv
      <4>2. QED
        BY <2>0, <3>2, <4>1, RoundGoesOn, Zenon
    <3>4. QED
      BY <3>1, <3>3 DEF PlaceInv
  <2>4. CASE /\ job.x <= Len(client.homes)
             /\ Select(ReplicaOf(job.x, job.replica))
             /\ Goto("replica_connect") /\ UNCHANGED job
    <3>1. /\ Goes("replica_connect") /\ UNCHANGED job
          /\ cur' = ReplicaOf(job.x, job.replica)
      BY <2>4, Zenon DEF Select
    <3>2. RoundInv'
      BY <2>0, <3>1, RoundKept, Zenon
    <3>3. job.x \in Keys
      BY <2>4, ServerRanges DEF IInv
    <3>4. ReplicaOf(job.x, job.replica)' = ReplicaOf(job.x, job.replica)
      BY <3>1, Zenon DEF ReplicaOf, N
    <3>5. QED
      BY <1>2, <3>1, <3>2, <3>3, <3>4, Zenon DEF PlaceInv
  <2>5. QED
    BY <1>4, <2>1, <2>2, <2>3, <2>4, Zenon DEF ReplicaKey
<1>5. CASE ReplicaConnect \/ ReplicaSent
  <2>0. /\ RoundInv /\ job.x \in Keys /\ cur = ReplicaOf(job.x, job.replica)
        /\ cur \in 1 .. N
    <3>1. stack[1].at \in {"replica_connect", "replica_sent"}
      BY <1>5, Zenon DEF ReplicaConnect, ReplicaSent, At
    <3>2. RoundInv /\ job.x \in Keys /\ cur = ReplicaOf(job.x, job.replica)
      BY <3>1, Zenon DEF PlaceInv
    <3>3. QED
      BY <3>2, ServerRanges, Zenon DEF IInv
  <2>1. CASE Goes("replica_sent") /\ UNCHANGED << cur, job >>
    <3>1. RoundInv'
      BY <2>0, <2>1, RoundKept, Zenon
    <3>2. ReplicaOf(job.x, job.replica)' = ReplicaOf(job.x, job.replica)
      BY <2>1 DEF ReplicaOf, N
    <3>3. QED
      BY <1>2, <2>0, <2>1, <3>1, <3>2, Zenon DEF PlaceInv
  <2>2. CASE Goes("replica")
             /\ job' = [job EXCEPT !.x = @ + 1, !.sent = @ \union {job.x}]
    <3>1. /\ job'.start = job.start /\ job'.replica = job.replica
          /\ job'.x = job.x + 1 /\ job'.sent = job.sent \union {job.x}
          /\ job'.dead = job.dead /\ job'.success = job.success
      BY <2>2, Zenon DEF Jobs
    <3>2. RoundInv'
      <4>1. /\ job.sent \subseteq job'.sent /\ job.dead \subseteq job'.dead
            /\ job'.dead \subseteq 1 .. N /\ job.x \in job'.sent
        BY <2>0, <3>1, Zenon DEF RoundInv
      <4>2. QED
        BY <2>0, <3>1, <4>1, RoundGoesOn, Zenon
    <3>3. QED
      BY <2>2, <3>2 DEF PlaceInv
  <2>3. CASE ReplicaFails
    <3>1. /\ job'.start = job.start /\ job'.replica = job.replica
          /\ job'.x = job.x + 1 /\ job'.sent = job.sent
          /\ job'.dead = job.dead \union {cur} /\ job'.success = FALSE
      BY <2>3, Zenon DEF ReplicaFails, Jobs
    <3>2. RoundInv'
      <4>1. /\ job.sent \subseteq job'.sent /\ job.dead \subseteq job'.dead
            /\ job'.dead \subseteq 1 .. N
            /\ ReplicaOf(job.x, job.replica) \in job'.dead
        BY <2>0, <3>1, Zenon DEF RoundInv
      <4>2. QED
        BY <2>0, <3>1, <4>1, RoundGoesOn, Zenon
    <3>3. Goes("replica")
      BY <2>3, Zenon DEF ReplicaFails
    <3>4. QED
      BY <3>2, <3>3, Zenon DEF PlaceInv
  <2>4. QED
    BY <1>5, <2>1, <2>2, <2>3, Zenon DEF ReplicaConnect, ReplicaSent
<1>6. QED
  BY <1>3, <1>4, <1>5, ReplicatedSteps

(* The call returns.                                                       *)
LEMMA EndReturns ==
    ASSUME IInv, JobStep, JobEnd
    PROVE  stack' = << >>
<1>1. stack' = SubSeq(stack, 1, Len(stack) - 1) /\ Len(stack) = 1
  BY JobSteps, Zenon DEF JobEnd, Return, Rest
<1>2. stack' = SubSeq(stack, 1, 0)
  BY <1>1
<1>3. stack \in Seq(Frames)
  BY DEF IInv, TypeInv
<1>4. SubSeq(stack, 1, 0) = << >>
  BY <1>3
<1>5. QED
  BY <1>2, <1>4

(* The servers leave the calls alone.                                      *)
LEMMA NextCases ==
    ASSUME [SNext]_svars
    PROVE  \/ One(Begin) \/ SBegin \/ One(Step) \/ JobStep
           \/ UNCHANGED << client, stack, call, job, cur >>
<1>1. CASE One(Serve) \/ One(Drop) \/ One(Done)
  <2>1. UNCHANGED << cur, job, control, api >>
    BY <1>1, Zenon DEF One, Serve, Drop, Done, vars
  <2>2. QED
    BY <2>1 DEF control, api
<1>2. CASE (\E s \in 1 .. N : s # cur /\ (ServeOther(s) \/ DropOther(s)))
           \/ UNCHANGED svars
  <2>1. UNCHANGED << vars, cur, job >>
    BY <1>2, Zenon DEF ServeOther, DropOther, svars
  <2>2. QED
    BY <2>1 DEF vars, control, api
<1>3. QED
  BY <1>1, <1>2, Zenon DEF SNext, SStep, SServe

(* The calls to one server are not replicated gets.                        *)
LEMMA BeginOther ==
    ASSUME One(Begin)
    PROVE  /\ UNCHANGED << client, job >>
           /\ call'.api \in VdoCalls \union {"get", "mget", "fetch",
                                             "flush_buffers", "quit"}
<1>1. UNCHANGED << client, job >>
  BY Zenon
  DEF One, Begin, StartStorage, StartDelete, StartIncr, StartTouch,
      StartExist, StartGet, StartFetch, StartFlushBuffers, StartQuit, Start,
      StartCall
<1>2. PICK c \in VdoCalls \union {"get", "mget", "fetch", "flush_buffers",
                                  "quit"} :
         \E n : call' = [api |-> c, id |-> n]
  BY Zenon
  DEF One, Begin, StartStorage, StartDelete, StartIncr, StartTouch,
      StartExist, StartGet, StartFetch, StartFlushBuffers, StartQuit, Start,
      StartCall, VdoCalls
<1>3. QED
  BY <1>1, <1>2

(* A replicated get starts with the invariant.                             *)
LEMMA ReplicaBegins ==
    ASSUME IInv, ReplicaInv, SBegin
    PROVE  ReplicaInv'
<1>1. CASE StartFetchAny
  <2>1. UNCHANGED client /\ job'.start = job.start /\ call'.api = "fetch_any"
    BY <1>1 DEF StartFetchAny, IInv, TypeInv, Jobs
  <2>2. QED
    BY <2>1 DEF ReplicaInv, ReplicatedGet
<1>2. CASE \E s \in 1 .. N : StartOn(s)
  <2>0. PICK s \in 1 .. N : StartOn(s)
    BY <1>2
  <2>1. UNCHANGED client /\ job' = NewJob /\ call'.api = "set"
    <3>1. /\ UNCHANGED client /\ job' = NewJob
          /\ call' = [api |-> "set", id |-> calls + 1]
      BY <2>0, Zenon DEF StartOn, StartCall
    <3>2. QED
      BY <3>1
  <2>2. job'.start = 0
    BY <2>1 DEF NewJob
  <2>3. QED
    BY <2>1, <2>2 DEF ReplicaInv, ReplicatedGet
<1>3. ASSUME NEW c, NEW l, StartJob(c, l), c = "mget_all" => l = "drain_all"
      PROVE  ReplicaInv'
  <2>1. PICK start : /\ job' = [NewJob EXCEPT !.start = start]
                     /\ ~client.randomize => start = 0
    BY <1>3, Zenon DEF StartJob
  <2>2. /\ job'.start = start /\ job'.replica = 0 /\ job'.success
        /\ job'.dead = {}
    BY <2>1 DEF NewJob
  <2>3. UNCHANGED client /\ call'.api = c /\ stack' = << Frame(l) >>
    BY <1>3 DEF StartJob, StartCall
  <2>4. stack'[1].at = l
    BY <2>3 DEF Frame
  <2>5. "drain_all" \in DrainLabels /\ "drain_all" # "end"
        /\ "drain_all" \notin {"replica_connect", "replica_sent"}
    BY DEF DrainLabels
  <2>6. c = "mget_all" => PlaceInv(stack[1].at)'
    BY <1>3, <2>2, <2>4, <2>5, Zenon DEF PlaceInv
  <2>7. QED
    BY <2>1, <2>2, <2>3, <2>6 DEF ReplicaInv, ReplicatedGet
<1>4. QED
  BY <1>1, <1>2, <1>3, Zenon
  DEF SBegin, StartVersion, StartFlush, StartStat, StartStatExecute,
      StartVerbosity, StartDump, StartMget

(* Every step keeps the invariant of replicated gets.                      *)
LEMMA ReplicaNext ==
    ASSUME IInv, ReplicaInv, [SNext]_svars
    PROVE  ReplicaInv'
<1>1. CASE One(Begin)
  <2>1. call'.api # "mget_all" /\ UNCHANGED << client, job >>
    BY <1>1, BeginOther DEF VdoCalls
  <2>2. QED
    BY <2>1 DEF ReplicaInv, ReplicatedGet
<1>2. CASE SBegin
  BY <1>2, ReplicaBegins
<1>3. CASE UNCHANGED << client, stack, call, job, cur >>
  BY <1>3, Zenon DEF ReplicaInv, ReplicatedGet, Replicated, PlaceInv, RoundInv, Tried,
     ReplicaOf, Keys, N
<1>4. CASE One(Step)
  <2>1. UNCHANGED << client, call, job, cur >> /\ stack # << >>
    BY <1>4, StepKeeps, StepAt DEF One
  <2>2. ASSUME ReplicatedGet' PROVE stack'[1] = stack[1]
    <3>1. call.api = "mget_all" /\ Replicated
      BY <2>1, <2>2 DEF ReplicatedGet, Replicated
    <3>2. Len(stack) >= 1
      BY <2>1, TopFrame DEF IInv, TypeInv
    <3>3. stack[1].at \in OuterLabels("mget_all")
      BY <3>1, <3>2, TopFrame DEF IInv, TypeInv, StackInv
    <3>4. stack[1].at \in JobLabels \union {"end"}
      BY <3>1, <3>3 DEF OuterLabels, VdoCalls, JobLabels
    <3>5. QED
      BY <1>4, <2>1, <3>4, StepKeepsJob
  <2>3. QED
    BY <2>1, <2>2, Zenon DEF ReplicaInv, ReplicatedGet, Replicated, PlaceInv,
       RoundInv, Tried, ReplicaOf, Keys, N
<1>5. CASE JobStep
  <2>1. UNCHANGED << client, call >>
    BY <1>5, StepKeeps
  <2>2. ~client.randomize => job'.start = 0
    BY <1>5, StartKept DEF ReplicaInv, NewJob, IInv
  <2>3. ASSUME ReplicatedGet' PROVE PlaceInv(stack[1].at)'
    <3>1. ReplicatedGet
      BY <1>5, <2>1, <2>3, JobAt DEF ReplicatedGet, Replicated
    <3>2. ~JobEnd
      BY <1>5, <2>3, EndReturns DEF ReplicatedGet
    <3>3. QED
      BY <1>5, <2>1, <3>1, <3>2, ReplicaStep DEF ReplicaInv
  <2>4. QED
    BY <2>1, <2>2, <2>3 DEF ReplicaInv
<1>6. QED
  BY <1>1, <1>2, <1>3, <1>4, <1>5, NextCases, Zenon

(* Two replicas of a key are on different servers, unless there is one.    *)
LEMMA NextServer ==
    ASSUME NEW n \in Nat \ {0}, NEW h \in Nat, h % n = (h + 1) % n
    PROVE  n = 1
<1>1. /\ h = n * (h \div n) + (h % n) /\ h \div n \in Int
      /\ h + 1 = n * ((h + 1) \div n) + ((h + 1) % n)
      /\ (h + 1) \div n \in Int
  OBVIOUS
<1> DEFINE d == ((h + 1) \div n) - (h \div n)
<1>2. d \in Int /\ n * d = 1
  BY <1>1
<1>3. ASSUME NEW e \in Int, n * e = 1 PROVE n = 1
  <2>1. CASE e <= 0
    <3>1. n * e <= 0
      BY <2>1
    <3>2. QED
      BY <1>3, <3>1
  <2>2. CASE e > 0
    <3>1. n * e >= n
      BY <2>2
    <3>2. QED
      BY <1>3, <3>1
  <2>3. QED
    BY <2>1, <2>2
<1>4. QED
  BY <1>2, <1>3

(* When a replicated get ends, the invariant gives what was promised.      *)
LEMMA EndTried ==
    ASSUME IInv, ReplicaInv
    PROVE  EveryReplicaTried
<1> SUFFICES ASSUME At("end"), call.api = "mget_all", Replicated,
                    ~client.randomize, \A s, t \in job.dead : s = t,
                    NEW k \in Keys, k \notin job.sent
             PROVE  Replicas(k) \subseteq job.dead
  BY DEF EveryReplicaTried
<1> DEFINE n == client.number_of_replicas
<1>1. stack # << >> /\ stack[1].at = "end" /\ job.start = 0
  BY JobTop DEF IInv, At, ReplicaInv
<1>2. RoundInv /\ PlaceInv("end")
  BY <1>1, Zenon DEF ReplicaInv, ReplicatedGet, PlaceInv, DrainLabels
<1>3. /\ job.replica \in Nat /\ n \in Nat /\ N \in Nat \ {0}
      /\ job.x \in Nat /\ Len(client.homes) \in Nat
      /\ client.homes[k] \in 1 .. N /\ k \in Nat
  <2>1. /\ job.replica \in Nat /\ n \in Nat /\ N \in Nat \ {0}
        /\ job.x \in Nat \ {0} /\ Len(client.homes) \in Nat
        /\ client.homes[k] \in 1 .. N /\ Keys = 1 .. Len(client.homes)
    BY ServerRanges, Zenon DEF IInv
  <2>2. QED
    BY <2>1
<1>4. k < job.x
  BY <1>2, <1>3 DEF PlaceInv, Keys
<1>5. \A r \in 0 .. job.replica : ReplicaOf(k, r) \in job.dead
  <2>1. \A r \in 0 .. job.replica : r = job.replica \/ r \in 0 .. job.replica - 1
    BY <1>3
  <2>2. \A r \in 0 .. job.replica : Tried(k, r)
    BY <1>2, <1>4, <2>1, Zenon DEF RoundInv
  <2>3. QED
    BY <2>2, Zenon DEF Tried
<1>6. CASE job.replica = n
  BY <1>5, <1>6 DEF Replicas
<1>7. CASE job.replica < n
  <2>1. job.success
    BY <1>2, <1>3, <1>7 DEF PlaceInv
  <2>2. job.replica # 0
    <3>1. SUFFICES ASSUME job.replica = 0
                   PROVE  FALSE
      BY Zenon
    <3>2. job.dead = {}
      BY <1>2, <2>1, <3>1, Zenon DEF RoundInv
    <3>3. 0 \in 0 .. job.replica
      BY <3>1
    <3>4. QED
      BY <1>5, <3>2, <3>3, Zenon
  <2>3. ReplicaOf(k, 0) \in job.dead /\ ReplicaOf(k, 1) \in job.dead
    BY <1>3, <1>5, <2>2
  <2>4. ReplicaOf(k, 0) = ReplicaOf(k, 1)
    BY <2>3, Zenon
  <2>5. PICK h \in Nat : h = client.homes[k] - 1
    BY <1>3
  <2>6. ReplicaOf(k, 0) = (h % N) + 1 /\ ReplicaOf(k, 1) = ((h + 1) % N) + 1
    BY <1>1, <1>3, <1>7, <2>5 DEF ReplicaOf
  <2>7. h % N \in Int /\ (h + 1) % N \in Int
    BY <1>3, <2>5
  <2>8. h % N = (h + 1) % N
    BY <2>4, <2>6, <2>7
  <2>9. N = 1
    BY <1>3, <2>8, NextServer, Zenon
  <2>10. \A r \in 0 .. n : ReplicaOf(k, r) = 1
    BY <1>1, <1>3, <2>9 DEF ReplicaOf
  <2>11. QED
    BY <1>3, <2>3, <2>10 DEF Replicas
<1>8. QED
  BY <1>2, <1>3, <1>6, <1>7 DEF RoundInv

(* memcached_mget with replicas gives up on a key only after the servers   *)
(* of all of its replicas were found dead, as long as fewer than two       *)
(* servers were and the first replica is not drawn at random: a round in   *)
(* which a request fails is followed by a round over the next replicas     *)
(* (replication_binary_mget).                                              *)
THEOREM ServersTryEveryReplica == SSpec => []EveryReplicaTried
<1>1. SInit => ReplicaInv
  <2> SUFFICES ASSUME SInit PROVE ReplicaInv
    OBVIOUS
  <2>1. job = NewJob /\ stack = << >>
    BY Zenon DEF SInit, Init
  <2>2. job.start = 0
    BY <2>1 DEF NewJob
  <2>3. QED
    BY <2>1, <2>2, Zenon DEF ReplicaInv, ReplicatedGet
<1>2. IInv /\ ReplicaInv /\ [SNext]_svars => ReplicaInv'
  BY ReplicaNext
<1>3. IInv /\ ReplicaInv => EveryReplicaTried
  BY EndTried
<1>4. QED
  BY <1>1, <1>2, <1>3, ServersInductive, PTL DEF SSpec

-----------------------------------------------------------------------------
(* The calls that go from one server to the next, and wait for the answer. *)
EachCall ==
    /\ stack # << >>
    /\ \/ call.api \in {"stat", "verbosity"}
       \/ call.api = "flush" /\ ~client.binary /\ ~client.no_reply

(* While no error has been met, the servers before the next one have all   *)
(* answered.                                                               *)
EachPlace(l) ==
    /\ job.x <= N + 1
    /\ l \in {"each_sent", "each_got"} => job.x <= N
    /\ ~job.errors => job.answered = 1 .. (job.x - 1)
    /\ l = "end" => job.errors \/ job.x = N + 1

(* The inductive invariant of the loops over all servers, beside IInv.     *)
EachInv == EachCall => EachPlace(stack[1].at)

(* The steps of these calls.                                               *)
LEMMA EachSteps ==
    ASSUME IInv, EachCall, JobStep
    PROVE  EachSend \/ EachSent \/ EachGot \/ EachFree \/ JobEnd
<1>1. stack # << >> /\ Top.at \in OuterLabels(call.api)
  BY JobSteps DEF EachCall
<1>2. Top.at \in EachLabels \union {"end"}
  BY <1>1 DEF OuterLabels, EachCall, VdoCalls
<1>3. \A l \in UNION {VersionLabels, FlushAllLabels, DumpLabels, DrainLabels,
                      MgetLabels, ReplicaLabels, AnyLabels} : ~At(l)
  BY <1>2 DEF At, VersionLabels, EachLabels, FlushAllLabels, DumpLabels,
     MgetLabels, AnyLabels, ReplicaLabels, DrainLabels
<1>4. /\ \A l \in VersionLabels : ~At(l)
      /\ \A l \in FlushAllLabels : ~At(l)
      /\ \A l \in DumpLabels : ~At(l)
      /\ \A l \in DrainLabels : ~At(l)
      /\ \A l \in MgetLabels : ~At(l)
      /\ \A l \in ReplicaLabels : ~At(l)
      /\ \A l \in AnyLabels : ~At(l)
  BY <1>3
<1>5. ~(VersionSend \/ VersionSent \/ VersionRead \/ VersionGot \/ VersionEnd)
  BY <1>4, Zenon DEF VersionSend, VersionSent, VersionRead, VersionGot,
     VersionEnd, Collect, VersionLabels
<1>6. ~(DrainAll \/ DrainingAll)
  BY <1>4, Zenon DEF DrainAll, DrainingAll, DrainLabels
<1>7. ~(FlushSend \/ FlushSent \/ FlushRead)
  BY <1>4, Zenon DEF FlushSend, FlushSent, FlushRead, FlushAllLabels
<1>8. ~(DumpSend \/ DumpSent \/ DumpRead \/ DumpGot \/ DumpNext)
  BY <1>4, Zenon DEF DumpSend, DumpSent, DumpRead, DumpGot, DumpNext,
     Collect, DumpLabels
<1>9. ~(MgetKey \/ MgetConnect \/ MgetSent \/ MgetEnd \/ MgetNoop
        \/ MgetFlushed)
  BY <1>4, Zenon DEF MgetKey, MgetConnect, MgetSent, MgetEnd, MgetNoop,
     MgetFlushed, MgetLabels
<1>10. ~(FetchAny \/ FetchGot \/ FetchNone)
  BY <1>4, Zenon DEF FetchAny, FetchGot, FetchNone, Collect, AnyLabels
<1>11. ~(ReplicaKey \/ ReplicaConnect \/ ReplicaSent)
  BY <1>4, Zenon DEF ReplicaKey, ReplicaConnect, ReplicaSent, ReplicaLabels
<1>12. QED
  BY <1>5, <1>6, <1>7, <1>8, <1>9, <1>10, <1>11, Zenon DEF JobStep

(* The call goes on to the next server, with an answer or with an error.   *)
LEMMA EachGoesOn ==
    ASSUME IInv, UNCHANGED client, NEW l, EachPlace(l), job.x <= N,
           job'.x = job.x + 1, job.errors => job'.errors,
           ~job'.errors => job'.answered = job.answered \union {job.x},
           NEW m, m \notin {"each_sent", "each_got"}, m = "end" => job'.errors
    PROVE  EachPlace(m)'
<1>1. N' = N /\ N \in Nat /\ job.x \in Nat \ {0}
  BY ServerRanges DEF N, IInv
<1>2. (1 .. (job.x - 1)) \union {job.x} = 1 .. (job.x + 1 - 1)
  BY <1>1
<1>3. ASSUME ~job'.errors PROVE job'.answered = 1 .. (job'.x - 1)
  <2>1. job'.answered = (1 .. (job.x - 1)) \union {job.x}
    BY <1>3, Zenon DEF EachPlace
  <2>2. QED
    BY <1>2, <2>1
<1>4. job'.x <= N + 1
  BY <1>1
<1>5. QED
  BY <1>1, <1>3, <1>4 DEF EachPlace

(* Every step of such a loop keeps what holds at its places.               *)
LEMMA EachStep ==
    ASSUME IInv, EachCall, EachPlace(stack[1].at), UNCHANGED client,
           JobStep, ~JobEnd
    PROVE  EachPlace(stack[1].at)'
<1> DEFINE Goes(l) == stack'[1].at = l
<1>0. /\ Top = stack[1] /\ job \in Jobs
      /\ \A l : Goto(l) => Goes(l)
      /\ \A l, f : Invoke(l, f) => Goes(l)
  BY JobSteps, Zenon DEF IInv, TypeInv
<1>1. EachRequest # "quiet"
  BY DEF EachCall, EachRequest, StorageKind
<1>2. N' = N /\ N \in Nat /\ job.x \in Nat \ {0}
  BY ServerRanges DEF N, IInv
<1>3. EachNext \in {"each", "each_free"} /\ EachNext # "end"
      /\ EachNext \notin {"each_sent", "each_got"}
  BY DEF EachNext
<1> USE <1>0 DEF Call, CallHere, Stay, StayWith
<1>4. CASE EachSend
  <2>1. UNCHANGED job /\ At("each")
        /\ \/ job.x > N /\ Goes("end")
           \/ job.x <= N /\ Goes("each_sent")
    BY <1>4, Zenon DEF EachSend
  <2>2. EachPlace(stack[1].at)
    BY Zenon
  <2>3. CASE job.x > N
    <3>1. job.x = N + 1
      BY <1>2, <2>2, <2>3 DEF EachPlace
    <3>2. Goes("end") /\ UNCHANGED job
      BY <1>2, <2>1, <2>3
    <3>3. QED
      BY <1>2, <2>2, <3>1, <3>2, Zenon DEF EachPlace
  <2>4. CASE job.x <= N
    <3>1. Goes("each_sent") /\ UNCHANGED job
      BY <1>2, <2>1, <2>4
    <3>2. QED
      BY <1>2, <2>2, <2>4, <3>1, Zenon DEF EachPlace
  <2>5. QED
    BY <1>2, <2>3, <2>4
<1>5. CASE EachSent
  <2>1. job.x <= N
    BY <1>5, Zenon DEF EachSent, At, EachPlace
  <2>2. CASE Goes("each_got") /\ UNCHANGED job
    BY <1>2, <2>1, <2>2 DEF EachPlace
  <2>3. CASE Goes(EachNext) /\ ~ok
             /\ job' = [job EXCEPT !.x = @ + 1, !.errors = @ \/ ~ok]
    <3>1. job'.x = job.x + 1 /\ job'.errors
      BY <2>3, Zenon DEF Jobs
    <3>2. PICK m : m = EachNext
      OBVIOUS
    <3>3. EachPlace(m)'
      BY <1>3, <2>1, <3>1, <3>2, EachGoesOn, Zenon
    <3>4. QED
      BY <2>3, <3>2, <3>3 DEF EachPlace
  <2>4. QED
    BY <1>1, <1>5, <2>2, <2>3, Zenon DEF EachSent
<1>6. CASE EachGot
  <2>1. job.x <= N
    BY <1>6, Zenon DEF EachGot, At, EachPlace
  <2>2. CASE ok /\ reply.what = "VALUE"
    <3>1. Goes("each_got") /\ UNCHANGED job
      BY <1>6, <2>2, Zenon DEF EachGot
    <3>2. QED
      BY <1>2, <2>1, <3>1 DEF EachPlace
  <2>3. CASE ~ok \/ reply.what # "VALUE"
    <3>1. PICK refused \in BOOLEAN, m \in {EachNext, "end"} :
             /\ m = "end" => refused
             /\ Goes(m)
             /\ job' = [job EXCEPT
                      !.x = @ + 1, !.errors = @ \/ ~ok \/ refused,
                      !.answered = IF ok THEN @ \union {job.x} ELSE @]
      BY <1>3, <1>6, <2>3, Zenon DEF EachGot
    <3>2. /\ job'.x = job.x + 1 /\ job'.errors = (job.errors \/ ~ok \/ refused)
          /\ ~job'.errors => job'.answered = job.answered \union {job.x}
      BY <3>1, Zenon DEF Jobs
    <3>3. m \notin {"each_sent", "each_got"}
      BY <1>3, <3>1
    <3>4. EachPlace(m)'
      BY <2>1, <3>1, <3>2, <3>3, EachGoesOn, Zenon
    <3>5. QED
      BY <3>1, <3>4
  <2>4. QED
    BY <2>2, <2>3, Zenon
<1>7. CASE EachFree
  <2>1. Goes("each") /\ UNCHANGED job
    BY <1>7, Zenon DEF EachFree
  <2>2. QED
    BY <1>2, <2>1 DEF EachPlace
<1>8. QED
  BY <1>4, <1>5, <1>6, <1>7, EachSteps

(* Such a loop starts with the invariant.                                  *)
LEMMA EachBegins ==
    ASSUME IInv, SBegin
    PROVE  EachInv'
<1>1. CASE StartFetchAny \/ \E s \in 1 .. N : StartOn(s)
  <2>1. call'.api \in {"fetch_any", "set"}
    BY <1>1 DEF StartFetchAny, StartOn, StartCall
  <2>2. QED
    BY <2>1 DEF EachInv, EachCall
<1>2. ASSUME NEW c, NEW l, StartJob(c, l),
             c \in {"stat", "verbosity"} \/ (c = "flush" /\ ~client.binary)
                => l = "each"
      PROVE  EachInv'
  <2>1. PICK start : job' = [NewJob EXCEPT !.start = start]
    BY <1>2 DEF StartJob
  <2>2. job'.x = 1 /\ job'.answered = {}
    BY <2>1 DEF NewJob
  <2>3. UNCHANGED client /\ call'.api = c /\ stack' = << Frame(l) >>
    BY <1>2 DEF StartJob, StartCall
  <2>4. stack'[1].at = l
    BY <2>3 DEF Frame
  <2>5. N' = N /\ N \in Nat /\ 1 .. (1 - 1) = {}
    BY <2>3, ServerRanges DEF N, IInv
  <2>6. ASSUME EachCall' PROVE l = "each"
    BY <1>2, <2>3, <2>6 DEF EachCall
  <2>7. l = "each" => EachPlace(stack[1].at)'
    BY <2>2, <2>4, <2>5 DEF EachPlace
  <2>8. QED
    BY <2>6, <2>7 DEF EachInv
<1>3. QED
  BY <1>1, <1>2, Zenon
  DEF SBegin, StartVersion, StartFlush, StartStat, StartStatExecute,
      StartVerbosity, StartDump, StartMget

(* Every step keeps the invariant of the loops over all servers.           *)
LEMMA EachKept ==
    ASSUME IInv, EachInv, [SNext]_svars
    PROVE  EachInv'
<1>1. CASE One(Begin)
  <2>1. call'.api \notin {"stat", "verbosity", "flush"}
    BY <1>1, BeginOther DEF VdoCalls
  <2>2. QED
    BY <2>1 DEF EachInv, EachCall
<1>2. CASE SBegin
  BY <1>2, EachBegins
<1>3. CASE UNCHANGED << client, stack, call, job, cur >>
  BY <1>3, Zenon DEF EachInv, EachCall, EachPlace, N
<1>4. CASE One(Step)
  <2>1. UNCHANGED << client, call, job >> /\ stack # << >>
    BY <1>4, StepKeeps, StepAt DEF One
  <2>2. ASSUME EachCall' PROVE stack'[1] = stack[1]
    <3>1. \/ call.api \in {"stat", "verbosity"}
          \/ call.api = "flush" /\ ~client.binary
      BY <2>1, <2>2 DEF EachCall
    <3>2. Len(stack) >= 1
      BY <2>1, TopFrame DEF IInv, TypeInv
    <3>3. stack[1].at \in OuterLabels(call.api)
      BY <3>2, TopFrame DEF IInv, TypeInv, StackInv
    <3>4. stack[1].at \in JobLabels \union {"end"}
      BY <3>1, <3>3 DEF OuterLabels, VdoCalls, JobLabels
    <3>5. QED
      BY <1>4, <2>1, <3>4, StepKeepsJob
  <2>3. QED
    BY <2>1, <2>2 DEF EachInv, EachCall, EachPlace, N
<1>5. CASE JobStep
  <2>1. UNCHANGED << client, call >>
    BY <1>5, StepKeeps
  <2>2. ASSUME EachCall' PROVE EachPlace(stack[1].at)'
    <3>1. EachCall
      BY <1>5, <2>1, <2>2, JobAt DEF EachCall
    <3>2. ~JobEnd
      BY <1>5, <2>2, EndReturns DEF EachCall
    <3>3. QED
      BY <1>5, <2>1, <3>1, <3>2, EachStep DEF EachInv
  <2>3. QED
    BY <2>2 DEF EachInv
<1>6. QED
  BY <1>1, <1>2, <1>3, <1>4, <1>5, NextCases, Zenon

(* A call that ends without an error has gone through all servers.         *)
LEMMA EachEnds ==
    ASSUME IInv, EachInv, call.api # "version"
    PROVE  SuccessMeansAll
<1>1. SUFFICES ASSUME At("end"), ~job.errors,
                      \/ call.api \in {"stat", "verbosity"}
                      \/ call.api = "flush" /\ ~client.binary
                         /\ ~client.no_reply
               PROVE  job.answered = 1 .. N
  BY DEF SuccessMeansAll
<1>2. stack # << >> /\ stack[1].at = "end"
  BY <1>1, JobTop DEF IInv, At
<1>3. EachPlace("end")
  BY <1>1, <1>2 DEF EachInv, EachCall
<1>4. job.x = N + 1 /\ job.answered = 1 .. (job.x - 1)
  BY <1>1, <1>3, Zenon DEF EachPlace
<1>5. N \in Nat
  BY ServerRanges DEF IInv
<1>6. QED
  BY <1>4, <1>5

(* memcached_stat, memcached_verbosity and memcached_flush with the text   *)
(* protocol return MEMCACHED_SUCCESS only if every server has answered:    *)
(* the loops over the servers go on after a failure but remember it, and   *)
(* leave early only with an error.  No assumption on timeouts is needed.   *)
THEOREM ServersAllAnswer ==
    SSpec => [](call.api # "version" => SuccessMeansAll)
<1>1. SInit => EachInv
  BY DEF SInit, Init, EachInv, EachCall
<1>2. IInv /\ EachInv /\ [SNext]_svars => EachInv'
  BY EachKept
<1>3. IInv /\ EachInv => (call.api # "version" => SuccessMeansAll)
  BY EachEnds
<1>4. QED
  BY <1>1, <1>2, <1>3, ServersInductive, PTL DEF SSpec
=============================================================================
