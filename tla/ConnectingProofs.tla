------------------------- MODULE ConnectingProofs --------------------------
(***************************************************************************)
(* The inductive invariant of attempts to connect, and that each step      *)
(* keeps it.  It has four parts: what has been tried of the address list,  *)
(* when there is a poll, what the poll knows of the connection, and what   *)
(* the caller is told.  The theorems follow from it, and with what polls   *)
(* report and how the time-out shrinks, that the attempt ends on time.     *)
(***************************************************************************)
EXTENDS Connecting, TLAPS

(* The addresses before the next one have failed.                          *)
AddressInv ==
    /\ addresses \in Nat
    /\ next \in 0 .. addresses
    /\ next # 0 => failed = 1 .. (next - 1)
    /\ pc \in {"socket", "connect", "wait"} => next # 0
    /\ pc = "give_up" => failed = 1 .. addresses

(* The attempt and the poll are at corresponding places.                   *)
WaitInv ==
    /\ connecting \in BOOLEAN /\ fd \in BOOLEAN
    /\ others \in BOOLEAN /\ root_error \in BOOLEAN
    /\ pc = "wait" => p_pc # "off" /\ connecting /\ state = "IN_PROGRESS"
    /\ p_pc # "off" => pc \in {"wait", "idle"}
    /\ p_pc # "off" /\ pc = "idle" => fd /\ ~connecting /\ path = "none"

(* While a connection is being made, its failure is still to be asked for, *)
(* and a poll that has succeeded has asked.                                *)
PollInv ==
    connecting /\ p_pc # "off" =>
       /\ p_pc # "done" =>
             /\ conn \in {"pending", "established", "failed", "reset"}
             /\ conn = "failed" => so_error
       /\ p_pc = "active" /\ "READY" \in revents => conn # "pending"
       /\ p_pc = "done" /\ p_rc = "SUCCESS" => conn \in {"established", "reset"}

(* Where there is a socket, and whether it is connected.                   *)
SocketInv ==
    path = "none" =>
       /\ pc # "unix"
       /\ pc \in {"lookup", "socket", "give_up"} => ~fd
       /\ pc \in {"connect", "wait", "sasl"} => fd
       /\ fd /\ pc \in {"sasl", "finish", "idle"} =>
             conn \in {"established", "reset"}
       /\ ~others =>
             /\ pc \in {"finish", "idle"} => (fd <=> rc = "SUCCESS")
             /\ root_error => error # "SUCCESS"

IInv == AddressInv /\ WaitInv /\ PollInv /\ SocketInv

-----------------------------------------------------------------------------
(* The attempt moves down the address list (set_hostinfo, network_connect);*)
(* everything else leaves it alone.                                        *)
LEMMA AddressStep == ASSUME AddressInv, Next PROVE AddressInv'
<1> USE ConnectAssumption DEF AddressInv
<1>1. CASE Connected BY <1>1 DEF Connected, address
<1>2. CASE Begin BY <1>2 DEF Begin, address
<1>3. CASE set_hostinfo BY <1>3 DEF set_hostinfo, Finish
<1>4. CASE Socket BY <1>4 DEF Socket, address, Finish
<1>5. CASE NetworkConnect
  <2>1. CASE NetworkConnected
    BY <1>5, <2>1 DEF NetworkConnect, NetworkConnected, address, Finish
  <2>2. CASE NextAddress BY <1>5, <2>2 DEF NetworkConnect, NextAddress
  <2>3. CASE pc' = "wait" /\ UNCHANGED << address, failed >>
    BY <1>5, <2>3 DEF NetworkConnect, address
  <2> QED BY <1>5, <2>1, <2>2, <2>3 DEF NetworkConnect
<1>6. CASE Wait
  <2>1. CASE NetworkConnected
    BY <1>6, <2>1 DEF Wait, NetworkConnected, address, Finish
  <2>2. CASE NextAddress BY <1>6, <2>2 DEF Wait, NextAddress
  <2> QED BY <1>6, <2>1, <2>2 DEF Wait
<1>7. CASE GiveUp BY <1>7 DEF GiveUp, address, Finish
<1>8. CASE SaslAuthenticate BY <1>8 DEF SaslAuthenticate, address, Finish
<1>9. CASE unix_socket_connect
  BY <1>9 DEF unix_socket_connect, address, Finish
<1>10. CASE FinishConnect BY <1>10 DEF FinishConnect, address
<1>11. CASE ConnectInterrupted BY <1>11 DEF ConnectInterrupted, address
<1>12. CASE UnixInterrupted BY <1>12 DEF UnixInterrupted, address, Finish
<1>13. CASE Close BY <1>13 DEF Close, address
<1>14. CASE OtherServerFails BY <1>14 DEF OtherServerFails, address
<1>15. CASE Query BY <1>15 DEF Query, address
<1> QED
  BY <1>1, <1>2, <1>3, <1>4, <1>5, <1>6, <1>7, <1>8, <1>9, <1>10, <1>11,
     <1>12, <1>13, <1>14, <1>15 DEF Next, Step

LEMMA AddressUnchanged == ASSUME AddressInv, UNCHANGED vars PROVE AddressInv'
BY DEF AddressInv, vars, address

-----------------------------------------------------------------------------
(* A step of the client outside the poll: what it does to the connection.  *)
LEMMA ClientFrame ==
    ASSUME Client
    PROVE  /\ p_pc = "off"
           /\ pc' = "wait" =>
                 /\ p_pc' = "call" /\ connecting' = TRUE
                 /\ conn' = "pending"
           /\ pc' # "wait" =>
                 /\ p_pc' = "off" /\ connecting' = connecting
                 /\ fd' /\ pc' # "connect" =>
                       conn' = IF pc \in {"connect", "unix"}
                                 THEN "established" ELSE conn
BY DEF Client, Enter, poll

(* The rest of what a step of the client does, one action at a time.       *)
LEMMA ClientStep ==
    ASSUME IInv, Client
    PROVE  WaitInv' /\ PollInv' /\ SocketInv'
<1>0. AddressInv /\ WaitInv /\ PollInv /\ SocketInv BY DEF IInv
<1>p. PollInv' BY <1>0, ClientFrame DEF PollInv
<1> USE DEF WaitInv, SocketInv
<1>1. CASE Connected
  BY <1>0, <1>p, <1>1, ClientFrame DEF Connected, settings, errors
<1>2. CASE Begin BY <1>0, <1>p, <1>2, ClientFrame DEF Begin, settings, errors
<1>3. CASE set_hostinfo
  <2>1. CASE pc' = "socket" /\ UNCHANGED << rc, errors >>
    BY <1>0, <1>p, <1>3, <2>1, ClientFrame DEF set_hostinfo, settings, errors
  <2>2. ASSUME NEW e, e # "SUCCESS", SetError(e), Finish(e)
        PROVE  WaitInv' /\ SocketInv'
    BY <1>0, <1>p, <1>3, <2>2, ClientFrame DEF set_hostinfo, settings, SetError, Finish
  <2> QED BY <1>3, <1>p, <2>1, <2>2 DEF set_hostinfo
<1>4. CASE Socket
  <2>1. CASE fd' = TRUE /\ pc' = "connect" /\ UNCHANGED << rc, errors >>
    BY <1>0, <1>p, <1>4, <2>1, ClientFrame DEF Socket, settings, errors
  <2>2. CASE SetError("ERRNO") /\ Finish("ERRNO") /\ UNCHANGED fd
    BY <1>0, <1>p, <1>4, <2>2, ClientFrame DEF Socket, settings, SetError, Finish
  <2> QED BY <1>4, <2>1, <2>2 DEF Socket
<1>5. CASE NetworkConnect
  <2>1. CASE NetworkConnected /\ UNCHANGED errors
    BY <1>0, <1>p, <1>5, <2>1, ClientFrame
    DEF NetworkConnect, NetworkConnected, settings, errors, Finish
  <2>2. CASE NextAddress /\ UNCHANGED errors
    BY <1>0, <1>p, <1>5, <2>2, ClientFrame
    DEF NetworkConnect, NextAddress, settings, errors
  <2>3. CASE state' = "IN_PROGRESS" /\ pc' = "wait" /\ UNCHANGED << fd, rc, errors >>
    BY <1>0, <1>p, <1>5, <2>3, ClientFrame DEF NetworkConnect, settings, errors
  <2>4. CASE NextAddress /\ \E e \in {"ERRNO", "CONNECTION_FAILURE"} : SetError(e)
    BY <1>0, <1>p, <1>5, <2>4, ClientFrame
    DEF NetworkConnect, NextAddress, SetError, settings
  <2> QED BY <1>5, <2>1, <2>2, <2>3, <2>4 DEF NetworkConnect
<1>6. CASE GiveUp
  BY <1>0, <1>p, <1>6, ClientFrame DEF GiveUp, settings, errors, SetError, Finish
<1>7. CASE SaslAuthenticate
  <2>1. CASE Finish("SUCCESS") /\ UNCHANGED << fd, state, errors >>
    BY <1>0, <1>p, <1>7, <2>1, ClientFrame DEF SaslAuthenticate, settings, errors, Finish
  <2>2. ASSUME NEW e, e # "SUCCESS", SetError(e), Finish(e), fd' = FALSE
        PROVE  WaitInv' /\ SocketInv'
    BY <1>0, <1>p, <1>7, <2>2, ClientFrame DEF SaslAuthenticate, settings, SetError, Finish
  <2> QED BY <1>7, <1>p, <2>1, <2>2 DEF SaslAuthenticate
<1>8. CASE unix_socket_connect
  BY <1>0, <1>p, <1>8, ClientFrame
  DEF unix_socket_connect, settings, errors, SetError, Finish
<1>9. CASE FinishConnect
  BY <1>0, <1>p, <1>9, ClientFrame DEF FinishConnect, settings, errors, SetError
<1>10. CASE ConnectInterrupted
  BY <1>0, <1>p, <1>10, ClientFrame DEF ConnectInterrupted, settings, errors
<1>11. CASE UnixInterrupted
  BY <1>0, <1>p, <1>11, ClientFrame DEF UnixInterrupted, settings, errors, Finish
<1>12. CASE Close
  <2>1. CASE UNCHANGED errors
    BY <1>0, <1>p, <1>12, <2>1, ClientFrame DEF Close, settings, errors
  <2>2. ASSUME NEW e, e # "SUCCESS", SetError(e)
        PROVE  WaitInv' /\ SocketInv'
    BY <1>0, <1>p, <1>12, <2>2, ClientFrame DEF Close, settings, SetError
  <2> QED BY <1>12, <1>p, <2>1, <2>2 DEF Close
<1>13. CASE OtherServerFails
  BY <1>0, <1>p, <1>13, ClientFrame DEF OtherServerFails, settings
<1>14. CASE Query
  BY <1>0, <1>p, <1>14, ClientFrame DEF Query, settings
<1> QED
  BY <1>1, <1>2, <1>3, <1>4, <1>5, <1>6, <1>7, <1>8, <1>9, <1>10, <1>11,
     <1>12, <1>13, <1>14 DEF Client

-----------------------------------------------------------------------------
(* The poll begins, ends and goes on.                                      *)
LEMMA ConnectWaitedStep ==
    ASSUME IInv, ConnectWaited
    PROVE  WaitInv' /\ PollInv' /\ SocketInv'
<1>0. WaitInv /\ PollInv /\ SocketInv BY DEF IInv
<1>1. /\ pc = "wait" /\ state = "IN_PROGRESS" /\ p_pc = "done" /\ connecting
      /\ p_pc' = "off" /\ connecting' = FALSE
      /\ UNCHANGED << path, others >>
  BY <1>0 DEF ConnectWaited, Wait, Leave, WaitInv, settings
<1>2. CASE p_rc = "SUCCESS"
  <2>1. state' = "CONNECTED" /\ conn' = conn BY <1>2 DEF ConnectWaited
  <2>2. NetworkConnected /\ UNCHANGED errors
    BY <1>1, <2>1 DEF ConnectWaited, Wait, NextAddress
  <2>3. conn \in {"established", "reset"} BY <1>0, <1>1, <1>2 DEF PollInv
  <2> QED
    BY <1>0, <1>1, <2>1, <2>2, <2>3
    DEF NetworkConnected, Finish, errors, WaitInv, PollInv, SocketInv
<1>3. CASE p_rc # "SUCCESS"
  <2>1. error' \in Recorded(p_rc) /\ state' \in {state, "NEW"}
    BY <1>3 DEF ConnectWaited
  <2>2. error' # "SUCCESS" BY <1>3, <2>1 DEF Recorded
  <2>3. NextAddress /\ root_error' = TRUE
    BY <1>1, <2>1 DEF ConnectWaited, Wait, NetworkConnected, SetError
  <2> QED
    BY <1>0, <1>1, <2>2, <2>3 DEF NextAddress, WaitInv, PollInv, SocketInv
<1> QED BY <1>2, <1>3

LEMMA IoWaitStep ==
    ASSUME IInv, io_wait \/ IoWaited
    PROVE  WaitInv' /\ PollInv' /\ SocketInv'
<1>0. WaitInv /\ PollInv /\ SocketInv BY DEF IInv
<1>1. CASE io_wait
  BY <1>0, <1>1
  DEF io_wait, Enter, vars, settings, errors, WaitInv, PollInv, SocketInv
<1>2. CASE IoWaited
  <2>1. /\ pc = "idle" /\ pc' = "idle" /\ p_pc' = "off" /\ connecting' = FALSE
        /\ UNCHANGED << path, others >>
    BY <1>2 DEF IoWaited, Leave, settings
  <2>2. root_error' \in BOOLEAN
    BY <1>0, <1>2 DEF IoWaited, SetError, errors, WaitInv
  <2>3. SocketInv /\ path = "none" /\ ~others => (root_error' => error' # "SUCCESS")
    <3>1. CASE p_rc = "SUCCESS"
      BY <1>2, <3>1 DEF IoWaited, errors, SocketInv
    <3>2. CASE p_rc # "SUCCESS"
      BY <1>2, <3>2 DEF IoWaited, SetError, Recorded
    <3> QED BY <3>1, <3>2
  <2>4. CASE open
    BY <1>0, <1>2, <2>1, <2>2, <2>3, <2>4 DEF IoWaited, WaitInv, PollInv, SocketInv
  <2>5. CASE ~open
    BY <1>0, <1>2, <2>1, <2>2, <2>3, <2>5 DEF IoWaited, WaitInv, PollInv, SocketInv
  <2> QED BY <2>4, <2>5
<1> QED BY <1>1, <1>2

(* Whatever happens during a poll leaves the attempt where it is.          *)
LEMMA DuringPoll ==
    ASSUME IInv, UNCHANGED vars, connecting' = connecting,
           p_pc # "off", p_pc' # "off", conn' = conn
    PROVE  WaitInv' /\ SocketInv'
BY DEF IInv, vars, settings, errors, WaitInv, SocketInv

(* The steps of memcached_io_poll itself.                                  *)
LEMMA PollingStep ==
    ASSUME IInv, Polling \/ Signal
    PROVE  WaitInv' /\ PollInv' /\ SocketInv'
<1>0. WaitInv /\ PollInv /\ SocketInv BY DEF IInv
<1>1. UNCHANGED vars BY DEF Polling, Signal
<1> USE DEF PollInv, P!call, P!sock, P!Return
<1>2. CASE P!Start BY <1>0, <1>1, <1>2, DuringPoll DEF P!Start
<1>3. CASE P!Poll BY <1>0, <1>1, <1>3, DuringPoll DEF P!Poll
<1>4. CASE P!PollFails BY <1>0, <1>1, <1>4, DuringPoll DEF P!PollFails
<1>5. CASE P!Expires BY <1>0, <1>1, <1>5, DuringPoll DEF P!Expires
<1>6. CASE P!CheckExpired
  BY <1>0, <1>1, <1>6, DuringPoll DEF P!CheckExpired, P!io_sock_err
<1>7. CASE P!Active BY <1>0, <1>1, <1>7, DuringPoll DEF P!Active
<1>8. CASE P!CheckActive
  BY <1>0, <1>1, <1>8, DuringPoll DEF P!CheckActive, P!io_sock_err
<1>9. CASE P!Tick BY <1>0, <1>1, <1>9, DuringPoll DEF P!Tick
<1>10. CASE P!Interrupted BY <1>0, <1>1, <1>10, DuringPoll DEF P!Interrupted
<1> QED
  BY <1>2, <1>3, <1>4, <1>5, <1>6, <1>7, <1>8, <1>9, <1>10 DEF Polling, Signal

(* The other side: a refusal leaves its error with the socket.             *)
LEMMA PeerStep ==
    ASSUME IInv, Peer
    PROVE  WaitInv' /\ PollInv' /\ SocketInv'
<1>0. WaitInv /\ PollInv /\ SocketInv BY DEF IInv
<1>1. PollInv' BY <1>0 DEF Peer, P!Peer, P!call, PollInv
<1> QED BY <1>0, <1>1 DEF Peer, P!Peer, P!call, vars, settings, errors, WaitInv, SocketInv
-----------------------------------------------------------------------------
LEMMA InitIInv == ASSUME CInit PROVE IInv
<1>1. AddressInv BY DEF CInit, Init, AddressInv
<1>2. WaitInv BY DEF CInit, Init, WaitInv
<1>3. PollInv BY DEF CInit, PollInv
<1>4. SocketInv BY DEF CInit, Init, SocketInv
<1> QED BY <1>1, <1>2, <1>3, <1>4 DEF IInv

LEMMA StepIInv == ASSUME IInv, [CNext]_allvars PROVE IInv'
<1>0. AddressInv /\ WaitInv /\ PollInv /\ SocketInv BY DEF IInv
<1>1. CASE Client
  <2>1. Next BY <1>1 DEF Client, Next, Step
  <2> QED BY <1>0, <1>1, <2>1, AddressStep, ClientStep DEF IInv
<1>2. CASE ConnectWaited
  <2>1. Next BY <1>2 DEF ConnectWaited, Next, Step
  <2> QED BY <1>0, <1>2, <2>1, AddressStep, ConnectWaitedStep DEF IInv
<1>3. CASE io_wait
  BY <1>0, <1>3, AddressUnchanged, IoWaitStep DEF IInv, io_wait
<1>4. CASE IoWaited
  <2>1. UNCHANGED << pc, address, failed >> BY <1>4 DEF IoWaited
  <2>2. AddressInv' BY <1>0, <2>1 DEF AddressInv, address
  <2> QED BY <1>4, <2>2, IoWaitStep DEF IInv
<1>5. CASE Polling \/ Signal
  BY <1>0, <1>5, AddressUnchanged, PollingStep DEF IInv, Polling, Signal
<1>6. CASE Peer BY <1>0, <1>6, AddressUnchanged, PeerStep DEF IInv, Peer
<1>7. CASE UNCHANGED allvars
  <2>1. AddressInv' BY <1>0, <1>7, AddressUnchanged DEF allvars
  <2>2. WaitInv'
    BY <1>0, <1>7 DEF allvars, vars, poll, settings, errors, WaitInv
  <2>3. PollInv' BY <1>0, <1>7 DEF allvars, poll, PollInv
  <2>4. SocketInv' BY <1>0, <1>7 DEF allvars, vars, settings, errors, SocketInv
  <2> QED BY <2>1, <2>2, <2>3, <2>4 DEF IInv
<1> QED BY <1>1, <1>2, <1>3, <1>4, <1>5, <1>6, <1>7 DEF CNext

(* The invariant that the others follow from: the address list, the poll,  *)
(* the connection and the result agree at every step of network_connect    *)
(* and memcached_io_poll.                                                  *)
THEOREM ConnectingIInv == CSpec => []IInv
<1>1. CInit => IInv BY InitIInv
<1>2. IInv /\ [CNext]_allvars => IInv' BY StepIInv
<1> QED BY <1>1, <1>2, PTL DEF CSpec

(* An address that has failed is not tried again before a new lookup,      *)
(* however many addresses a name has and wherever earlier attempts stopped *)
(* (network_connect).                                                      *)
THEOREM ConnectingFailedOncePerLookup == CSpec => []FailedOncePerLookup
<1>1. IInv => FailedOncePerLookup
  BY DEF IInv, AddressInv, FailedOncePerLookup
<1> QED BY <1>1, ConnectingIInv, PTL

(* An attempt gives up only when every address has failed since the lookup *)
(* (network_connect).                                                      *)
THEOREM ConnectingAllAddressesTried == CSpec => []AllAddressesTried
<1>1. IInv => AllAddressesTried BY DEF IInv, AddressInv, AllAddressesTried
<1> QED BY <1>1, ConnectingIInv, PTL

(* An attempt over the network succeeds exactly if it leaves a socket, and *)
(* the connection of that socket was really made, for all time-outs and    *)
(* signals (network_connect, memcached_io_poll).                           *)
THEOREM ConnectingConnectedIffSuccess == CSpec => []ConnectedIffSuccess
<1>1. IInv => ConnectedIffSuccess
  BY DEF IInv, SocketInv, ConnectedIffSuccess
<1> QED BY <1>1, ConnectingIInv, PTL
-----------------------------------------------------------------------------
(* How long a wait lasts: OnTime, for every time-out.  A wait that at most *)
(* one signal interrupts has its deadline at the time-out, before and      *)
(* after the signal; and poll never reports an event that                  *)
(* memcached_io_poll ignores, after which it would wait as long again.     *)

(* Nothing but what the code waits for or an error wakes it up.            *)
EventInv ==
    /\ p_pc # "off" /\ p_pc # "done" /\ ~connecting /\ conn = "reset" => data
    /\ p_pc = "active" => "READY" \in revents

(* The rest of the time-out and the deadline.                              *)
TimeInv ==
    /\ timeout \in Int /\ poll_timeout \in Int /\ now \in Nat
    /\ interrupts \in Nat
    /\ p_pc \in {"off", "call"} => interrupts = 0 /\ now = 0
    /\ p_pc # "done" => p_rc = "none"
    /\ interrupts = 0 => poll_timeout = timeout
    /\ timeout > 0 /\ interrupts <= 1 =>
          /\ now <= timeout
          /\ p_pc = "loop" => now < timeout /\ poll_timeout = timeout - now
          /\ p_pc = "poll" => wake = timeout
          /\ p_pc = "expired" \/ p_rc = "TIMEOUT" => now = timeout

-----------------------------------------------------------------------------
(* Outside the poll everything is as it is before one, and so it is when   *)
(* one begins or has ended.                                                *)
LEMMA OutsideTime ==
    ASSUME EventInv, TimeInv, Client \/ ConnectWaited \/ io_wait \/ IoWaited
    PROVE  EventInv' /\ TimeInv'
<1>1. CASE UNCHANGED << poll, timeout >> /\ p_pc = "off"
  BY <1>1 DEF poll, EventInv, TimeInv
<1>2. CASE Leave BY <1>2 DEF Leave, Reset, EventInv, TimeInv
<1>3. CASE Enter(FALSE) /\ conn' = conn
  <2>1. conn' = "reset" => data' BY <1>3 DEF Enter
  <2> QED BY <1>3, <2>1 DEF Enter, Reset, EventInv, TimeInv
<1>4. CASE Enter(TRUE) BY <1>4 DEF Enter, Reset, EventInv, TimeInv
<1> QED BY <1>1, <1>2, <1>3, <1>4 DEF Client, ConnectWaited, io_wait, IoWaited

(* The steps of memcached_io_poll, and events.                             *)
LEMMA PollingEvent ==
    ASSUME IInv, EventInv, Polling \/ Signal \/ Peer
    PROVE  EventInv'
<1> USE DEF EventInv, P!call, P!sock, P!Return
<1>1. CASE P!Start BY <1>1 DEF P!Start
<1>2. CASE P!Poll BY <1>2 DEF P!Poll
<1>3. CASE P!PollFails BY <1>3 DEF P!PollFails
<1>4. CASE P!Expires BY <1>4 DEF P!Expires
<1>5. CASE P!CheckExpired BY <1>5 DEF P!CheckExpired
<1>6. CASE P!Active
  <2>1. conn \in {"failed", "reset"} => "READY" \in revents'
    BY <1>6 DEF P!Active, IInv, WaitInv, PollInv, SocketInv
  <2>2. "READY" \in revents' BY <1>6, <2>1 DEF P!Active
  <2> QED BY <1>6, <2>2 DEF P!Active
<1>7. CASE P!CheckActive BY <1>7 DEF P!CheckActive
<1>8. CASE P!Tick BY <1>8 DEF P!Tick
<1>9. CASE P!Interrupted BY <1>9 DEF P!Interrupted
<1>10. CASE P!Peer BY <1>10 DEF P!Peer
<1> QED
  BY <1>1, <1>2, <1>3, <1>4, <1>5, <1>6, <1>7, <1>8, <1>9, <1>10
  DEF Polling, Signal, Peer

(* The clock: it does not run past the deadline, and the first signal      *)
(* leaves the deadline where it is.                                        *)
LEMMA PollingTime ==
    ASSUME EventInv, TimeInv, Polling \/ Signal \/ Peer
    PROVE  TimeInv'
<1> USE ConnectingAssumption DEF TimeInv, P!call, P!sock, P!Return
<1>1. CASE P!Start BY <1>1 DEF P!Start
<1>2. CASE P!Poll BY <1>2 DEF P!Poll
<1>3. CASE P!PollFails BY <1>3 DEF P!PollFails
<1>4. CASE P!Expires BY <1>4 DEF P!Expires
<1>5. CASE P!CheckExpired BY <1>5 DEF P!CheckExpired
<1>6. CASE P!Active BY <1>6 DEF P!Active
<1>7. CASE P!CheckActive BY <1>7 DEF P!CheckActive, EventInv
<1>8. CASE P!Tick BY <1>8 DEF P!Tick
<1>9. CASE P!Interrupted
  <2>1. CASE interrupts = 0 BY <1>9, <2>1 DEF P!Interrupted
  <2>2. CASE interrupts > 0 BY <1>9, <2>2 DEF P!Interrupted
  <2> QED BY <2>1, <2>2
<1>10. CASE P!Peer BY <1>10 DEF P!Peer
<1> QED
  BY <1>1, <1>2, <1>3, <1>4, <1>5, <1>6, <1>7, <1>8, <1>9, <1>10
  DEF Polling, Signal, Peer

LEMMA InitTime == ASSUME CInit PROVE EventInv /\ TimeInv
BY ConnectingAssumption DEF CInit, EventInv, TimeInv

LEMMA StepTime ==
    ASSUME IInv, EventInv, TimeInv, [CNext]_allvars
    PROVE  EventInv' /\ TimeInv'
<1>1. CASE CNext BY <1>1, OutsideTime, PollingEvent, PollingTime DEF CNext
<1>2. CASE UNCHANGED allvars
  BY <1>2 DEF allvars, poll, EventInv, TimeInv
<1> QED BY <1>1, <1>2

-----------------------------------------------------------------------------
(* A wait with a positive time-out and at most one signal lasts no longer  *)
(* than the time-out and does not give up before, for every time-out       *)
(* (memcached_io_poll).                                                    *)
THEOREM ConnectingOnTime == CSpec => []OnTime
<1>1. CInit => EventInv /\ TimeInv BY InitTime
<1>2. IInv /\ (EventInv /\ TimeInv) /\ [CNext]_allvars => (EventInv /\ TimeInv)'
  BY StepTime
<1>3. TimeInv => OnTime BY DEF TimeInv, OnTime, P!OnTime
<1> QED BY <1>1, <1>2, <1>3, ConnectingIInv, PTL DEF CSpec
=============================================================================
