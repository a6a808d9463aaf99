----------------------------- MODULE NetBridge -----------------------------
(***************************************************************************)
(* The UDP bridge of the network tile (class TNetBridge), from its         *)
(* construction to the end of the process.  Two threads share it: the      *)
(* simulation thread runs Run once per cycle, and udpRecvThread blocks in  *)
(* recv() outside of the simulation.  They talk through a signal, a buffer *)
(* of one datagram and the flag that tells the thread to stop.             *)
(*                                                                         *)
(* Every access of the receive thread to something shared is a step of its *)
(* own.  Run is one step: it touches the signal at most once, and reads    *)
(* the buffer only while the signal keeps the thread away from it          *)
(* (DatagramHeld).  The router, the clients on the UDP network and the     *)
(* operating system, which may refuse any of its services, are the         *)
(* environment.                                                            *)
(***************************************************************************)
EXTENDS Integers, Sequences

CONSTANTS
    Capacity,       \* BUFFER_CAPACITY of the buffers from and to the router
    SocketCapacity, \* datagrams the operating system keeps for the server
    BufferFlits,    \* flits of RECV_BUFFER_LEN and SEND_BUFFER_LEN bytes
    PacketMod,      \* packets are numbered modulo this
    Packets         \* the packets that occur, each a number and a payload size

ASSUME CapacityAssumption == Capacity \in Nat \ {0}
ASSUME SocketAssumption == SocketCapacity \in Nat
ASSUME PacketModAssumption == PacketMod \in Nat \ {0}

\* Neither process checks the size flit against its buffer: the packets and
\* the datagrams the bridge can carry are those that fit.
ASSUME PacketsAssumption ==
    /\ BufferFlits \in Nat
    /\ Packets \subseteq [pkt : 0 .. PacketMod - 1, size : 0 .. BufferFlits - 2]

VARIABLES
    stage,      \* where the simulation thread is in the life of the bridge
    held,       \* what is allocated or open
    thread,     \* what the receive thread does next
    terminate,  \* udpRecvThread_terminate
    socket,     \* datagrams waiting at the server's socket
    arrived,    \* history: number of the next datagram the socket takes
    signal,     \* _signal_recv
    recvBuffer, recvState, toRecv, recvCount, ob,  \* _recv_*, _flits_to_recv*
    pushed,     \* history: last flit pushed to the router
    ib, given,  \* _ib; history: last flit the router pushed into it
    sendBuffer, sendState, toSend, sendCount,      \* _send_*, _flits_to_send*
    sent        \* history: the last datagram sent

lifeVars == <<stage, held, terminate>>
recvVars == <<recvState, toRecv, recvCount, pushed>>
sendVars == <<sendBuffer, sendState, toSend, sendCount, sent>>
netVars  == <<socket, arrived>>
nocVars  == <<ib, given, ob>>
vars == <<lifeVars, thread, netVars, signal, recvBuffer, recvVars,
          sendVars, nocVars>>

Slots  == 0 .. BufferFlits - 1
Number == 0 .. PacketMod - 1
Junk   == [pkt |-> -1, size |-> 0, pos |-> -1]

\* The word of a size flit is the size.  Any other word is as good as another.
Word(f) == IF f.pos = 1 THEN f.size ELSE 1

FlitOf(p, i) == [pkt |-> p.pkt, size |-> p.size, pos |-> i]
Flit == UNION {{FlitOf(p, i) : i \in 0 .. p.size + 1} : p \in Packets}
IsTail(f) == f.pos = f.size + 1

\* f is followed by g in a stream of whole packets with consecutive numbers.
Follows(f, g) ==
    IF f = Junk THEN g.pos = 0 /\ g.pkt = 0
    ELSE IF IsTail(f) THEN g.pos = 0 /\ g.pkt = (f.pkt + 1) % PacketMod
    ELSE g = [f EXCEPT !.pos = @ + 1]

\* recv() fills the start of the buffer and leaves the rest as it was.
Received(buffer, p) ==
    [i \in Slots |-> IF i < p.size + 2 THEN FlitOf(p, i) ELSE buffer[i]]

Opening  == {"client_addr", "client_socket", "server_addr", "server_socket",
             "server_bind", "thread"}
Teardown == {"delete_ib", "delete_signal", "delete_client", "delete_server",
             "terminate", "free", "delete_tiles"}
Ended    == {"exited", "failed", "crashed"}
Things   == {"bridge", "signal", "client_addr", "client_socket",
             "server_addr", "server_socket", "ib"}
Client == {"client_addr", "client_socket"}
Server == {"server_addr", "server_socket"}

Init ==
    /\ stage = "client_addr" /\ held = {"bridge", "signal"}
    /\ thread = "none" /\ terminate = 0 
    /\ socket = << >> /\ arrived = 0 /\ signal = 0
    /\ recvBuffer = [i \in Slots |-> Junk] /\ sendBuffer = [i \in Slots |-> Junk]
    /\ recvState = "READY" /\ toRecv = 0 /\ recvCount = 0 /\ pushed = Junk
    /\ sendState = "READY" /\ toSend = 0 /\ sendCount = 0 /\ sent = sendBuffer
    /\ ib = << >> /\ ob = << >> /\ given = Junk

-----------------------------------------------------------------------------
(***************************************************************************)
(* The constructor: the client, then the server, each of which throws when *)
(* the operating system refuses, after giving back what it has taken.      *)
(* Nothing catches the exception, so the process ends.                     *)
(***************************************************************************)
Open(now, thing, next) ==
    /\ stage = now
    /\ stage' = next
    /\ held' = held \cup {thing}

Throw(now, release) ==
    /\ stage = now
    /\ stage' = "failed"
    /\ held' = held \ release

OpenClient ==
    \/ Open("client_addr", "client_addr", "client_socket")
    \/ Open("client_socket", "client_socket", "server_addr")
    \/ Throw("client_addr", {})
    \/ Throw("client_socket", {"client_addr"})

MutOpenServer ==
    \/ Open("server_addr", "server_addr", "server_socket")
    \/ Open("server_socket", "server_socket", "server_bind")
    \/ Open("server_bind", "ib", "thread")
    \/ Throw("server_addr", {})
    \/ Throw("server_socket", {"server_addr"})
    \/ Throw("server_bind", {"server_addr"})

\* When the server is bound the input buffer is created.
OpenServer ==
    \/ Open("server_addr", "server_addr", "server_socket")
    \/ Open("server_socket", "server_socket", "server_bind")
    \/ Open("server_bind", "ib", "thread")
    \/ Throw("server_addr", {})
    \/ Throw("server_socket", {"server_addr"})
    \/ Throw("server_bind", {"server_addr", "server_socket"})

\* pthread_create, whose failure is printed and then ignored.
StartThread ==
    /\ stage = "thread"
    /\ stage' = "running"
    /\ thread' \in {"check", "none"}
    /\ UNCHANGED held

Construct ==
    /\ OpenClient \/ OpenServer
    /\ UNCHANGED thread

-----------------------------------------------------------------------------
(***************************************************************************)
(* The destructor, called by main through the tile's when the simulation   *)
(* is over, and the end of the process.                                    *)
(***************************************************************************)
EndSimulation ==
    /\ stage = "running"
    /\ stage' = "delete_ib"
    /\ UNCHANGED <<held, terminate>>

Delete(now, things, next) ==
    /\ stage = now
    /\ stage' = next
    /\ held' = held \ things
    /\ UNCHANGED terminate

SetTerminate ==
    /\ stage = "terminate"
    /\ stage' = "free"
    /\ terminate' = 1
    /\ UNCHANGED held

MutFree ==
    /\ thread \in {"none", "done"}
    /\ Delete("free", {"bridge"}, "delete_tiles")

\* The bridge itself goes.  Nothing waits for the thread: joining it is
\* commented out.
Free == Delete("free", {"bridge"}, "delete_tiles")

\* main deletes the other tiles and returns, which ends the thread too.
Exit == Delete("delete_tiles", {}, "exited")

Destroy ==
    \/ Delete("delete_ib", {"ib"}, "delete_signal")
    \/ Delete("delete_signal", {"signal"}, "delete_client")
    \/ Delete("delete_client", Client, "delete_server")
    \/ Delete("delete_server", Server, "terminate")
    \/ SetTerminate
    \/ Free
    \/ Exit

-----------------------------------------------------------------------------
(***************************************************************************)
(* udpRecvThread.                                                          *)
(***************************************************************************)
\* What the thread touches in each of its steps.
Touches(place) ==
    CASE place \in {"poll", "raise"} -> {"bridge", "signal"}
      [] place = "enter" -> {"bridge"} \cup Server
      [] OTHER -> {"bridge"}

CheckTerminate ==
    /\ thread = "check"
    /\ thread' = IF terminate = 0 THEN "poll" ELSE "done"
    /\ UNCHANGED <<signal, recvBuffer, socket>>

MutPollSignal ==
    /\ thread = "poll"
    /\ thread' = "enter"
    /\ UNCHANGED <<signal, recvBuffer, socket>>

PollSignal ==
    /\ thread = "poll"
    /\ thread' = IF signal = 0 THEN "enter" ELSE "check"
    /\ UNCHANGED <<signal, recvBuffer, socket>>

EnterRecv ==
    /\ thread = "enter"
    /\ thread' = "recv"
    /\ UNCHANGED <<signal, recvBuffer, socket>>

\* Closing the socket does not wake a thread that is blocked in recv().  Its result
\* is ignored: an error would raise the signal with the old buffer.  It is taken not
\* to fail on a socket that is bound and open, and datagrams to be whole packets.
ReturnFromRecv ==
    /\ thread = "recv"
    /\ socket # << >>
    /\ socket' = Tail(socket)
    /\ recvBuffer' = Received(recvBuffer, Head(socket))
    /\ thread' = "raise"
    /\ UNCHANGED signal

MutRaiseSignal ==
    /\ thread = "raise"
    /\ thread' = "check"
    /\ UNCHANGED <<signal, recvBuffer, socket>>

RaiseSignal ==
    /\ thread = "raise"
    /\ signal' = 1
    /\ thread' = "check"
    /\ UNCHANGED <<recvBuffer, socket>>

ThreadStep ==
    /\ stage \notin Ended
    /\ Touches(thread) \subseteq held
    /\ \/ CheckTerminate \/ PollSignal \/ EnterRecv \/ ReturnFromRecv
       \/ RaiseSignal

\* A step that touches what is deleted is undefined: the process may crash, at
\* once or later, or the thread read anything and go wherever that takes it:
\* nothing more is said of it.
UseDeleted ==
    /\ stage \notin Ended
    /\ \/ /\ thread \notin {"none", "done", "wild"}
          /\ ~(Touches(thread) \subseteq held)
          /\ thread = "recv" => socket # << >>
          /\ thread' = "wild" /\ UNCHANGED stage
       \/ thread = "wild" /\ stage' = "crashed" /\ UNCHANGED thread

-----------------------------------------------------------------------------
(***************************************************************************)
(* udpToNocProcess: the datagram in the buffer goes to the router.         *)
(***************************************************************************)
MutPush(f) ==
    /\ ob' = Append(ob, f)
    /\ pushed' = f

Push(f) ==
    /\ Len(ob) < Capacity
    /\ ob' = Append(ob, f)
    /\ pushed' = f

RelayAddr ==
    /\ recvState = "READY" /\ signal = 1
    /\ Push(recvBuffer[0])
    /\ recvState' = "READ_LEN"
    /\ UNCHANGED <<toRecv, recvCount, signal>>

RelayLen ==
    /\ recvState = "READ_LEN"
    /\ Push(recvBuffer[1])
    /\ toRecv' = Word(recvBuffer[1]) + 2
    /\ recvCount' = 2
    /\ recvState' = "RECV_PAYLOAD"
    /\ UNCHANGED signal

RelayPayload ==
    /\ recvState = "RECV_PAYLOAD" /\ recvCount < toRecv
    /\ Push(recvBuffer[recvCount])
    /\ recvCount' = recvCount + 1
    /\ UNCHANGED <<recvState, toRecv, signal>>

MutLower ==
    /\ recvState = "RECV_PAYLOAD" /\ recvCount >= toRecv
    /\ recvState' = "READY"
    /\ UNCHANGED <<toRecv, recvCount, ob, pushed, signal>>

Lower ==
    /\ recvState = "RECV_PAYLOAD" /\ recvCount >= toRecv
    /\ signal' = 0
    /\ recvState' = "READY"
    /\ UNCHANGED <<toRecv, recvCount, ob, pushed>>

RelayWaits ==
    /\ IF recvState = "READY" THEN signal = 0 \/ Len(ob) = Capacity
       ELSE Len(ob) = Capacity /\ (recvState = "READ_LEN" \/ recvCount < toRecv)
    /\ UNCHANGED <<recvVars, ob, signal>>

udpToNocProcess == RelayAddr \/ RelayLen \/ RelayPayload \/ Lower \/ RelayWaits

-----------------------------------------------------------------------------
(***************************************************************************)
(* nocToUdpProcess: a packet from the router goes out as one datagram.     *)
(***************************************************************************)
Take(slot) ==
    /\ ib # << >>
    /\ ib' = Tail(ib)
    /\ sendBuffer' = [sendBuffer EXCEPT ![slot] = Head(ib)]

TakeAddr ==
    /\ sendState = "READY"
    /\ Take(0)
    /\ sendState' = "SEND_LEN"
    /\ UNCHANGED <<toSend, sendCount, sent>>

TakeLen ==
    /\ sendState = "SEND_LEN"
    /\ Take(1)
    /\ toSend' = Word(Head(ib)) + 2
    /\ sendCount' = 2
    /\ sendState' = "SEND_PAYLOAD"
    /\ UNCHANGED sent

TakePayload ==
    /\ sendState = "SEND_PAYLOAD" /\ sendCount < toSend
    /\ Take(sendCount)
    /\ sendCount' = sendCount + 1
    /\ UNCHANGED <<sendState, toSend, sent>>

MutSendDatagram ==
    /\ sendState = "SEND_PAYLOAD" /\ sendCount + 1 >= toSend
    /\ sent' = sendBuffer
    /\ sendState' = "READY"
    /\ UNCHANGED <<sendBuffer, toSend, sendCount, ib>>

\* The whole buffer goes out, whatever follows the packet in it.
SendDatagram ==
    /\ sendState = "SEND_PAYLOAD" /\ sendCount >= toSend
    /\ sent' = sendBuffer
    /\ sendState' = "READY"
    /\ UNCHANGED <<sendBuffer, toSend, sendCount, ib>>

TakeWaits ==
    /\ ib = << >>
    /\ sendState = "SEND_PAYLOAD" => sendCount < toSend
    /\ UNCHANGED <<sendVars, ib>>

nocToUdpProcess ==
    TakeAddr \/ TakeLen \/ TakePayload \/ SendDatagram \/ TakeWaits

\* Run takes one cycle, in which both processes take a step.
Run ==
    /\ stage = "running"
    /\ udpToNocProcess
    /\ nocToUdpProcess

-----------------------------------------------------------------------------
(***************************************************************************)
(* The environment: a datagram reaches the socket if there is room for it  *)
(* (it is lost otherwise); the router takes what the bridge pushes, and    *)
(* gives it the flits of whole packets while the input buffer has room.    *)
(***************************************************************************)
Bound ==
    /\ stage \notin Ended \cup (Opening \ {"thread"})
    /\ "server_socket" \in held \/ thread = "recv"

Arrive ==
    /\ Bound
    /\ Len(socket) < SocketCapacity
    /\ \E p \in Packets : p.pkt = arrived /\ socket' = Append(socket, p)
    /\ arrived' = (arrived + 1) % PacketMod

RouterTakes ==
    /\ stage = "running"
    /\ ob # << >>
    /\ ob' = Tail(ob)
    /\ UNCHANGED <<ib, given>>

RouterGives ==
    /\ stage = "running"
    /\ Len(ib) < Capacity
    /\ \E f \in Flit : /\ Follows(given, f)
                       /\ ib' = Append(ib, f)
                       /\ given' = f
    /\ UNCHANGED ob

-----------------------------------------------------------------------------
Life ==
    /\ \/ Construct /\ UNCHANGED terminate
       \/ StartThread /\ terminate' = 0
       \/ (EndSimulation \/ Destroy) /\ UNCHANGED thread
    /\ UNCHANGED <<netVars, signal, recvBuffer, recvVars, sendVars,
                   nocVars>>

ReceiveThread ==
    \/ ThreadStep
       /\ UNCHANGED <<lifeVars, arrived, recvVars, sendVars, nocVars>>
    \/ UseDeleted
       /\ UNCHANGED <<held, terminate, netVars, signal, recvBuffer, recvVars,
                      sendVars, nocVars>>

Simulate ==
    /\ Run
    /\ UNCHANGED <<lifeVars, thread, netVars, recvBuffer, given>>

Router ==
    /\ RouterTakes \/ RouterGives
    /\ UNCHANGED <<lifeVars, thread, netVars, signal, recvBuffer,
                   recvVars, sendVars>>

Outside ==
    /\ Arrive
    /\ UNCHANGED <<lifeVars, thread, signal, recvBuffer, recvVars,
                   sendVars, nocVars>>

Next == Life \/ ReceiveThread \/ Simulate \/ Router \/ Outside

Spec == Init /\ [][Next]_vars

(***************************************************************************)
(* Fairness.  The operating system schedules both threads; the simulator   *)
(* runs the bridge and the router every cycle; a router that is not        *)
(* blocked takes the flit at the head of its local port; and main runs its *)
(* teardown to the end once it is in it.  Nothing makes the simulation     *)
(* end, a datagram arrive or the router give a flit.                       *)
(***************************************************************************)
Fairness ==
    /\ WF_vars(ReceiveThread)
    /\ WF_vars(Simulate)
    /\ WF_vars(Router /\ RouterTakes)
    /\ WF_vars(Life /\ stage \in Teardown)

FairSpec == Spec /\ Fairness

-----------------------------------------------------------------------------
\* Every variable keeps its type, and neither buffer is ever over its capacity.
TypeOK ==
    /\ stage \in Opening \cup {"running"} \cup Teardown \cup Ended
    /\ held \subseteq Things
    /\ thread \in {"none", "check", "poll", "enter", "recv", "raise", "done",
                  "wild"}
    /\ terminate \in {0, 1} /\ signal \in {0, 1}
    /\ socket \in Seq(Packets) /\ Len(socket) <= SocketCapacity
    /\ arrived \in Number
    /\ recvBuffer \in [Slots -> Flit \cup {Junk}]
    /\ recvState \in {"READY", "READ_LEN", "RECV_PAYLOAD"}
    /\ toRecv \in 0 .. BufferFlits /\ recvCount \in 0 .. BufferFlits
    /\ ob \in Seq(Flit) /\ Len(ob) <= Capacity
    /\ pushed \in Flit \cup {Junk}
    /\ ib \in Seq(Flit) /\ Len(ib) <= Capacity
    /\ given \in Flit \cup {Junk}
    /\ sendBuffer \in [Slots -> Flit \cup {Junk}]
    /\ sendState \in {"READY", "SEND_LEN", "SEND_PAYLOAD"}
    /\ toSend \in 0 .. BufferFlits /\ sendCount \in 0 .. BufferFlits
    /\ sent \in [Slots -> Flit \cup {Junk}]

\* The start of the buffer is one whole packet.
Whole(buffer) ==
    /\ buffer[0] \in Flit /\ buffer[0].pos = 0
    /\ \A i \in 0 .. buffer[0].size + 1 : buffer[i] = FlitOf(buffer[0], i)

\* From the raise of the signal until the last flit has gone to the router the
\* buffer is the simulation thread's: it holds one whole datagram, and the
\* receive thread has not passed its test of the signal.
DatagramHeld ==
    /\ thread # "wild" /\ (signal = 1 \/ recvState # "READY") =>
          signal = 1 /\ Whole(recvBuffer) /\ thread \in {"check", "poll", "done"}
    /\ thread = "raise" => Whole(recvBuffer)

\* The flits pushed to the router are those of the datagrams the socket took:
\* every datagram, once, in order and whole, and no flit of another between.
InboundInOrder == [][Follows(pushed, pushed')]_pushed

\* Each datagram sent starts with one whole packet from the router, and is the
\* packet after the one that was sent before it.
OutboundWhole ==
    [][Whole(sent') /\ sent'[0].pkt = (sent[0].pkt + 1) % PacketMod]_sent

\* An endpoint holds its address list and its socket, or neither: also when one
\* of them could not be had.  A process that exits has given back everything.
EndpointsWhole ==
    /\ stage \in Ended =>
          \A e \in {Client, Server} : e \subseteq held \/ e \cap held = {}
    /\ stage = "exited" => held = {}

\* If the thread could be started, a datagram the socket took goes to the router
\* to its last flit, unless the simulation ends first.
DatagramsForwarded ==
    \A n \in Number :
        (/\ stage = "running" /\ thread # "none"
         /\ \E i \in DOMAIN socket : socket[i].pkt = n)
        ~> (stage # "running" \/ (pushed.pkt = n /\ IsTail(pushed)))

\* The process ends after the simulation, whatever the receive thread waits for.
SimulationEnds == stage \in Teardown ~> stage \in Ended

\* The receive thread touches nothing that the destructor has deleted.
NoUseAfterDelete == thread # "wild"

=============================================================================
