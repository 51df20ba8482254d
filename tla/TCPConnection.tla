---------------------------- MODULE TCPConnection ----------------------------
(***************************************************************************)
(* One TCP connection between two sockets of this stack, over a network    *)
(* that loses, duplicates, delays and reorders segments.                   *)
(*                                                                         *)
(* On each node a task calls the socket's blocking API and runs recv_loop  *)
(* inside the call; the receiving interrupt puts segments into the         *)
(* socket's packetbuffer at any moment, also while no call is running.     *)
(* Nothing but a call consumes them.                                       *)
(***************************************************************************)
EXTENDS TCPStatemachine

CONSTANTS
    Client,     \* the node that calls connect()
    Server,     \* the node that calls listen()
    ISN,        \* the initial sequence number each node's clock gives
    ToWrite,    \* bytes each application writes at most
    ReadSizes,  \* buffer sizes of receive()
    Polling,    \* the nodes whose application also calls poll()
    Closing,    \* the nodes whose application calls close()
    NetCap      \* segments the network holds for one node at most

Node == {Client, Server}
Peer(n) == IF n = Client THEN Server ELSE Client

ASSUME ConnectionAssumption ==
    /\ Client /= Server
    /\ ISN \in [Node -> SeqNum] /\ ToWrite \in [Node -> Nat]
    /\ \A n \in Node : ToWrite[n] + 2 < SEQMOD \div 2
    /\ ReadSizes \subseteq Nat \ {0} /\ Polling \subseteq Node
    /\ Closing \subseteq Node
    /\ NetCap \in Nat

VARIABLES
    sock,       \* the socket of each node
    call,       \* the API call its task is in
    demux,      \* how Demux knows the socket: "none", "listen", "deaf", "bound"
    net,        \* the segments on their way to each node
    written,    \* bytes each application has passed to write()
    confirmed   \* bytes that a write() which returned true has confirmed

vars == <<sock, call, demux, net, written, confirmed>>
ghosts == <<written, confirmed>>

Calls == {"new", "idle", "connect", "listen", "write", "receive", "poll",
          "close", "done"}
Blocking == {"connect", "listen", "write", "receive", "close"}

Init ==
    /\ sock = [n \in Node |-> NewSocket]
    /\ call = [n \in Node |-> "new"]
    /\ demux = [n \in Node |-> "none"]
    /\ net = [n \in Node |-> {}]
    /\ written = [n \in Node |-> 0]
    /\ confirmed = [n \in Node |-> 0]

\* The sockets when connect() and listen() have returned: the client's last
\* ACK is still in its history.
EstablishedSocket(n) ==
    LET next == SeqAdd(ISN[n], 1)
        wnd  == Min({maxReceiveWindow_Bytes, WINDOW_MAX})
        ack  == Segment({"ACK"}, next, SeqAdd(ISN[Peer(n)], 1), wnd, 0, 0)
    IN  [NewSocket EXCEPT
          !.state = "ESTABLISHED",
          !.seqnum_next = next, !.seqnum_unacked = next,
          !.sendWindow = wnd, !.lwack = next,
          !.lwseq = IF n = Client THEN ISN[Peer(n)] ELSE SeqAdd(ISN[Peer(n)], 1),
          !.receiveBuffer = setFirstSeqNum(@, SeqAdd(ISN[Peer(n)], 1)),
          !.history = IF n = Server THEN <<>>
                      ELSE <<Record(ack, FALSE)>>,
          !.mempool = IF n = Server THEN COUNT ELSE COUNT - 1]

InitEstablished ==
    /\ sock = [n \in Node |-> EstablishedSocket(n)]
    /\ call = [n \in Node |-> "idle"]
    /\ demux = [n \in Node |-> "bound"]
    /\ net = [n \in Node |-> {}]
    /\ written = [n \in Node |-> 0]
    /\ confirmed = [n \in Node |-> 0]

\* Node n's socket becomes s; what it sent goes to the peer, or is lost
\* when the network has no room for it.
Become(n, s) ==
    LET arriving == net[Peer(n)] \cup s.out
    IN  /\ sock' = [sock EXCEPT ![n] = [s EXCEPT !.out = {}]]
        /\ IF Cardinality(arriving) <= NetCap
           THEN net' = [net EXCEPT ![Peer(n)] = arriving]
           ELSE UNCHANGED net

gen_initial_seqnum(s, n) ==
    [s EXCEPT !.seqnum_next = ISN[n], !.seqnum_unacked = ISN[n],
              !.sendWindow = 0]

TimedRecords(s) == {i \in DOMAIN s.history : s.history[i].timed}

\* Everything the environment may decide during one input() of s.
Env(s) ==
    [sent     : IF \E i \in DOMAIN s.history : ~s.history[i].timed
                THEN BOOLEAN ELSE {TRUE},
     timedOut : SUBSET TimedRecords(s),
     elapsed  : IF s.state = "TIMEWAIT" \/ (s.buflen > 0 /\ s.sendWindow = 0)
                THEN BOOLEAN ELSE {FALSE}]

-----------------------------------------------------------------------------
(* The API.                                                                 *)

connect ==
    /\ call[Client] = "new"
    /\ call' = [call EXCEPT ![Client] = "connect"]
    /\ demux' = [demux EXCEPT ![Client] = "bound"]
    /\ LET s   == gen_initial_seqnum(sock[Client], Client)
           env == [sent |-> TRUE, timedOut |-> {}, elapsed |-> FALSE]
       IN  Become(Client,
             [Transmit(s, env, writeHeader(s, {"SYN"}), TRUE) EXCEPT
                !.seqnum_next = SeqAdd(@, 1),
                !.state = "SYNSENT", !.waiting = TRUE])
    /\ UNCHANGED ghosts

\* listen() and the advice TCP_Listen around it: the socket waits for a SYN.
StartListening ==
    /\ demux' = [demux EXCEPT ![Server] = "listen"]
    /\ Become(Server, [gen_initial_seqnum(sock[Server], Server) EXCEPT
                         !.state = "LISTEN", !.waiting = TRUE])
    /\ UNCHANGED ghosts

listenCall ==
    /\ call[Server] = "new"
    /\ call' = [call EXCEPT ![Server] = "listen"]
    /\ StartListening

\* A connection that did not come about is unbound, and the loop of the
\* advice waits for the next SYN.
listenAgain ==
    /\ call[Server] = "listen" /\ ~sock[Server].waiting
    /\ sock[Server].state /= "ESTABLISHED"
    /\ StartListening
    /\ UNCHANGED call

\* The states in which write() and receive() do anything.
Open(n) == sock[n].state \in {"ESTABLISHED", "CLOSEWAIT"}

write(n, len) ==
    /\ call[n] = "idle" /\ Open(n)
    /\ written[n] + len <= ToWrite[n]
    /\ call' = [call EXCEPT ![n] = "write"]
    /\ Become(n, [sock[n] EXCEPT !.buflen = len, !.waiting = TRUE])
    /\ written' = [written EXCEPT ![n] = @ + len]
    /\ UNCHANGED <<demux, confirmed>>

receive(n, len) ==
    /\ call[n] = "idle" /\ Open(n)
    /\ call' = [call EXCEPT ![n] = "receive"]
    /\ Become(n, [sock[n] EXCEPT !.buflen = len, !.recv_len = 0,
                                 !.receiving = TRUE, !.waiting = TRUE])
    /\ UNCHANGED demux /\ UNCHANGED ghosts

\* poll(): without a packet it only waits; it handles all there are.
poll(n) ==
    /\ n \in Polling
    /\ call[n] = "idle" /\ Open(n) /\ sock[n].packetbuffer /= <<>>
    /\ call' = [call EXCEPT ![n] = "poll"]
    /\ UNCHANGED <<sock, net, demux>> /\ UNCHANGED ghosts

\* close(): the FIN, if there is a buffer for it, and then recv_loop.
close(n) ==
    /\ n \in Closing
    /\ call[n] = "idle"
    /\ \E env \in Env(sock[n]) :
         LET s   == sock[n]
             fin == writeHeaderWithAck(s, {"FIN"}, getAckNum(s.receiveBuffer))
         IN  IF Open(n) /\ requestSendBufferTCP(s, env)
             THEN Become(n, [Transmit(s, env, fin, TRUE) EXCEPT
                               !.seqnum_next = SeqAdd(@, 1), !.waiting = TRUE,
                               !.state = IF s.state = "CLOSEWAIT"
                                         THEN "LASTACK" ELSE "FINWAIT1"])
             ELSE IF Open(n) THEN Become(n, Reclaim(s, env))
                             ELSE UNCHANGED <<sock, net>>
    /\ call' = [call EXCEPT ![n] = "close"]
    /\ UNCHANGED demux /\ UNCHANGED ghosts

-----------------------------------------------------------------------------
(* recv_loop and the end of a call.                                         *)

Pop(s) == [s EXCEPT !.packetbuffer = Tail(@)]

\* recv_loop() takes a segment; listen() binds the socket to its sender
\* before it delivers the SYN.  poll() calls input() in the same way.
RecvSegment(n) ==
    /\ \/ call[n] \in Blocking /\ sock[n].waiting
       \/ call[n] = "poll"
    /\ sock[n].packetbuffer /= <<>>
    /\ demux' = [demux EXCEPT ![n] =
          IF sock[n].state = "LISTEN" THEN "bound" ELSE @]
    /\ \E s \in {input(Pop(sock[n]), env, Head(sock[n].packetbuffer)) :
                    env \in Env(sock[n])} : Become(n, s)
    /\ UNCHANGED call /\ UNCHANGED ghosts

\* recv_loop() finds packetbuffer empty.
RecvNothingIn(n, Envs) ==
    /\ call[n] \in Blocking /\ sock[n].waiting
    /\ sock[n].packetbuffer = <<>>
    /\ \E s \in {inputIdle(sock[n], env) : env \in Envs} : Become(n, s)
    /\ UNCHANGED <<call, demux>> /\ UNCHANGED ghosts
RecvNothing(n) == RecvNothingIn(n, Env(sock[n]))

\* poll() has handled all packets.
pollEnd(n) ==
    /\ call[n] = "poll" /\ sock[n].packetbuffer = <<>>
    /\ \E env \in Env(sock[n]) :
         Become(n, processACK(updateHistory(sock[n], TRUE, env), env))
    /\ call' = [call EXCEPT ![n] =
          IF sock'[n].state = "CLOSED" THEN "done" ELSE "idle"]
    /\ UNCHANGED demux /\ UNCHANGED ghosts

\* A call returns.  close() leaves Demux, whatever state it is in; a CLOSED
\* socket is the end of this node's run.
Return(n) ==
    /\ call[n] \in Blocking /\ ~sock[n].waiting
    /\ call[n] = "listen" => sock[n].state = "ESTABLISHED"
    /\ call' = [call EXCEPT ![n] =
          IF sock[n].state = "CLOSED" THEN "done" ELSE "idle"]
    /\ demux' = [demux EXCEPT ![n] =
          IF call[n] = "close" THEN "none" ELSE @]
    /\ confirmed' = [confirmed EXCEPT ![n] =
          IF call[n] = "write" /\ Open(n) THEN written[n] ELSE @]
    /\ UNCHANGED <<sock, net, written>>

-----------------------------------------------------------------------------
(* The network and the receiving interrupt.                                 *)

\* Demux finds the socket that a segment is for.
Matches(n, seg) ==
    \/ demux[n] = "bound"
    \/ demux[n] = "listen" /\ has(seg, "SYN")

\* addToReceiveQueue(), after the test of packetBufferFull().
addToReceiveQueue(n, seg) ==
    IF /\ Matches(n, seg)
       /\ Len(sock[n].packetbuffer) < PACKET_LIMIT - 1
       /\ sock[n].mempool > 0
    THEN /\ sock' = [sock EXCEPT ![n].packetbuffer = Append(@, seg),
                                 ![n].mempool = @ - 1]
         /\ demux' = [demux EXCEPT ![n] = IF @ = "listen" THEN "deaf" ELSE @]
    ELSE UNCHANGED <<sock, demux>>

\* A segment arrives; a copy of it may arrive once more later.
Deliver(n) ==
    \E seg \in net[n] :
        /\ addToReceiveQueue(n, seg)
        /\ \/ net' = [net EXCEPT ![n] = @ \ {seg}]
           \/ UNCHANGED net
        /\ UNCHANGED call /\ UNCHANGED ghosts

Lose(n) ==
    /\ \E seg \in net[n] : net' = [net EXCEPT ![n] = @ \ {seg}]
    /\ UNCHANGED <<sock, call, demux>> /\ UNCHANGED ghosts

Next ==
    \/ connect \/ listenCall \/ listenAgain
    \/ \E n \in Node :
         \/ \E len \in 1 .. ToWrite[n] : write(n, len)
         \/ \E len \in ReadSizes : receive(n, len)
         \/ poll(n) \/ close(n)
         \/ RecvSegment(n) \/ RecvNothing(n) \/ pollEnd(n) \/ Return(n)
         \/ Deliver(n) \/ Lose(n)

Spec == Init /\ [][Next]_vars
EstablishedSpec == InitEstablished /\ [][Next]_vars

\* recv_loop() spins while it waits, and a timeout that has passed is seen
\* in the end: the interface has then sent what it was given.
Timeout(n) ==
    LET all == [sent |-> TRUE, timedOut |-> TimedRecords(sock[n]),
                elapsed |-> TRUE]
    IN  RecvNothingIn(n, {all})

\* The network may lose any number of segments, but not all of them.
DeliverLast(n) == net[n] /= {} /\ Deliver(n) /\ net'[n] /= net[n]

\* The tasks run, and the applications ask for data again and again.
Fairness ==
    /\ \A n \in Node :
         /\ WF_vars(RecvSegment(n)) /\ SF_vars(Timeout(n))
         /\ WF_vars(Return(n)) /\ SF_vars(DeliverLast(n))
         /\ WF_vars(\E len \in ReadSizes : receive(n, len))

FairEstablishedSpec == EstablishedSpec /\ Fairness

-----------------------------------------------------------------------------
\* The bytes of the peer's stream that have reached node n's buffer.
Received(n) == Len(sock[n].read) + getRecvBytes(sock[n].receiveBuffer)

TypeOK ==
    /\ \A n \in Node :
         /\ sock[n].state \in States
         /\ sock[n].out = {}
         /\ sock[n].seqnum_unacked \in SeqNum /\ sock[n].seqnum_next \in SeqNum
         /\ sock[n].mempool \in 0 .. COUNT
         /\ Len(sock[n].history) <= TCP_HISTORY_MAX_PACKETS
         /\ Len(sock[n].packetbuffer) < PACKET_LIMIT
         /\ sock[n].sendWindow \in 0 .. WINDOW_MAX
    /\ call \in [Node -> Calls]
    /\ demux \in [Node -> {"none", "listen", "deaf", "bound"}]

\* Each application reads a prefix of what the other one wrote, whatever
\* the network does to the segments.
StreamPrefix ==
    \A n \in Node :
        /\ \A i \in DOMAIN sock[n].read : sock[n].read[i] = i - 1
        /\ Received(n) <= written[Peer(n)]

\* A write() that returned true has all its bytes in the peer's buffer:
\* the empty history it waited for really means "acknowledged".
WriteConfirmed == \A n \in Node : confirmed[n] <= Received(Peer(n))

\* The receiver reports the end of the stream only behind its last byte.
EndOfStream ==
    \A n \in Node :
        sock[n].state \in {"CLOSEWAIT", "LASTACK", "CLOSING", "TIMEWAIT"} =>
            /\ Received(n) = written[Peer(n)]
            /\ sock[Peer(n)].state \notin {"ESTABLISHED", "CLOSEWAIT"}

\* No block of the mempool is lost or freed twice: each is free or holds
\* exactly one queued segment, buffered segment or sent segment.
BlocksConserved ==
    \A n \in Node :
        sock[n].mempool + Len(sock[n].packetbuffer) + Len(sock[n].history)
          + Len(sock[n].receiveBuffer.list) = COUNT

\* Synchronised sequence numbers: what a node takes for acknowledged the
\* peer has received, and the peer expects nothing the node has not sent.
SequenceSynchronised ==
    \A n \in Node :
        LET p    == Peer(n)
            sent == sock[n].state \notin {"CLOSED", "LISTEN", "SYNSENT", "SYNRCVD"}
            rcvd == sock[p].state \notin {"CLOSED", "LISTEN", "SYNSENT"}
            expected == SeqAdd(getAckNum(sock[p].receiveBuffer),
                               IF sock[p].state \in {"CLOSEWAIT", "LASTACK",
                                  "CLOSING", "TIMEWAIT"} THEN 1 ELSE 0)
        IN  sent /\ rcvd =>
              /\ SEQ_GEQ(expected, sock[n].seqnum_unacked)
              /\ SEQ_LEQ(expected, sock[n].seqnum_next)

\* A close() that has sent its FIN comes back only when the connection is
\* over: no call leaves the socket between ESTABLISHED and CLOSED.
CloseEndsClosed ==
    \A n \in Node :
        call[n] = "idle" => sock[n].state \in {"ESTABLISHED", "CLOSEWAIT"}

\* Behind FINWAIT1 and CLOSING the peer has acknowledged the FIN: the empty
\* history that finwait1() and closing() take for it is a good indicator.
FINAcked ==
    \A n \in Node :
        sock[n].state \in {"FINWAIT2", "TIMEWAIT"} =>
            sock[n].seqnum_unacked = sock[n].seqnum_next

\* Every write() returns: the last acknowledgement it waits for cannot be
\* lost for good, because each retransmission of a segment that arrived
\* before triggers another one.
WriteReturns == \A n \in Node : call[n] = "write" ~> call[n] = "idle"
=============================================================================
