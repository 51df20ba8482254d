----------------------------- MODULE UDPSockets -----------------------------
(***************************************************************************)
(* UDP sockets between the receiving interrupt and the application: the    *)
(* list of bound sockets in Demux and their ports, the receive buffer and  *)
(* its RemoteInfo, the receive queue, and the task that waits for the      *)
(* receive event.  bind() and unbind() run with interrupts disabled, so    *)
(* each is one step; the receiving loop is a step per access.              *)
(***************************************************************************)
EXTENDS Integers, Sequences, FiniteSets

CONSTANTS
  Sockets,
  Receivers,      \* the sockets whose task is in the receiving loop of the example
  Nil,            \* the null pointer
  UserPorts,      \* ports the application asks for, 0 for any
  FIRST_PORT,     \* 1024: the ports below are not chosen by udp_get_free_port()
  PORTS,          \* 65536: ports are numbers modulo PORTS
  FirstLast,      \* udp_last_default_port at the start
  Blocks,         \* the blocks of a socket's mempool
  BLOCKSIZE,      \* size of a block
  BUFFERSIZE,     \* slots of the receive queue, one of them always empty
  Datagrams,      \* what arrives: [dport, ver, payload, sport, src], the last three as bytes
  Behind,         \* what the bytes behind the payload of a packet may be
  MaxDatagrams    \* datagrams that arrive at most

Byte == 0 .. 255
AddrSize(ver) == IF ver = 4 THEN 4 ELSE 16

ASSUME SocketsAssumption ==
  /\ IsFiniteSet(Sockets) /\ Receivers \subseteq Sockets /\ Nil \notin Sockets
  /\ FIRST_PORT \in Nat \ {0} /\ PORTS \in Nat /\ FIRST_PORT < PORTS
  /\ UserPorts \subseteq 0 .. PORTS - 1 /\ FirstLast \in 0 .. PORTS - 1
  /\ BUFFERSIZE \in Nat /\ BUFFERSIZE >= 2 /\ MaxDatagrams \in Nat
  /\ Behind \subseteq Byte
  /\ \A d \in Datagrams :
       /\ d.ver \in {4, 6} /\ d.payload \in Seq(Byte)
       /\ d.sport \in [1 .. 2 -> Byte] /\ d.src \in [1 .. AddrSize(d.ver) -> Byte]

VARIABLES
  head,     \* udp_head_socket
  last,     \* udp_last_default_port
  sock,     \* per socket: next and sport
  bound,    \* the sockets that bind() accepted and unbind() has not taken back
  moved,    \* those of them whose port set_sport() has changed since
  pool,     \* per socket: its free blocks
  mem,      \* per socket and block: the ReceiveBuffer in it, if it is not free
  queue,    \* per socket: m_receivequeue, pointers to blocks, with the datagram
            \* each was made for, and null pointers
  event,    \* per socket: IPStackReceiveEvent_ of its task
  task,     \* per socket: where its task is, and the buffer it holds
  stats     \* arrived, nulls, full, got: what happened so far

vars == <<head, last, sock, bound, moved, pool, mem, queue, event, task, stats>>
demuxVars == <<head, last, sock, bound, moved>>
receiveVars == <<pool, mem, queue, event, task, stats>>

NewSocket == [next |-> Nil, sport |-> 0]
FreeBlock == [size |-> 0, bytes |-> <<>>]

\* Each socket is one of the API, with a mempool and a ring buffer of its own.
Init ==
  /\ head = Nil /\ last = FirstLast /\ bound = {} /\ moved = {}
  /\ sock = [s \in Sockets |-> NewSocket]
  /\ pool = [s \in Sockets |-> Blocks]
  /\ mem = [s \in Sockets |-> [b \in Blocks |-> FreeBlock]]
  /\ queue = [s \in Sockets |-> <<>>]
  /\ event = [s \in Sockets |-> FALSE]
  /\ task = [s \in Sockets |-> [at |-> "run", buffer |-> Nil]]
  /\ stats = [arrived |-> 0, nulls |-> {}, full |-> {}, got |-> {}]

-----------------------------------------------------------------------------
(* Demux: the list of sockets and their ports                              *)

\* The sockets of the list in their order: a walk from head that ends at the
\* null pointer.  A walk of more steps than there are sockets has met a cycle
\* and does not end in the code.
Listed ==
  LET at[k \in 0 .. Cardinality(Sockets)] ==
        IF k = 0 THEN head
        ELSE IF at[k - 1] = Nil THEN Nil ELSE sock[at[k - 1]].next
  IN  [i \in {j \in 1 .. Cardinality(Sockets) + 1 : \A k \in 0 .. j - 1 : at[k] # Nil} |-> at[i - 1]]

PortsInUse == {sock[Listed[i]].sport : i \in DOMAIN Listed}

Following(port) == LET p == (port + 1) % PORTS IN IF p < FIRST_PORT THEN FIRST_PORT ELSE p

\* Mutant: after a collision the search goes on where it is.
udp_get_free_portOnce ==
  LET port[i \in 0 .. Len(Listed)] ==
        IF i = 0 THEN Following(last)
        ELSE IF sock[Listed[i]].sport = port[i - 1] THEN Following(port[i - 1]) ELSE port[i - 1]
  IN  port[Len(Listed)]

\* The loop: a collision takes the following port and starts at the head
\* again, until a port is not in use.  Without such a port it does not end.
Candidates ==
  LET port[k \in 0 .. PORTS] == IF k = 0 THEN last ELSE Following(port[k - 1])
  IN  port
Free == {k \in 1 .. PORTS : Candidates[k] \notin PortsInUse}

udp_get_free_port == Candidates[CHOOSE k \in Free : \A j \in Free : k <= j]

\* set_sport() looks at no list and no other socket, whether s is bound or not.
set_sport(s, port) ==
  /\ port # sock[s].sport
  /\ sock' = [sock EXCEPT ![s].sport = port]
  /\ moved' = IF s \in bound THEN moved \cup {s} ELSE moved
  /\ UNCHANGED <<head, last, bound>> /\ UNCHANGED receiveVars

\* A port in use makes bind() fail and changes nothing; so a bound socket, whose
\* own port is in use, is refused.  Only if its port was set to 0 meanwhile, the
\* code enters it a second time, and the list becomes a cycle: the
\* application does not do that here.
bind(s) ==
  LET any  == sock[s].sport = 0
      port == IF any THEN udp_get_free_port ELSE sock[s].sport
  IN  /\ any => s \notin bound
      /\ IF any THEN Free # {} ELSE port \notin PortsInUse
      /\ sock' = [sock EXCEPT ![s] = [next |-> head, sport |-> port]]
      /\ head' = s
      /\ last' = IF any THEN port ELSE last
      /\ bound' = bound \cup {s}
      /\ UNCHANGED moved /\ UNCHANGED receiveVars

\* unbind(), also by the destructor.  A socket that is not in the list is
\* searched for in vain.  On an empty list the code reads through the null
\* pointer; the outcomes in which it finds nothing there, or the program ends,
\* change nothing, and the others are left out.
unbind(s) ==
  /\ head # Nil
  /\ IF head = s THEN head' = sock[s].next /\ UNCHANGED sock
     ELSE /\ sock' = [c \in Sockets |->
                        IF sock[c].next = s /\ \E i \in DOMAIN Listed : c = Listed[i]
                          THEN [sock[c] EXCEPT !.next = sock[s].next] ELSE sock[c]]
          /\ UNCHANGED head
  /\ bound' = bound \ {s} /\ moved' = moved \ {s}
  /\ UNCHANGED last /\ UNCHANGED receiveVars

-----------------------------------------------------------------------------
(* Receive buffers                                                         *)

\* struct RemoteInfo: its size, the offsets of address, port and id, and the
\* id, '4' or '6'.
InfoSize(ver) == IF ver = 4 THEN 8 ELSE 20
InfoAddr(ver) == IF ver = 4 THEN 0 ELSE 4
InfoPort(ver) == IF ver = 4 THEN 4 ELSE 2
InfoId(ver) == IF ver = 4 THEN 6 ELSE 0
Id(ver) == IF ver = 4 THEN 52 ELSE 54

Within(k, first, n) == first < k /\ k <= first + n

\* The bytes of RemoteInfo; the ones between its fields are not assigned.
Info(d, behind) ==
  [k \in 1 .. InfoSize(d.ver) |->
     IF k = InfoId(d.ver) + 1 THEN Id(d.ver)
     ELSE IF Within(k, InfoPort(d.ver), 2) THEN d.sport[k - InfoPort(d.ver)]
     ELSE IF Within(k, InfoAddr(d.ver), AddrSize(d.ver)) THEN d.src[k - InfoAddr(d.ver)]
     ELSE behind]

\* Where createReceiveBufferUDPIPv4/IPv6 put RemoteInfo: behind the payload and
\* with IPv4 behind a padding to a multiple of 4.
InfoStart(d) ==
  Len(d.payload) + (IF d.ver = 4 THEN (4 - ((Len(d.payload) + InfoSize(4)) % 4)) % 4 ELSE 0)

\* createReceiveBuffer() copies from the packet as many bytes as the buffer is
\* to have, those behind the payload too; then RemoteInfo is put over them.
Bytes(d, behind) ==
  [k \in 1 .. InfoStart(d) + InfoSize(d.ver) |->
     IF k <= Len(d.payload) THEN d.payload[k]
     ELSE IF k <= InfoStart(d) THEN behind ELSE Info(d, behind)[k - InfoStart(d)]]

\* Mutant: m_receivedSize keeps the value that createReceiveBuffer() has set.
createReceiveBufferUDPTotal(d, behind) ==
  [size |-> InfoStart(d) + InfoSize(d.ver), bytes |-> Bytes(d, behind)]

createReceiveBufferUDP(d, behind) == [size |-> Len(d.payload), bytes |-> Bytes(d, behind)]

\* getRemoteInfo() of the class for ver computes the padding again from
\* m_receivedSize; m is a ReceiveBuffer of either class.
getRemoteInfo(m, ver) ==
  IF ver = 4 THEN m.size + ((4 - ((m.size + InfoSize(4)) % 4)) % 4) ELSE m.size

\* cast() to the class for ver: whether one byte has the value of its id.
cast(m, ver) == m.bytes[getRemoteInfo(m, ver) + InfoId(ver) + 1] = Id(ver)

\* The address and the port that the application finds there.
remote(m, ver) ==
  [addr |-> [k \in 1 .. AddrSize(ver) |-> m.bytes[getRemoteInfo(m, ver) + InfoAddr(ver) + k]],
   port |-> [k \in 1 .. 2 |-> m.bytes[getRemoteInfo(m, ver) + InfoPort(ver) + k]]]

\* The null pointer is not a buffer.
ASSUME NilAssumption ==
  \A b \in Blocks, d \in Datagrams : [block |-> b, for |-> d] # Nil

\* Whether alloc() has a block for the datagram.
Fits(d) == InfoStart(d) + InfoSize(d.ver) <= BLOCKSIZE

\* Mutant: the slot that must stay empty is used.
isFullLate(s) == Len(queue[s]) = BUFFERSIZE

isFull(s) == Len(queue[s]) = BUFFERSIZE - 1

\* IPv4_UDP_Receive and IPv6_UDP_Receive: the first socket with the port gets
\* a buffer, or a null pointer if there is no block.  addToReceiveQueue()
\* refuses either when the queue is full: then the block stays allocated.
\* Datagrams for sockets that never receive are left out.
ArriveAt(s, d) ==
  LET n == stats.arrived
  IN  /\ n < MaxDatagrams /\ s \in Receivers
      /\ \E r \in IF Fits(d) /\ pool[s] # {}
                    THEN {[block |-> CHOOSE b \in pool[s] : TRUE, for |-> d]}
                    ELSE {Nil}, behind \in Behind :
           /\ pool' = [pool EXCEPT ![s] = @ \ (IF r = Nil THEN {} ELSE {r.block})]
           /\ mem' = IF r = Nil THEN mem
                     ELSE [mem EXCEPT ![s][r.block] = createReceiveBufferUDP(d, behind)]
           /\ queue' = [queue EXCEPT ![s] = IF isFull(s) THEN @ ELSE Append(@, [id |-> n, buffer |-> r])]
           /\ event' = [event EXCEPT ![s] = @ \/ ~isFull(s)]
           /\ stats' = [stats EXCEPT !.arrived = n + 1,
                                     !.nulls = IF r = Nil /\ ~isFull(s) THEN @ \cup {s} ELSE @,
                                     !.full = IF isFull(s) /\ r # Nil THEN @ \cup {<<s, r.block>>} ELSE @]
      /\ UNCHANGED task /\ UNCHANGED demuxVars
Arrive(d) ==
  \E i \in DOMAIN Listed :
    /\ sock[Listed[i]].sport = d.dport
    /\ \A j \in 1 .. i - 1 : sock[Listed[j]].sport # d.dport
    /\ ArriveAt(Listed[i], d)

-----------------------------------------------------------------------------
(* The task of a socket: receiveBlock(), cast, free                        *)

\* get() in receiveBlock(): a null pointer in the queue looks like no packet.
ReceiveGet(s) ==
  LET r == IF queue[s] = <<>> THEN Nil ELSE queue[s][1].buffer IN
  /\ s \in Receivers /\ task[s].at = "run"
  /\ queue' = [queue EXCEPT ![s] = IF @ = <<>> THEN @ ELSE Tail(@)]
  /\ task' = [task EXCEPT ![s] = [at |-> IF r = Nil THEN "wait" ELSE "use", buffer |-> r]]
  /\ stats' = [stats EXCEPT !.got = IF r = Nil THEN @ ELSE @ \cup {queue[s][1].id}]
  /\ UNCHANGED <<pool, mem, event>> /\ UNCHANGED demuxVars

\* block(): WaitEvent, which returns at once if the event is set, ...
WaitEvent(s) ==
  /\ task[s].at = "wait" /\ event[s]
  /\ task' = [task EXCEPT ![s].at = "clear"]
  /\ UNCHANGED <<pool, mem, queue, event, stats>> /\ UNCHANGED demuxVars

\* ... then ClearEvent; the queue is looked at again afterwards.
ClearEvent(s) ==
  /\ task[s].at = "clear"
  /\ event' = [event EXCEPT ![s] = FALSE]
  /\ task' = [task EXCEPT ![s].at = "run"]
  /\ UNCHANGED <<pool, mem, queue, stats>> /\ UNCHANGED demuxVars

\* Mutant: the application does not free the buffer.
freeForgotten(s) ==
  /\ task[s].at = "use"
  /\ task' = [task EXCEPT ![s] = [at |-> "run", buffer |-> Nil]]
  /\ UNCHANGED <<pool, mem, queue, event, stats>> /\ UNCHANGED demuxVars

\* The application has looked at the buffer: ReceiveBuffer::free().  What is
\* in a free block does not matter.
free(s) ==
  LET block == task[s].buffer.block IN
  /\ task[s].at = "use"
  /\ pool' = [pool EXCEPT ![s] = @ \cup {block}]
  /\ mem' = [mem EXCEPT ![s][block] = FreeBlock]
  /\ task' = [task EXCEPT ![s] = [at |-> "run", buffer |-> Nil]]
  /\ UNCHANGED <<queue, event, stats>> /\ UNCHANGED demuxVars

\* The first half of the swapped order: the event is cleared first, ...
WaitEventCleared(s) ==
  /\ task[s].at = "wait"
  /\ event' = [event EXCEPT ![s] = FALSE]
  /\ task' = [task EXCEPT ![s].at = "clear"]
  /\ UNCHANGED <<pool, mem, queue, stats>> /\ UNCHANGED demuxVars

\* ... and then waited for.
ClearEventWaiting(s) ==
  /\ task[s].at = "clear" /\ event[s]
  /\ task' = [task EXCEPT ![s].at = "run"]
  /\ UNCHANGED <<pool, mem, queue, event, stats>> /\ UNCHANGED demuxVars

\* Mutant: ClearEvent, then WaitEvent.
TaskStepSwapped(s) == ReceiveGet(s) \/ WaitEventCleared(s) \/ ClearEventWaiting(s) \/ free(s)

TaskStep(s) == ReceiveGet(s) \/ WaitEvent(s) \/ ClearEvent(s) \/ free(s)

Next ==
  \/ \E s \in Sockets : bind(s) \/ unbind(s) \/ TaskStep(s)
  \/ \E s \in Sockets, port \in UserPorts : set_sport(s, port)
  \/ \E d \in Datagrams : Arrive(d)

\* A task that is ready gets the processor.
Spec == Init /\ [][Next]_vars /\ \A s \in Receivers : WF_vars(TaskStep(s))

-----------------------------------------------------------------------------
(* Properties                                                              *)

Buffers(s) ==
  {queue[s][i].buffer : i \in {j \in DOMAIN queue[s] : queue[s][j].buffer # Nil}}
    \cup (IF task[s].buffer = Nil THEN {} ELSE {task[s].buffer})

\* The list, the ports, the mempools and the tasks are well formed, and
\* addToReceiveQueue() leaves one slot of each ring buffer empty.
TypeOK ==
  /\ head \in Sockets \cup {Nil} /\ last \in 0 .. PORTS - 1
  /\ sock \in [Sockets -> [next : Sockets \cup {Nil}, sport : 0 .. PORTS - 1]]
  /\ bound \subseteq Sockets /\ moved \subseteq bound
  /\ pool \in [Sockets -> SUBSET Blocks] /\ event \in [Sockets -> BOOLEAN]
  /\ \A s \in Sockets : Len(queue[s]) < BUFFERSIZE /\ task[s].at \in {"run", "wait", "clear", "use"}

\* The list that the interrupt walks holds exactly the bound sockets, each
\* once, in whatever order bind(), unbind() and set_sport() are called, but for
\* the two orders that bind() and unbind() name: bind() of a bound socket whose
\* port was set to 0, and unbind() while no socket is bound.  Two bound sockets
\* have the same port, chosen by the application or by udp_get_free_port() with
\* its wrap, or a bound socket none, only if set_sport() changed one while bound.
BoundOnce ==
  /\ {Listed[i] : i \in DOMAIN Listed} = bound
  /\ \A i, j \in DOMAIN Listed : Listed[i] = Listed[j] => i = j
  /\ \A s, t \in bound \ moved : s # t => sock[s].sport # sock[t].sport
  /\ \A s \in bound \ moved : sock[s].sport # 0

\* Every block of a mempool is free, or in one receive buffer that is queued
\* or held, or was lost when its buffer met a full queue.
BlocksAccounted ==
  \A s \in Sockets :
    LET inUse == {b.block : b \in Buffers(s)}
        lost  == {l[2] : l \in {k \in stats.full : k[1] = s}}
    IN  /\ pool[s] \cup inUse \cup lost = Blocks
        /\ pool[s] \cap (inUse \cup lost) = {} /\ inUse \cap lost = {}
        /\ \A b, c \in Buffers(s) : b.block = c.block => b = c

\* From its arrival to free(), through the queue and whatever arrives meanwhile
\* in other blocks, a buffer keeps the datagram: the payload is at its front, and
\* cast() to the IP version it came with succeeds and finds the address and port
\* of the sender, whatever its size and whatever was behind it in the packet.
\* cast() to the other version may succeed as well: it looks at one byte, of the
\* address or of what is not assigned, against the comment at
\* ReceiveBuffer.h:31-38 ("0 is returned if the cast failed").
CastIdentifies ==
  \A s \in Sockets : \A b \in Buffers(s) :
    LET m == mem[s][b.block] d == b.for
    IN  /\ m.size = Len(d.payload) /\ \A k \in 1 .. m.size : m.bytes[k] = d.payload[k]
        /\ cast(m, d.ver) /\ remote(m, d.ver) = [addr |-> d.src, port |-> d.sport]

\* No wake-up is lost: a datagram in the queue of a receiving task is received,
\* unless the socket ran out of blocks and has put a null pointer in the queue.
QueuedReceived ==
  \A s \in Receivers, n \in 0 .. MaxDatagrams - 1 :
    (\E i \in DOMAIN queue[s] : queue[s][i].id = n) ~> (n \in stats.got \/ s \in stats.nulls)
=============================================================================
