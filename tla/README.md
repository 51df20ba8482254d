# Verification of the aspect oriented IP stack

TLA+ models of the parts of `libipstack` that carry its own logic, TLC
configurations that check them on small instances, and TLAPS proofs for the
parts whose correctness must not depend on a bound. Source paths below are
relative to `src/libipstack/src/` unless they start with `src/`.

## 1. Inventory

The stack is C++ woven by AspectC++: a socket class is a core file plus
slices and advices that a build selects. Packets arrive in an interrupt (or a
polling loop), `Demux` finds the socket, `addToReceiveQueue()` copies the packet
into a block of the socket's memory pool and puts the pointer into the
socket's ring buffer. The application's task runs the protocol itself: every
blocking call of the API (`connect`, `listen`, `write`, `receive`, `close`)
spins in `recv_loop()`, which takes one packet after the other and calls
`input()`, the TCP state machine.

| component | state | operations | hard behaviour | what makes it correct |
|---|---|---|---|---|
| ring buffer `util/Ringbuffer.h` | array, `inpos_`, `outpos_` | `put` (interrupt), `get` (task), `isFull` | no lock | a bounded FIFO |
| memory pool `util/Mempool.h`, `ReceiveBuffer.h` | two stacks of free blocks | `alloc`, `free` | shared by task and interrupt | every block has one owner |
| TCP receive buffer `tcp/tcp_receivebuffer` | list of elements, `recv_continuous`, `recv_bytes` | `insert`, `copyData`, `getAckNum` | reordering, duplicates, overlap, wrap | stream in order, only held bytes acknowledged |
| TCP socket `tcp/TCP_Socket.cpp`, `tcp/statemachine` | 11 states, windows, flags, history | API calls, one handler per state | lost, late and repeated segments, timeouts, no memory | data and end of stream, no leak, termination |
| TCP history `tcp/tcp_history` | list of sent segments | `add`, `remove`, timeouts, retransmission counter | abort in the middle of a traversal | nothing unacknowledged is dropped |
| TCP/UDP demultiplexing `tcp/Demux_TCP*`, `ipv4/tcp`, `udp` | linked lists of sockets | `bind`, `unbind`, `listen`, `deaf`, lookup in the interrupt | list changed while searched, one `next` for two lists | each packet to its socket |
| TCP options and performance aspects | RTT estimate, congestion window | timers, numeric updates | 16 bit arithmetic | no overflow, progress |
| send buffers `SendBuffer.h`, `Socket_Send_Slice.ah` | state of a buffer | `requestSendBuffer`, `send`, `recycle`, `free` | asynchronous transmission | not reused while transmitted |
| ARP `arp` | cache of a few entries | lookup, update, eviction, blocking wait | reply races eviction and timeout | no stale pointer, no lost wake-up |
| IPv4 `ipv4` | reassembly buffer, packet id | fragments, demux | fragments in any order | complete datagrams only |
| IPv6 `ipv6`, ICMPv6 `icmpv6` | neighbour, router and destination cache, address states, multicast groups | NDP, DAD, autoconfiguration, MLD, fragments | expiry races use, cross pointers between caches | no dangling entry |
| IP common, router `ip`, `router` | interfaces, used IP version | route choice, checksum, dispatch by version | prefixes, stale version or route | next hop on the link of the interface |
| shared memory `ip_management_memory` | list of the management buffers | `insert`, `remove`, `freeAllUnused` | nobody frees a sent buffer | each buffer free or listed once |
| UDP `udp`, `ipv4/udp`, `ipv6/udp` | list of sockets, receive queue, ports | `bind`, `unbind`, `receiveBlock` | full queue, no block, wake-up | ports unique, blocks accounted for, packets received |
| 6LoWPAN, Ethernet, ICMPv4 | none | encoding and decoding | data layout | decode inverts encode |
| build system `src/libipstack/buildsystem` | feature set, current directory | `determine_relevant_files` | error deep in a recursion | the files of the selected features, or an error |
| OS integration `src/integration` | events, alarms, interrupt lock | `block`, `SetEvent`, enter/leaveKernel | wake-up between test and wait | no lost wake-up |

The hazards this leads to are listed, each at its line, under `hazards` in
`PROJECT.json`.

## 2. Modules

| module | models |
|---|---|
| `PacketQueue` | abstract: a bounded FIFO of packets |
| `Ringbuffer` | `util/Ringbuffer.h`, one step per statement of `put()` and `get()` |
| `RingbufferProofs` | TLAPS proofs about `Ringbuffer` |
| `Mempool`, `MCMempool` | `util/Mempool.h` shared by a task and the receiving interrupt |
| `MempoolProofs` | TLAPS proofs about `Mempool` |
| `TCP` | `tcp/TCP.h`: segments, wrapped comparison of sequence numbers |
| `TCPReceiveBuffer` | the receive buffers, with the sliding window aspect and of one element, as operators |
| `TCPReceiveBufferProofs` | lemmas about the lists of `TCPReceiveBuffer` |
| `ReceiveStream`, `MCReceiveStream` | either buffer between a reordering network and the reading application |
| `ReceiveStreamProofs` | TLAPS proofs about `ReceiveStream` |
| `TCPSocket` | the methods of `TCP_Socket`, with history, windows, mempool accounting |
| `TCPStatemachine` | the eleven files of `tcp/statemachine` and `input()` |
| `TCPConnection`, `MCTCPConnection` | two sockets, their tasks, `Demux`, the interrupt and the network |
| `TCPConnectionProofs` | TLAPS proofs about one socket of `TCPConnection`, with one lemma per method and handler |
| `TCPStreamProofs` | TLAPS proofs about the two ends of a connection: what is read, confirmed and acknowledged |
| `UDPSockets`, `MCUDPSockets` | UDP sockets, their list and ports, receive queues, mempools, receiving tasks and their events |
| `UDPSocketsProofs` | TLAPS proofs about `UDPSockets` |
| `Addresses` | IPv6 and Ethernet addresses: texts, scopes, prefixes, solicited-node addresses, as operators |
| `Packets` | IPv4, IPv6 and UDP headers byte by byte, the Internet checksum, length checks, as operators |
| `Datagrams`, `MCDatagrams` | a dual-stack socket, its routes and send buffer, the wire and the receiving aspects |
| `IPv6hc` | the 6LoWPAN header codec, as operators; checked by the assumptions of `MCDatagrams` |
| `SharedMemory` | the management memory of internal senders, as operators |
| `NeighbourCache`, `MCNeighbourCache` | an interface's address memory with the NDP cache, expiry, advertisements, solicitations and the blocking lookup; composes `SharedMemory` |
| `NeighbourCacheProofs` | TLAPS proofs about `NeighbourCache` and `SharedMemory` |
| `FileSelection`, `MCFileSelection` | the tool `determine_relevant_files` |

How state corresponds to the code:

* `Ringbuffer`: `buffer`, `inpos`, `outpos` are the members; `putPc`/`getPc` say
  between which two statements each side stands. The interrupt and the task
  interleave freely, which is more than an interrupt can do. Among the values put is
  the null pointer, which the receivers of UDP put when no block is free.
* `Mempool`: `freelist[p]` and `head[p]` are the array and the pointer of each
  `SingleMempool`; `holders` counts who uses a block. An operation of the task is
  a step per access to the shared members, and since `head` is not volatile the
  two accesses of `*(head--)` and `*++head = b` come in either order. The
  interrupt is one step, and cannot come while the operation is one that
  `enterKernel()`/`leaveKernel()` encloses (`Masked`).
* `TCPReceiveBuffer`: the list of `TCP_RecvElement`s is a sequence and
  `recv_continuous` an index (0 for null). The payload of a segment is the
  position of its bytes in the sender's stream: the code never looks at it, the
  properties do.
* `TCPSocket`: a socket is a record with the members of the class. An operator
  named after a method maps the socket before the call to the socket after it.
  The mempool is the number of its free blocks (which block is the business of
  `Mempool`), `packetbuffer` is the sequence that `PacketQueue` stands for, and
  `history` is the list of records, newest first. What one call of `input()`
  asks of the outside (has the interface sent the buffer, which timeouts have
  passed) is a nondeterministic argument `env`.
* `TCPConnection`: `call[n]` is the API call the task is in. One step is one
  `input()` (`RecvSegment`, `RecvNothing`), the start or the end of a call, or an
  interrupt (`Deliver`). `net` is a set: segments are reordered freely, may be
  lost (`Lose`, or no room), and `Deliver` may leave a copy behind. The task and the
  interrupt interleave at these steps; the finer interleaving inside the ring
  buffer and the mempool is what the two proofs allow us to leave out.

* `UDPSockets`: `head`, `sock[s].next` and `last` are the list and the counter of
  `Demux`; `queue` holds buffers and the null pointers that `addToReceiveQueue()`
  puts there when no block is free. `mem` is what the receive buffer in each block
  holds, byte by byte: the payload, what lay behind it in the packet, `RemoteInfo` in
  the layout of its IP version. `cast()` tests one byte of it, as the code does; the
  datagram a buffer was made for is recorded in the queue for the properties alone. A
  task is at `get()`, in `WaitEvent`, before `ClearEvent` or using a buffer. `moved`
  and `stats` only record what happened.
* `Datagrams`: a send buffer is a sequence of bytes whose first content is stale,
  and every aspect of `prepareSendBuffer()` and `send()` writes its fields into it.
  `requestSendBuffer()` takes the block first and, when the link layer address of the
  next hop is not found, loses it (`sock.mempool`).
  A frame arrives intact or with one bit inverted, padded by the link, in memory
  with foreign bytes behind it. IPv6 texts are sequences of the eight blocks of
  digits.
* `NeighbourCache`: `mem` is the array of `AddressMemory`, in which cache entries
  and addresses share the slots and a freed entry keeps its bytes. `lookup` is
  the task inside `prepareSendBuffer()` with the pointer (position) it holds;
  `confirmed` counts the refresh cycles since a neighbour's last full
  advertisement. `Answer` is the answer to a solicitation or an echo request with
  the lookup that preparing its buffer runs in the receiving context: it may evict an
  entry, send a solicitation from a second management buffer, wait for an answer that
  cannot be handled meanwhile, free the entry again and give the answer up. During
  this second no task and no refresh cycle runs in the model, as none does where the
  stack receives in an interrupt. The two aspects around a solicitation, one that
  answers and one that learns, run in either order, since no `order()` says which
  comes first. `suspect_unreachable()` and `releaseOldEntries()` are public
  methods nothing in the stack calls: they are steps of the environment, the
  first for neighbours and not for the configured router.
* `FileSelection`: `stack` is the recursion of `node()`, one step per entry, so that
  an error inside leaves `mdir` where the code leaves it.

Left out of the TCP model: ports and addresses (one connection), MSS
negotiation (both sides use `MSS`), the RTT, slow start and silly window
aspects, urgent data (ignored by the code), the interface being absent, the ARP
lookup of the first segment, and a second connection on the same socket. An
initial sequence number is a parameter; `listenAgain` uses the same number again
although the clock has advanced.

## 3. What TLC checks

| run | instance | shows |
|---|---|---|
| `ring_buffer` | 4 slots, 3 packets, fair | slots not shared, refinement of `PacketQueue`, every accepted packet is fetched |
| `mempool_masked` | 3 big and 2 small blocks, interrupts, all operations locked | one owner per block, whatever the order of the accesses |
| `receive_stream` | both buffers, 6 bytes, wrapping numbers, 4 elements; 32 peers that each cut the stream in one way, and one that sends any segments of up to 3 bytes | stream in order, `recv_bytes` exact, acknowledged bytes buffered; for the 32 peers also: the next segment is accepted, refused ones are duplicates |
| `tcp_lifecycle` | from CLOSED to CLOSED, 1 byte, both sides close in any order | end of stream, synchronised numbers, `close()` ends CLOSED and not before its FIN was acknowledged |
| `tcp_handshake` | handshakes with exhausted retransmissions | `abort()` gives every block back |
| `tcp_transfer` | 2 bytes in segments of 1, 2 segments in the net, read by `receive()` and `poll()` | prefix, confirmed writes |
| `tcp_liveness` | 2 bytes, fair | every `write()` returns |
| `file_selection` | 4 features in every combination, 76 command lines, a family model of 9 nodes in one sound and three malformed versions | the listed files are exactly those of the selected nodes with their directories; errors reach the exit status; definitions and files agree |
| `ip_datagrams` | 2 interfaces and a gateway, 3 IPv4 and 4 IPv6 destinations, prefixes of 48, 61 and 64 bits, one block, 2 receivers, payloads up to 3 bytes, every single bit error, paddings of 0 and 5 bytes, stale bytes 0 and 255 | nothing corrupt delivered, a filled buffer accepted, next hop on the link, address as named |
| `udp_sockets` | 3 sockets, ports 2 to 4 with wrap, 2 blocks, a queue of 1, 2 datagrams of three kinds and both IP versions, fair | list and ports, blocks, remote info, no lost wake-up |
| `neighbour_cache` | 4 slots, a host, a router and the configured router, 2 management buffers, 1 refresh cycle, solicitations and echo requests that are answered | configured router and own address kept, a confirmed neighbour kept, frames and answers to the right link layer address, also when an advertisement of the router leaves its own out, management buffers listed once |

Bounds. Sequence numbers are modulo 16 and the initial ones are 14 and 15, so
that the client's numbers wrap inside the handshake and the data and the
server's at the SYN; half of the space exceeds every window, as in the code.
Three history records, four blocks and a ring buffer of one packet make all three run
out in the middle of an exchange. Two receive elements and a window of two bytes
allow a gap and a closed window. `NetCap` bounds the distinct segments on their way; more
are lost, which the network may do anyway.

In `neighbour_cache` four slots hold the two entries that are always kept, so the
other two are fought over by the host, the router and the router's prefix; one
refresh cycle ages what was just confirmed and frees what is suspected unreachable.
In `udp_sockets` the next free port is the last one, so that the first search
wraps; two datagrams fill the queue of one, a third kind fits no block and puts the
null pointer, and what lies behind a payload is the character '6', the worst for
`cast()`. A solicitation in `neighbour_cache` comes over multicast: a unicast one
does in one step what this one and an echo request do in two. In
`ip_datagrams` the first IPv4 id is 65535 and wraps; the payload has an odd and an
even length; the larger request exceeds a block. One destination differs from the
61 bits of a prefix in the last of them.

The assumptions of `MCDatagrams` are evaluated by that run. They check codecs
that no packet of the run uses: which prefix masks are right (`PartialByte`),
solicited-node addresses, Ethernet address texts and, for 6LoWPAN, that the
setters in any order fill exactly the reserved header
(`HcHeaderWhole`), that a fixed hop limit, the fields of a sender that elides the
traffic class and an address shortened to its interface identifier are read back
(`HcHoplimit`, `HcElidedTraffic`, `HcInterfaceIdentifier`), and what is not
(`HcMisread`). The assumption `CastIsOneByte` of `MCUDPSockets` says for which of its
buffers the cast to the wrong IP version succeeds.

`CHECK_DEADLOCK FALSE` in the TCP and the later runs: the applications may have nothing left
to do, and then the system stops.

Fairness. `recv_loop()` spins as long as it waits, so the task's next step is
weakly fair; a retransmission timeout passes in the end, and the interface has
by then sent its buffer (`SF` of `Timeout`, because other steps interrupt the
wait again and again); the network delivers one of infinitely many copies
(`SF` of `DeliverLast`); the peer's application keeps calling `receive()`, which
this stack needs, since nothing else consumes its segments. No fairness is assumed of a
`write()` or a `close()` being called. In `udp_sockets` the receiving task is weakly
fair: the scheduler runs a task that is ready, and `WaitEvent` is ready only when
the event is set. No fairness is assumed of datagrams.

### Disagreements between the code and its comments

`mempool_race` is a run that TLC must violate, and `findings` in `PROJECT.json`
quotes the line: `IRQ_Sync` does not lock every `free()` of a block.

The others were met while modelling. The models do what the code does, and the
properties say what holds nevertheless.

TCP:

* `updateHistory()` kills a connection that ran out of retransmissions ("kill this
  connection", `TCP_Record_RetransmissionCounter.ah:58`), and `finwait1()` and
  `closing()`, which called it, take the empty history for an acknowledged FIN and
  set the state to FINWAIT2 or TIMEWAIT (`finwait1.ah:70`). `tcp_lifecycle` therefore
  checks `CloseEndsClosed` and `FINAcked` without the counter; with it TLC violates
  both, and the theorems `CloseCompletes` and `ConnectionFINAcked` assume that it is
  not woven in.
* The SYN+ACK for a repeated SYN is handed to `send()` without `recycle()` and
  never sent (`synrcvd.ah:52`); the retransmission timer sends it later.
* A segment queued between `abort()` and `unbind()` of a failed attempt is taken
  for a SYN by the next round of `listen()` (`listen.ah:36`), which answers with an
  acknowledgement of a number the peer has not sent: with the retransmission
  counter TLC violates `SequenceSynchronised` and `WriteConfirmed` from the initial
  states of `Spec`. Without the counter no attempt fails, and a connection that is
  established first is not affected; the theorems of `TCPStreamProofs` say so.
* `insert()` drops the new bytes of a segment that overlaps a buffered one, and
  once [2,4) and then [0,3) are buffered the stream of a peer that re-segments
  stalls for good (why `NextSegmentAcceptable` and `RefusedIsDuplicate` speak of
  peers none of whose segments overlap; that it takes this, and not only that
  the segments are the same every time, came out of the proof).
* `getReceiveWindow()` underflows when a zero window probe is stored in a full
  buffer. `lastack()` ends the connection although the acknowledgement of the
  peer's FIN may have been lost, and the peer then retransmits to nobody.

UDP:

* A datagram for a full queue keeps its block for ever (`stats.full` in
  `BlocksAccounted`); when the pool is empty a null pointer is queued, and with
  two of them `receiveBlock()` sleeps in front of a packet (why `QueuedReceived`
  excepts sockets with `stats.nulls`).
* `cast()` looks at one byte, which in a buffer of the other IP version belongs to
  the address of the sender or lay behind the payload. "0 is returned if the cast
  failed" (`ReceiveBuffer.h:31-38`) then does not hold: the cast
  to IPv4 of a datagram over IPv6 succeeds when the byte of the sender's address at
  an index of 2 to 5, which the length of the payload chooses, is 52; the cast to
  IPv6 of one over IPv4 succeeds when the sender is 54.x.x.x, or, if the length is not
  a multiple of four, when the byte behind the payload in the packet was 54
  (`CastIsOneByte`). `CastIdentifies` therefore says nothing of the cast to the other
  version.
* `unbind()` of a socket while the list is empty follows a null pointer, and
  `bind()` of a bound socket whose port was set to 0 (to any other port in use, as
  its own is, it is refused) makes the list a cycle; the model's application does
  neither. It does set the port of a bound socket: then two sockets may have the same
  one, and datagrams go to the one in front (`moved` in `BoundOnce`). The loop of
  `receive(timeout)` has its condition inverted.

IP:

* A buffer that is not filled is sent whole but summed over the written bytes
  only, so the receiver refuses it (why the properties speak of filled buffers).
  A checksum that comes out as 0 is not sent as 0xFFFF and so not checked.
* `validPacketLength()` of IPv6 compares the payload length with the whole frame.
* `compare_ipv6_addr()` masks the wrong bits when a prefix ends inside a byte,
  contrary to the comment at `IPv6AddressUtilities.cpp:230-235`: only with 7 such bits
  is the mask right, and with 5 none of them is compared (`PartialByte`). So a packet
  goes straight to a destination outside of a /61 prefix instead of to the router.
  `NextHopOnLink` speaks of the whole bytes of a prefix for this reason.
* The test for 2000::/3 in `getIPv6AddressScope()` is never true, so a configured
  2001:... address gets the prefix length 0, which matches every destination; of it
  `NextHopOnLink` says nothing.
* `requestSendBuffer()` takes the block before `prepareSendBuffer()` looks up the
  next hop and loses it when this fails (`Socket_Send_Slice.ah:65-77`): `Datagrams`
  does so, and with one block the socket never sends again. The version of a
  dual-stack socket may change between request and send.
* `ethernet_addr_tostring()` writes 0 for the first digit; `parse_ipv6_addr()`
  alters its argument when it fails, contrary to its comment.

Neighbour cache:

* An entry may be evicted while a lookup waits for it; its slot may then belong to
  another host or to an address of the interface, which the lookup uses or frees
  (`disturbed` in `LookupRight`).
* Three kinds of entries are used without a link layer address; `UsedWithoutAddress`
  names them, `LookupRight` excepts them, and a frame to one goes to the bytes that
  happen to be there. They are these:
  - `addNDPCacheEntry()` makes an incomplete entry of a host that sent data reachable
    without its link layer address (`Prefetched`);
  - a router that advertises itself without its link layer address gets an entry
    whose address is an uninitialized buffer (`Router_Advertisement.ah:53`);
  - an answer finds the incomplete entry for which a task is just waiting.
* An answer to a solicitation or an echo request should go to the link layer address
  of the frame it answers ("This uses Direct-Response",
  `AddressResolutionResponse.ah:27`), but the advice for this is woven into `ethernet_by_ipv%_address`, a method
  that does not exist. The answer is therefore looked up, and the receiving context may
  evict an entry, wait a second for an answer that only itself could receive, and
  drop its own (`Answer`).
* A lookup uses an entry that is Stale, although "do not use this entry for traffic"
  is said of them (`Interface_Expire_Slice.ah:48`). `LookupRight` asks only that the
  address is the right one, whatever the state.
* The advice of `NDPCacheExpire.ah:36` names a return type that `ndpcache_find()` does
  not have, so using an entry does not renew it.
* `Router_Advertisement.ah:90` continues its search where the last one ended, so the
  address of a known prefix is often made again; `freeNDPCacheEntry()` frees the
  prefixes of a router only if `isRouter` is set, which a router advertisement
  does not do.

6LoWPAN: the next header, hop limit and payload of the code's own packets are
looked for four bytes too far, the length loses its upper byte, and shortened
source addresses are not restored (`HcMisread`); the advices of `IPv6hc.ah` name a
class that does not exist, so the codec is not used.

Build system: a `depends` string that is not understood drops its node without an
error (an expected result of the third malformed tree), and the usage text allows
`-o ""` for standard output alone, which `main.cpp:149` refuses.

## 4. What is proved

Every theorem holds for all values of the constants that satisfy the named
assumptions of the modules. These say what the configuration or the code
guarantees and no more: an even number of sequence numbers and a stream shorter
than half of them, buffers and limits that are not 0, distinct nodes, finitely
many sockets, a port range that is not empty, `SIZE` of the address memory
between 2 and 254 since a position is a byte and 255 means none, a refresh
interval for which `expire_value` still fits a byte, and model values that differ.

`RingbufferProofs` (`BufferSizeAssumption`, `UnsetAssumption`):

* `RingType`, `SlotsNeverShared`, `PublishedPackets`: what `get()` returns was put, a
  null pointer included, as the receivers of UDP put when no block is free. Only
  where none is put, as in the queue of a TCP socket, does a null returned mean that the
  buffer is empty; this is `NullMeansEmpty`. The inductive invariant is
  `TypeOK /\ NoSlotShared /\ PublishedSlotsHoldPackets`. The argument: only `put`
  moves `inpos_` and only `get` moves `outpos_`, so the room `put` has seen can
  only grow and the data `get` has seen can only grow. `SuccValue` removes the
  modulo once; `PutAdvanceCounts` and `GetAdvanceCounts` say how the published
  slots change.
* `RingImplementsQueue`. `put` takes effect when it stores `inpos_`, `get` when it
  stores `outpos_`; every other step is a stutter of `PacketQueue`.

`MempoolProofs` (`MempoolAssumption`):

* `BlocksHaveOneOwner` and `HeadInBounds`, assuming `Exclusive`: every operation of
  the task is locked, or there are no interrupts. `OneOwner` speaks of the moments
  between two operations and is not inductive; `IInv` describes an operation
  under way by the head and the holders it began with (`HeadBefore`,
  `HoldersBefore`), of which `Partition` holds throughout. `RoomForHeld` is the
  pigeonhole argument that `free()` has room: if a block is in use, fewer than all
  are in the stack. The run `mempool_race` shows that the assumption is needed.

`ReceiveStreamProofs` (`StreamAssumption`, `ReceiveBufferAssumption`,
`SeqModAssumption`), for both receive buffers, every stream and every way to cut
it into segments:

* `StreamType`, `StreamOrder`, `StreamBytes`, `StreamBuffered`. `BufferInv` says
  that the first `recv_continuous` elements join on to the bytes that were read,
  that `recv_bytes` is their length and `read_firstSeqNum` the position in the
  stream. The wrapped comparisons of the code are comparisons of positions
  because everything lies within half of the sequence space.
* `StreamGoesOn`, `StreamRefused`, for peers whose segments do not overlap.
  `Ordered` is the part of the invariant they need: the elements are sorted, a gap
  separates the continuous ones from the rest, those of the rest are whole
  segments, and no segment of the peer reaches over the acknowledged position.
  Without the last two the segment that closes a gap might overlap a buffered one
  and be refused. `RefusedIsDuplicate` is itself part of the invariant: what was
  refused stays held or read.

`TCPConnectionProofs` (`SocketAssumption`, `ConnectionAssumption`,
`SeqModAssumption`), for any stream, window, history and network, with and without
the retransmission counter:

* `ConnectionType` and `ConnectionBlocks` (`BlocksConserved`): a block of the socket's
  mempool is free, or in exactly one of the packet buffer, the history and the
  receive buffer. Each method and each handler of the state machine has a lemma that it preserves `Holds(s, n)`, or what it takes and
  gives (`Bounded`, `Gained`); the error paths and `abort()` are among them.
* `CloseCompletes` (`CloseEndsClosed`), without the retransmission counter. `Leads`
  says which states a handler may leave for which; `Phase` ties the state of the
  socket to the call its task is in, and `Waits` says that the states in between
  are passed only while the call spins in `recv_loop()`.

`TCPStreamProofs` (the same assumptions), for any two streams, cut by any sequence
of calls, over a network that loses, repeats, delays and reorders segments of any
age:

* `ConnectionStream` (`StreamPrefix`), `ConnectionConfirms` (`WriteConfirmed`),
  `ConnectionEndsBehindStream` (`EndOfStream`) and `ConnectionSynchronised`
  (`SequenceSynchronised`), for an established connection with or without the
  retransmission counter (`EstablishedSpec`), and from the first SYN on without it
  (`Spec /\ ~RetransmissionCounter`; section 3 says what happens with it).
* `ConnectionFINAcked` (`FINAcked`), without the retransmission counter.

They rest on one inductive invariant, `GInv`. The properties themselves are far
from inductive: that an acknowledgement is right depends on the segments that the
peer has sent, on those of its history that it may send once more and on every copy
still in the network, and these in turn on what has been acknowledged.
`Local(n, s, e)` is the part of node `n`, with socket `s`:

* `Sending` places `seqnum_next` and `seqnum_unacked` behind the bytes handed to the
  interface and at or below what the peer may have acknowledged; `Tasks` ties the
  pending bytes and the flags to the call of the application;
* `Sent` describes every segment on its way or in the history: its bytes lie where
  the stream has them, its acknowledgement is one the socket may give, and **no
  other segment straddles its end**; `Uncut` says that nothing sent later straddles
  a position that was a boundary. This is the heart of the proof: the code splits
  the stream once and retransmits whole segments, so the positions that can be
  acknowledged (`Cuts`, `Ends`, `Acks`) are boundaries of all segments. `handleACK()`
  takes a record off the history only if its last number is acknowledged, and
  `insert()` drops the bytes of a segment that overlaps another; without the
  boundaries neither would be right;
* `Covered`: every byte that was handed over and is not acknowledged is in a record
  of the history, and so is the FIN. Hence the empty history that ends `write()`
  and leaves FINWAIT1 does mean that everything was acknowledged;
* `Receiving` is the invariant of the receive buffer (`Consistent`, shared with
  `ReceiveStreamProofs`) with elements that end at boundaries of the peer;
  `Finishing` says where the peer's FIN is;
* `Handshake`: the server is not through with the handshake before the client is.

The view `e` of the rest of the connection (`View`) holds only what the peer's
steps let grow: its stage, its boundaries, the acknowledgements it may give.
Therefore each method and handler is proved once for any view (`Moves`), and
`StepKeepsGInv` shows in one place that a step of a node takes nothing from what
the peer relies on. Before it was proved, TLC checked `GInv`, with finite sets in
place of `AnySocket`, on instances like those of section 3: from the handshake on
and from established connections, the latter with and without the retransmission
counter, with one and two bytes to write. Streams shorter than half of the
sequence space (`ConnectionAssumption`) keep old copies of a segment from being
taken for new ones; the code relies on the same through the lifetime of packets.

`UDPSocketsProofs` (`SocketsAssumption`, `NilAssumption`):

* `SocketsBoundOnce`, for any sequence of `bind()`, `unbind()` and `set_sport()`, of
  sockets that are bound too, without the two orders that section 3 names; a socket
  whose port was changed while it was bound (`moved`) is listed like the others and
  makes no claim to its new port. `Chain(L)` says that some sequence `L` without
  repetition is what the `next` pointers spell out from `head`, and that it holds exactly the
  bound sockets. The walks of `Demux` are then functions of `L` (`ListedIs`), and
  the search for a free port ends at one that no other socket has.
* `SocketsType`, `SocketsAccounted`, `SocketsCast`: the mempool, the receive queue and
  the buffer the task uses share out the blocks (`Accounts`), less those that a
  full queue has lost. `MemInv` adds what the blocks in the queue hold (`Carries`):
  whatever lay behind the payload, `CarriesIdentifies` computes from the layout of
  the buffer that the cast to its own version succeeds and gives the sender. That
  the block is still the one that was filled is the other half, `Accounts`.

`NeighbourCacheProofs` (`CacheAssumption`, `SlotsAssumption`), for any number of
hosts, entries and options:

* `CacheType`, `CacheStatic`, `CacheConfirmed`, `CacheLookup`. `Good(m)` describes the
  memory alone: no host has two entries, an entry has its host's address or none,
  a reachable one has one, and the first two positions are the configured router
  and the own address. `Follows(m, n)` is what every handler of messages may do to
  it: an entry that is `Solid` (reachable, with its address, of importance 50 at
  least) is kept, and only routers get entries without an address. It is
  transitive, so each method needs one lemma, and the actions compose them.
  `Known` adds how much importance a confirmed neighbour has left after each
  refresh, `Fine` who may be without an address, and `Waits` that the task's pointer
  is never one of the first two positions, which is why giving up frees neither.
  `CacheLookup` speaks of each lookup in the state it is made in, also of those
  between two changes that one message causes: `Handled` carries what is known of
  the entries through answers and learning in either order, and `AnswerFollows`
  shows that the lookup of an answer leaves no entry of its own behind. `EntryRight` then
  gives the address of the entry found; the exceptions are those of section 3.
  `BitOrIs` shows that or-ing an importance never lowers `expire_value`. The loop
  over the prefixes is proved for any number of rounds (`LoopIs`).
* `CacheMessages`. `Listing` says that the list of allocated buffers is injective,
  disjoint from the mempool and complete; `ListHasRoom` is the pigeonhole argument
  that `insert()` always finds a place.

Induction over data is done on sets: each module that needs it proves the least
number principle from the well-founded induction theorems and from it induction on
an interval and the existence of recursively defined functions
(`Recursion`). That is how `Remaining`, `FlattenSeq`, `Listed`, `Candidates`
and the loops are reasoned about.

Only model-checked:

* liveness (`EveryPacketFetched`, `WriteReturns`, `QueuedReceived`), which is outside of
  what TLAPS proves;
* `Datagrams` and `FileSelection`: bit operations and recursive operators, which
  the prover does not take;
* the examples of codecs among the assumptions of `MCDatagrams`.

## 5. Plan

1. Done: ring buffer, mempool, receive buffers, TCP socket, state machine and
   connection; UDP sockets with events; addresses, headers, routes and send
   buffers; the 6LoWPAN codec; neighbour cache and management memory; the tool
   that selects the files of a build.
2. Done: every safety invariant of the ring buffer, the mempool, the receive stream,
   UDP, the neighbour cache and the TCP connection that a run checks is a theorem.
   What is left to the runs is listed at the end of section 4.
3. Models that would add most: the TCP lists of `Demux` with several peers, the
   linked list of `tcp_history` as an implementation of the sequence in
   `TCPSocket`, reassembly of IPv4 fragments, the ARP cache, duplicate address
   detection.

## 6. Not modelled

* ARP, ICMPv4, reassembly, extension headers, the destination cache, duplicate
  address detection, prefix expiry, redirects, multicast listeners, interface
  up and down, raw sockets and forwarding.
* The RTT, congestion and silly window aspects, MSS negotiation, TCP over IPv6
  (the same socket code), socket reuse after `close()`.
* The doubly linked list inside `tcp_history`, the TCP lists of `Demux`.
* The 6LoWPAN aspects that shorten addresses, the C interface, the drivers, most
  example applications, debug output; `picojson.h` is third-party code.

`PROJECT.json` lists every component with its status.
