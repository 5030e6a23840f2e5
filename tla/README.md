# A TLA+ model of OpenNfsC

OpenNfsC is a C++ client library for NFS versions 3 and 4.  Threads of an
application call an API handle; the handle makes RPCs on connections shared by
all threads; one *connection manager* thread per process owns every socket's
events, sends the queued packets and hands the replies to the calls that wait
for them.  This directory models that program, checks the models with TLC and
proves theorems about them with TLAPS.

## 1. Inventory

| Component | State it keeps | Operations | What makes it correct |
|---|---|---|---|
| RPC channel: `RpcConnection.cpp`, `Responder.cpp`, `RpcCall.cpp` | `m_nextXid`, the table xid -> `Responder*` (`m_xidTable`), the semaphore `m_concurrency`; per Responder `m_done`, `m_wait`, `m_response` and a condition variable | `createRequest`, `sendAndWait`, `matchPendingRequest`, `cleanup`, `waitForResponse`, `signalReady` | a reply reaches the call it answers and no other; no call sleeps through its signal; every call returns; permits come back |
| Connections: `BasicConnection.cpp` | socket, connect state, pending write queue, each packet's write index, the read state | `nonblockConnect`, `writePacket`, `sendPacket`, `recvNbyte`, `disconnect` | packets leave whole and in order; a packet queued on a live connection is sent |
| Connection manager: `ConnectionMgr.cpp` | control message list, control socket pair, epoll set, map socket -> connection | `addConnection`, `removeConnection`, `writeConnection`, `run` (`processControlMsg`, `processProtocolMsg`), `startMgr`, `stopMgr` | map, epoll set and connections agree even when the kernel reuses a descriptor; no control message is forgotten |
| Record marking: `recvTCPPacket`, `Fragment`, `ReadState` | the fragment and the short read in progress | `recvTCPPacket`, `closeConnection` | the byte stream is cut where the server cut it, however reads fall |
| Packets: `ByteBuffer.h`, `Packet.h`, `RpcPacket.cpp` | a growing buffer, read and write index | `append`, `read`, `write`, `resize`, XDR encoding and decoding | indices stay inside the buffer |
| RPC programs: `Portmap.cpp`, `MountCall.cpp`, `NlmCall.cpp`, `NfsCall.cpp`, `Nfs4Call.cpp` | arguments and results of one call | encode, decode | what is decoded is what was encoded |
| Connection group: `NfsConnectionGroup.cpp` | the pool of groups, the ports of each service, a connection per service, the NFSv4 client id and open-owner seqid, the keep-alive thread | `create`, `initNfs`, `updateRpcPorts`, `ensureConnection`, `removeFromPool`, `do_keepAlive` | one usable group per server; a dead connection is replaced; the lease is renewed |
| NFSv4 API: `Nfs4ApiHandle.cpp` | open and lock stateids in the file handles | `connect`, `open`, `create`, `close`, `lock`, `unlock`, `read`, `write`, `readDir`, ... | the seqid stays in step with the server; every file opened can be closed |
| NFSv3 API: `Nfs3ApiHandle.cpp` | the file handles | the same operations, several of them made of more than one RPC | an operation that fails half way leaves nothing half done |
| Threads and pointers: `Thread.cpp`, `SmartPtr.h` | mutex, condition variable, semaphore, reference counts | wrappers of pthreads | as pthreads |

How they interact:

* An application thread calls an API handle, which builds a call (`RemoteCall`)
  and runs `RpcConnection::sendAndWait` on a connection of the group.
* `sendAndWait` takes a permit, registers a Responder under the request's xid,
  appends the packet to the connection's queue, posts `WRITE_SKT` to the
  manager's list, wakes it with a byte on the control socket, and blocks.
* The manager thread sends, receives, looks the xid up and signals the Responder;
  when a socket fails it closes the connection and signals all of them.
* Shared state: the xid table (`m_xidTableLock`), a Responder (`m_condMutex`), the
  queue (`m_pendingWriteLock`), a connection's socket and state
  (`m_connMutexLock`), the message list (`m_msgListLock`), the map (`m_mutex`).
  What is read under one of these locks is often used after it was dropped.

The hard behaviours are those interleavings; time-outs against late replies;
retransmission over UDP; connections that close while threads write to them;
descriptors the kernel gives out again; short reads and sends; and, above the
channel, operations made of several RPCs of which a later one fails.
`PROJECT.json` lists them under `hazards`, each at its line.

## 2. Plan

The order was that of the weight of the code; all of it but the last two is done.

1. **RpcChannel** with the abstract **RpcService**: the calls, the table, the
   Responders; checked, its invariants and that it implements RpcService proved in
   **RpcChannel_proofs**.
2. **ConnManager**: connections, queues, control messages, map and epoll, the
   detail behind the two sets of packets in flight of RpcChannel; checked, and its
   invariants proved in **ConnManager_proofs** and **ConnServed_proofs**.
3. **RecordMark**: TCP reassembly and the buffer it fills, with the abstract
   **ReplyStream**; checked, and proved, the refinement included, in **RecordMark_proofs**.
4. **OpenOwner**: the NFSv4 operations with a seqid; checked, and proved in
   **OpenOwner_proofs**.
5. **ConnGroup**: the pool, service discovery through the port mapper, the
   replacement of dead connections, the keepalive thread; checked, and its
   invariants proved in **ConnGroup_proofs**.
6. **RpcWire** over **XdrItem**, **XdrLayout**, **Nfs4Xdr**, **Nfs3Xdr**, **Fattr4**, **Nfs4Call**,
   **Nfs3Call**, **RpcMessage**, **ApiCall**, **Nfs4Api**, **Nfs3Api**: what each call of
   the API writes, reads and reports; checked, and the reading of flat messages proved in
   **XdrItem_proofs**.
7. Left: the sums of `ByteBuffer`'s index arithmetic that wrap at 2^32.
8. Left: what the NFSv3 operations of several procedures leave behind when one fails, the
   loops over paths and directories, start and stop of the manager thread.

## 3. Modules

### RpcChannel, RpcService, MCRpcChannel, RpcChannel_proofs

One connection.  Each caller has a position `pc` and the locals of
`doSendAndWait`; one action is one critical section of `m_xidTableLock` or of a
Responder's `m_condMutex`, so the interleavings are those the locks allow:

| Action | Code |
|---|---|
| `CreateRequest` | `RemoteCall::call`, `createRequest`, `getNextXid` |
| `Acquire`, `Return` | `SemaphoreGuard` around `doSendAndWait`, `delete responder` |
| `Register` | `findPendingRequest`, `new Responder`, `addPendingRequest` |
| `Write`, `WriteFails`, `NextAttempt` | `writePacket` and the attempt loop |
| `BeginWait`, `Wake`, `ReadReply` | `Responder::waitForResponse`, `getReply` |
| `RemovePending` | `removePendingRequest` |
| `Receive`, `SignalReady` | `recvPacket`, `matchPendingRequest`, `signalReady` |
| `Close`, `Cleanup`, `SignalReady` | `closeConnection`, `cleanup` |

The Responders live in a `heap` of addresses: the allocator may give the address of
a deleted Responder to a new one, and `SignalReady` writes through whatever pointer
the manager copied, which is what the code does.  The history variable `dangled`
records that this happened.  The wire is two sets of xids, because ConnManager and
RecordMark have its detail.  `RpcService` says the same from outside: a call takes a
new xid and ends with the reply to it or with none.

### ConnManager, MCConnManager, ConnManager_proofs, ConnServed_proofs

The manager thread and the sockets.  Threads create, write to and clear
connections; `PostMessage` and `SendByte` are the two halves of `sendControlMsg`;
`EpollWait` takes a batch of events and `HandleEvent` handles them one by one, by
descriptor, while other descriptors of the batch may be closed and given out
again; `SendPacket`, `SendSome`, `SendWouldBlock`, `SendError`, `SendDone` are the
loop of `sendPacket` and what its two callers do with its outcome.  A packet is
sent in units (`Size`), so that a send can be partial.  `cut` and `torn` record
what went out on a socket.

### RecordMark, ReplyStream, MCRecordMark, RecordMark_proofs

A stream is a sequence of fragments, and a byte is its position in the stream, so
the model knows which byte ended up where.  `RecvHeader` and `RecvData` take any
number of the bytes that have arrived.  A fragment of length 0 makes `recv` return
0, which the code reads as the end of the connection (`RecvEnd`).  A complete reply whose
header `decodeHeader` cannot read is dropped and the connection closed (`RecvGarbled`).
Between two events the manager may close the connection for a reason of its own
(`Drop`).  `capacity` is what the packet's buffer has room for: `RecvHeader` appends the
fragment's length to it, for which `Buffer::resize` doubles the buffer, or makes it twice as
large as needed if doubling is not enough, with sums of `IndexRange` values.

`ReplyStream` is what is left when one looks at none of this: the replies the server
sends, delivered one by one in order until the connection is closed and another is made.
In the refinement `sent` is the stream's replies and `up` that the connection is
not closed; all reads but the one that completes a reply are stutters.

### OpenOwner, MCOpenOwner, OpenOwner_proofs

The NFSv4 operations that carry the seqid of the group's one open owner: `create`,
both forms of `open`, `truncate` by path, `close` and `lock`.  A thread waits for
`m_file_op_seqid_mutex` (`Enter`), sends its compound with the seqid it read there
(`Send`), and judges the reply: `Failed` for a status other than NFS4_OK, with the
two classes of RFC 7530, 9.1.7, `Undecoded`, `Confirm` (OPEN_CONFIRM under the same
mutex), `Opened`, `Closed`, `Locked`; `CallFails` is a call that returns an error.
`SetAttr` is the step of `truncate` between its open and its close.  The calls are
those of RpcChannel, seen as RpcService sees them: a reply, or none.

The server is external.  It fails a compound before, at or after its seqid
operation, rejects the RPC, repeats the last reply for the last seqid or answers
NFS4ERR_BAD_SEQID, and drops unconfirmed opens.  `drifted` records that one side
advanced and the other did not, `leaked` that a call which failed left its file open
at the server; the properties say that nothing else does either.

### ConnGroup, MCConnGroup, ConnGroup_proofs

The groups of connections, one per server in the pool and others made by
`forceCreate`.  The actors are the threads of the program and the keepalive thread of
each group of NFSv4, which has the group's name.  A group is created, found, shared,
updated, called through, taken out of the pool and destroyed when the last reference
goes; its memory is then free for another.

| Action | Code |
|---|---|
| `Call`, `Get`, `Copy`, `Return` | `RemoteCall::call`: `ensureConnection`, `getNfsConnection`, `sendAndWait` |
| `Enter` ... `Ensured`, `DumpFails` | `ensureConnection` and `initNfs` under `m_connMutex`, whose statements are the same |
| `KeepPortMapper`, `ClearPortMapper`, `NeedPortMapper`, `CreatePortMapper` | `ensurePortMapperConnection` |
| `UpdateRpcPorts` | `updateRpcPorts`, the DUMP call and its answer |
| `KeepService`, `ClearService`, `SkipService`, `NeedService`, `CreateService` | `initRpcService` |
| `Create`, `Find`, `ForceCreate`, `Add`, `RemoveFromPool`, `Fini`, `TakeOut`, `FiniEnds` | the functions of those names, under `serverTableMutex` |
| `Continue` | `connect` after `initNfs`: for NFSv4 the NULL call and the compounds of the client id |
| `Renew`, `KeepAliveEnds` | `do_keepAlive` |
| `Drop`, `Destroy` | `SmartPtr::p_release`, `~NfsConnectionGroup` |
| `Manage` | the manager's DEL_SKT, after which a connection lives as long as calls count themselves in |

`Get` and `Copy` are two steps because `SmartPtr` reads the pointer before it counts
itself in and no mutex is held: `swapped` records that the slot was cleared between
them.  `reported` records the ports the server gave since a call began, `trouble`
how many faults there were.  How a call fares on its connection is left to RpcChannel:
it returns with a reply only if the connection could bring one.

### RpcWire and the modules under it

A message is a sequence of 32-bit words and a layout says how they are written or
read in order.  `XdrItem` has the items and RpcPacket's reads and writes of those that are
flat (numbers, strings, opaque data, bitmaps), `XdrLayout` the unions, lists and lists of
attributes.  There are two layouts of everything: the declared one, from
the headers in `include/nfsrpc` (`Nfs4Xdr`, `Nfs3Xdr`), which the server goes by, and the one
that follows the hand-written coders call by call (`Nfs4Call`, `Nfs3Call`, `Fattr4` for
the attributes, `RpcMessage` for the headers).  `Nfs4Api` and `Nfs3Api` say for each
function of the API handles which operations it sends, what it insists on finding, what it
hands out and what it examines (`ApiCall`).  `RpcWire` is one call: `Call` writes
the request, the server reads it (`Hear`), carries it out up to the first operation that
fails and answers (`Serve`), or refuses, denies or loses it; `DecodeHeader`, `DecodeFrame`,
`DecodeResult` read the reply and `Answer` and `Return` judge it.  Data words are tokens
that name their place, so that data read from the wrong place, or taken for a number, shows.
Where a coder changes a value, so does its layout: READDIR and READDIRPLUS ask for at most
32768 bytes (`Capped`), and READDIR's eof is stored inverted (`Negated`); the properties
say what the server is asked and what is stored with the names `Asked` and `AsStored`.

## 4. Runs

| Run | Shows |
|---|---|
| `chan_faults` | with every fault: types, `TableIsSound`, `NoStrandedCaller`, `MixupOnlyByDangling`, every permit is free or with a call (`PermitsAreKept`), a delivered reply is kept until it is read but for the signals named (`DeliveredReplyIsKept`), and every call returns |
| `chan_service` | with no faults: RpcChannel implements RpcService; every call is answered |
| `chan_mixup` | *violation*: a call is given the reply to another (`ReplyIsForRequest`) |
| `conn_reuse` | two connections, two descriptors, UDP: map, epoll and connections agree |
| `conn_stream` | TCP, partial sends, closes, reconnects: types, no message is forgotten, nothing torn |
| `conn_served` | no wake-up is lost where connect takes its time and nothing closes |
| `conn_reconnect` | *violation*: a reconnected socket is not managed |
| `record` | every split of every small stream is reassembled, whatever ends the connection: RecordMark implements ReplyStream, the reader is aligned, the buffer holds what is read, every reply is delivered |
| `owner_faults` | with every fault: the seqid stays in step but for the named exceptions, requests are in order, no handle is another file's, no file is lost, or closed but by its holder, every call returns |
| `group` | calls go out on living connections to current ports, none is leaked, no group is shared or destroyed while it is in use, and every operation returns |
| `wire` | each of 74 calls: request and reply are read as they were written, but for the caps and the inverted eof of section 6, success is reported exactly for what was done, what is handed out is the server's |
| `wire_denied` | *violation*: a denied compound ends in RPC_SUCCESS with no result received |

**Bounds.**  RpcChannel: two callers and two addresses are enough for the dangling
pointer to meet a newer call, three xids for a call after it; `UdpRetries` is 2 in
place of 6, which is one retransmission; `chan_service` has three callers and two
permits so that one must wait for a permit.  ConnManager: two threads for the races
of writers and of their messages, one thread, two connections and two descriptors for reuse, three packets for a
queue with a part-sent front, two units to a TCP packet and one to a datagram, two writes of a UDP
packet.  RecordMark: a header of two bytes can be cut in one place, a fragment of
two bytes too; two fragments give one reply of two fragments, two replies, and a
last fragment that is missing; indices have eight values, so that the buffer grows
by each of the two rules and the condition that a size is below half of them bites at four bytes.
OpenOwner: two threads,
two files and three operations, the least with which a seqid can overtake another and a reply of
one OPEN be repeated for the next.  ConnGroup: two threads and the keepalive thread share
one group, which is made, destroyed and made again without end; one program, whose port is
there or is 0; three connections, which are the two of the group and one that is still in
use after its slot was cleared; and one fault, wherever it may fall.  `MaxFaults` is in the
guards; its proofs have no such bound.  RpcWire: lengths of 4 and 5 bytes, one of which
needs padding, lists of no or two entries, paths of up to two components, servers
with all attributes, without lists of access control or without owners; the 74 calls have 71
distinct initial states, and one asks for more than the cap on a directory's bytes.  All these bounds are CONSTANTS; none is in the
actions but `MaxXid`, `MaxWrites`, `MaxSends`, `MaxFrags`, `MaxConns`, `MaxOps` and
`MaxFaults`, which stop the model from issuing more work or more faults.  That is why the
bounded systems stop in the end and their configurations set `CHECK_DEADLOCK FALSE`;
OpenOwner has `Done` instead and ConnGroup goes on for ever, so that a mutex never
released would be a deadlock.

**Fairness.**  RpcChannel: a caller inside a call keeps running (a wait is timed,
`Thread::ConditionVar::waitAbs`), the manager thread serves what is pending, the
server answers what reaches it.  Weak fairness of `InCall(c)` covers the semaphore
because only `MaxXid` calls are ever made, so a permit is free for good in the end;
no stronger fairness of the semaphore is assumed.  Losses, closes, duplicates and
new calls are never forced.  In `chan_service` no time-out occurs, so a caller that is
woken is woken by a signal.  ConnManager: threads inside `writePacket`, the manager thread,
the kernel's answer to a connect and the draining of a socket buffer.  RecordMark:
the server's bytes arrive and the manager reads.  OpenOwner: the
server serves, and a call ends by its reply or its time-out; the mutex need not be
fair, for the same reason as the semaphore.  ConnGroup: what an actor has begun goes on, the
manager handles DEL_SKT, and `m_connMutex` does not pass one actor over for ever while others
make call after call: this is strong fairness of `Enter`, which pthreads do not promise
but their schedulers give.  New operations and faults are never forced.

## 5. Proofs

Every safety property that the runs check of RpcChannel, ConnManager, RecordMark,
OpenOwner and ConnGroup is proved, and the refinements of RpcService and ReplyStream; of
the messages, that the flat ones are read as they are written.

`RpcChannel_proofs` proves, for every set of callers and addresses, every number of
permits and retries and every subset of the faults:

* `TypeCorrect`, `TableCorrect` (`TableIsSound`), `HandshakeCorrect`
  (`NoStrandedCaller`), `MixupCorrect` (`MixupOnlyByDangling`), all from
* `Invariance`: `Spec => []IndInv`.

The assumptions are `ChannelAssumption`.  None of the four is inductive by itself.
`TableIsSound` needs that a call's xid and Responder are its own
(`XidsAreUnique`, `RespondersAreOwned`): without them the entry of one call could be
erased, or its Responder freed, by another.  `NoStrandedCaller` needs the
`Handshake` at every position of the attempt loop, not only where the caller blocks:
before it blocks, `m_done` may carry the signal; after, `notified` does.
`MixupOnlyByDangling` needs `OwnReplies`: until the first dangling signal the
Responder a call owns holds its own reply or none, and so does what the manager is about to
write.  The proof that a step keeps `IndInv` has a lemma for each action.

It proves too, for the same parameters:

* `PermitsKept` (`PermitsAreKept`): the free permits and the callers that hold one make up
  the semaphore's count, which `Acquire` and `Return` trade one for one.  The invariant adds
  that the holders are finitely many.  As whoever has a request in the table holds a permit,
  `PendingBounded` follows: no more requests pend than there are permits.
* `ServiceImplemented`: RpcChannel implements `ServiceSpec`, assuming `Reliable`: no
  time-outs, no duplicates and no closes among the faults.  Each of these lets a call end
  without the reply that was coming, or with another's.  The proof turns on `Orderly`:
  what is under way for an xid, its request, its reply or the pointer the manager copied,
  is in one place only and belongs to a call that still waits for it; and a Responder that
  is done holds a reply.
* `RepliesAreKept` (`DeliveredReplyIsKept`, an action property), whatever fails.
  `waitForResponse` clears `m_response` only when it finds `m_done` not set, so a time-out
  and a retry take no reply back; by `IndInv` nobody else writes to a caller's Responder but
  the manager, and of its signals the property names the two that replace a reply: a close's,
  and one that was meant for another call.

`ConnManager_proofs` proves, for every set of connections, threads and descriptors, for UDP
and TCP, any faults and any bounds (`ConnAssumption`):

* `TypeCorrect`, `MapIsAlwaysSound` (`MapIsSound`), `NoMessageIsForgotten`
  (`NoMessageForgotten`), `PacketsAreWhole` (`NothingTorn`).

`MapIsSound` is kept by the kernel giving a closed descriptor out again only because of
`MessagesFit`, that the ADD_SKT of a connection comes before every other message about it
and that it comes once; `UnaddedFit`, that until the manager has handled it the connection
has the socket it was made with; and `SocketsFit`, that no two connections have one
socket.  `NothingTorn` needs `PacketsFit` and `CutsFit`: a packet is with one thread or in
one queue, only the first of a queue is part-sent, and what has been sent of it was sent on the
socket the connection has now.

`ConnServed_proofs` proves `QueuesAreServed` (`QueueIsServed`) from the invariant of
ConnManager and `QInv`, assuming `Quiet`: TCP, and no fault but full socket buffers.
This is the environment of the run `conn_served`.  Outside it the code does leave packets
behind (section 6), so the assumption is not one the proof could do without.  Only the
first packet of a queue notifies the manager; that the others need not is `Served`: whoever
has found a queue empty and has not yet notified, a message in the list, the interest of the
socket in being writable, or the manager at work on the connection stands for the queue.

`RecordMark_proofs` proves, for every set of replies, every cutting of them into fragments and
of fragments into reads, any length of the header, and connections that end at any point:

* `TypeCorrect`, `RepliesAreWhole` (`DeliveredIsSent`: what is delivered is a prefix of what
  was sent), `ReaderAligned` (`ReaderIsAligned`), `BufferHolds` (`FragmentFits`) and
  `StreamRefinement` (`StreamSpec`), all from
* `IInvAlways`: where the reader is in the stream, in the header after c fragments
  (`InHeader(c)`) or in the data of fragment i (`InData(i)`), determines what the
  packet being assembled holds, what has been delivered and how many bytes of the
  fragment are left.  `DeliveredIsSent` alone says nothing of a packet half assembled,
  nor `ReaderIsAligned` of what it holds.

`FragmentFits` is shown by a second induction, on top of `IInv`: `resize` gives a capacity of
at least the size asked for as long as twice that size is an index (`ResizeHolds`), and the
bytes that `RecvData` adds were counted when the header was decoded.  From half the index range
on, 2^31 bytes, `2 * newSize` wraps and the code allocates less than it needs; the
property says nothing there.  `StreamRefinement` says what `DeliveredIsSent` does not: a
delivery adds one reply, the next, and none is taken back or delivered after the close.  It
needs of `IInv` that the packet handed over is the reply which the last fragment completes.

What the server sent is defined by recursive functions over the fragments (`End`, `Count`,
`Bytes`), and the proof is an induction over them.  The induction theorems of the
library cannot be used here, for they take a predicate as a parameter, so `NatRecursion` does
it with sets: `SetInduction` from the least element of a set of numbers, and `Recursion`, that
a function with given steps exists.  `EndRecursion`, `CountRecursion` and `BytesRecursion`
are the three recursions; the lemmas about them say that fragments do not overlap, that a
reply gets no byte before its first fragment or after its last, and that reads one after
the other join.

`OpenOwner_proofs` proves, for every set of threads and files, any number of operations and
any faults (`OwnerAssumption`):

* `TypeCorrect`, `SeqidStaysInStep` (`SeqidInStep`), `RequestsAreInOrder`
  (`SeqidsAreOrdered`), `HandlesAreRight` (`RightFile`), `OpensAreNotLost`
  (`EveryOpenIsHeld`), and `OpensEndByTheirClose` (`OpensEndByClose`, an action property).

The strengthening says what a thread has at each position (`ThreadsFit`), that a request
on its way is the compound of the one thread that waits for it or nobody's (`RequestsFit`),
and what every reply, the one the server keeps to repeat included, says of the server
(`RepliesFit`).  `SeqidFits` and `FilesFit` then hold until `drifted`: during a
compound the server expects the client's seqid or the next, according to the reply; and
the reply, if there is one, is about the file that was asked for.  A request of an earlier call that is
still on its way does no harm because its seqid is below the client's (`SeqidsAreOrdered`).
`OpensEndByClose` turns on the one place where the server drops opens that nobody closed: an OPEN
by an owner it has not confirmed.  By `RepliesFit` no thread has an open handle then, and by the
mutex none but the one that opens has an operation under way, so what is dropped was leaked.

`ConnGroup_proofs` proves, for every set of threads, groups, connections, servers and
ports, any of the program's uses and any faults, from `GroupAssumption` (threads and
servers are finite sets):

* `TypeCorrect`, `CallsGoToFreshPorts` (`PortIsFresh`), `UsedConnectionsLive`
  (`UsedIsAlive`), `ConnectionsAreOwned` (`EveryConnectionIsOwned`), `UnpooledIsUnshared`
  (`OutOfPoolIsUnshared`), `DestroyedGroupsAreQuiet` (`DestroyedIsQuiet`), all from
* `IInvAlways`: `Spec => []IInv`; and
* `UndisturbedCallsAreUncut` (`UndisturbedIsUncut`), from `IInv` and `Undisturbed`.

`PortIsFresh` is the one that needs most.  When a call reads its slot it has left the
mutex, so `PortIsKnown` says at every position what it may count on: under the mutex, that the
services it has been through are at the group's ports (nobody else has the mutex of
that group: `MutexIsHeld`); after it, that whoever fills the slot meanwhile does so at a
port which every call under way has been told.  `UseIsSound` carries this to the object:
between `Get` and `Copy` the slot still holds it, or the clearing was noticed in
`swapped`; from then on it is counted, and neither the manager nor the last call to leave
destroys it.  `SlotsAreSound` keeps a connection in one slot only, for which the maker
must find its slot empty (`MakersAreReady`).  The destructor needs `DestroyersAreAlone`,
which follows from the count being 1 when it begins.  The proof has a lemma for the actor's own
step, one for another's step under or beside the mutex, and one for the pool.

`Undisturbed` says what holds as long as there was no fault: the connections in slots are up
and at the ports the group knows, which are the portmapper's, so that only
`bForceRecreate` clears one.  An actor sets it when it finds the group without a portmapper
connection; and while there is none, no call of that group is beyond `ensureConnection`
(`PortMapperStands`), nor can one get there while the actor that forces has the mutex
(`ForceIsAlone`).

`XdrItem_proofs` proves, for every layout of flat items, all values, any place in a message and
any size received:

* `ItemIsReadBack` and `LayoutIsReadBack`: the values that `EncodeFlat` writes are those that
  `ReadFlat` reads, one after the other, and the reader ends behind the last word, padding
  included.  Strings without padding (`raw`) are read back only if their length is a
  multiple of four, which `Fits` asks for.
* `CallHeaderIsRead`: so the header of `encodeHeader`, for every xid and procedure and whatever
  arguments follow it.
* `CutLayoutIsRefused`: if what has been received ends before the last word does, the read
  index stays within it and some read is refused, after which nothing is read.

A layout is read by recursion over its items, so the proofs are inductions by `NatRecursion`:
up to the item in question the reader is `At` the words of the items before it
(`ItemsAreThere`); for a message that is cut short, the least item that does not fit
is refused and the reader stays as it is.  What a length word says is trusted only if it was
itself received, and then it is the writer's (`CutLength`).  The theorems are about
the operators RpcWire uses to write requests and read replies; sizes are natural
numbers, so the wrap of `offset + len` in `Buffer::read` is not in them.

Model-checked only: the liveness properties (`EveryCallReturns`, `EveryCallIsAnswered`,
`EveryPacketIsSent`, `EveryReplyIsDelivered`, `EveryOperationReturns`), because the provers do
not reason about fairness and ENABLED; and the five invariants of RpcWire.  Its layouts are
trees, which `XdrLayout` writes and reads with mutually RECURSIVE operators, and tlapm cannot
reason about those: what is proved of messages ends where a union, a list or a list of attributes
begins.

## 6. Disagreements found

* A late reply can be delivered to another call (`chan_mixup`):
  `matchPendingRequest` uses a raw pointer after dropping the lock.
* A reconnected socket is never given to the connection manager
  (`conn_reconnect`), against the comment at `BasicConnection.h:87`.
* A reply that denies the message is taken for success without results
  (`wire_denied`), against the comment at `Nfs4Call.cpp:1702`.

Four more show as exceptions that a property names, or as an assumption of a run:

* Where connect succeeds at once, before the manager has the socket in its map, a packet
  can stay in its queue for good: the notification is dropped, and only the first packet of
  a queue notifies.  `conn_served` assumes that connect takes its time.
* The seqid is incremented for a compound that failed before the operation with the
  seqid, against the comment at `Nfs4ApiHandle.cpp:774`; and a call that timed out after the
  server executed it leaves the seqid behind, so that the next OPEN may be answered with the
  repeated reply, and the file handle, of the one before (`SeqidInStep`, `RightFile`).
* `getNfsConnection` may copy a pointer to a connection that is being deleted
  (`UsedIsAlive`, `swapped`).
* READDIR's decoder stores `listEOF == 0` as its eof (`NfsCall.cpp:805`), the opposite of what
  the server sent and of what READDIRPLUS's stores (914).  `ResultsAreSent` names it
  (`AsStored`).  No function of the API makes the call: its directories are read by
  READDIRPLUS.

Two caps are deliberate and the properties allow for them (`Asked`): the count of READDIR
(`NfsCall.cpp:742`) and the maxcount of READDIRPLUS (845) go out as 32768 if they are more.

Met while reading, and not in the models: `Nfs4ApiHandle::symlink` encodes neither the
link's data nor the mask it builds (2731); the V4 times are always set to the client's;
mkdir of NFSv3 looks at a result never filled in (`Nfs3ApiHandle.cpp:990`); rmdir by path
returns true whatever the removal did (1069-1074).

## 7. Not modelled

What the models merge or leave out inside the parts they do have:

* `Buffer::read` is bounded by the buffer's capacity (`ByteBuffer.h:144`), RpcWire's reader
  and the theorem `CutLayoutIsRefused` by what was received.  For UDP and for a TCP reply in
  one fragment the two are the same, since the packet is made of that size
  (`RpcConnection.cpp:282`, 320).  A reply of several fragments can have room to spare
  (`ByteBuffer.h:114`), and one that is too short may then be read on into stale bytes
  instead of being refused.
* `sendPacket`'s clearing of the queue and its caller's removal of the connection from the map
  are one step (`SendFails`); the close is another.
* A packet queued just after its connection was closed stays in the queue until its call
  times out, and a UDP packet that is queued twice is sent with length 0 the second time.
  ConnManager does both; its properties do not judge them.
* One group is in the run `group`.  That a group no longer in the pool may take another's entry
  out, by address, is covered by the theorem `UnpooledIsUnshared` alone.

Not modelled at all:

start and stop of the manager thread; the wrap of xids and seqids at 2^32; the sums of
the buffers' index arithmetic that wrap, the exact bounds of `Buffer::write`, and a failing
realloc; the outcome codes of a failed call of RpcChannel; the operations
made of several NFSv3 procedures as a whole, and the loops over paths and directories; the
V4 symlink, and SECINFO, VERIFY and CREATE of links and devices, whose arguments are not
encoded; PATHCONF, which has no code; what the server makes of client ids; `unlock` and lock
stateids in OpenOwner; the choice of the transport of a group; printing, logging and the
conversions of times, modes and owners; the example clients.
