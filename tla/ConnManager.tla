---------------------------- MODULE ConnManager ----------------------------
(***************************************************************************)
(* The connection manager and the sockets it looks after: the threads that *)
(* create, clear and write to connections, the control messages they post  *)
(* to the manager thread, its map from sockets to connections, what it     *)
(* asks epoll for, and the pending write queue of each connection          *)
(* (src/src/ConnectionMgr.cpp, src/src/BasicConnection.cpp).               *)
(*                                                                         *)
(* A step is one critical section of m_connMutexLock, m_pendingWriteLock,  *)
(* m_msgListLock or the map's m_mutex.  Replies are left to RpcChannel and *)
(* RecordMark: of what epoll reports, only "writable" and "ended" remain.  *)
(***************************************************************************)
EXTENDS Integers, Sequences

CONSTANTS
  Conns,      \* connection objects
  Threads,    \* threads that use them
  Fds,        \* descriptors the kernel may give a socket
  None,       \* no connection, no socket, no packet
  Udp,        \* TRUE for TRANSP_UDP, FALSE for TRANSP_TCP
  MaxWrites,  \* bound: how many packets are written in all
  MaxSends,   \* bound: how often one UDP packet is written
  Faults      \* what the environment may do, a subset of FaultKinds

FaultKinds ==
  { "instant",  \* connect succeeds at once over TCP too
    "connect",  \* connect fails at once
    "close",    \* the peer ends or resets the connection
    "busy",     \* a send fills the socket's buffer
    "clear" }   \* RpcConnection::clear gives a connection up

ASSUME ConnAssumption ==
  /\ None \notin Conns \cup Fds \cup Nat
  /\ Udp \in BOOLEAN
  /\ MaxWrites \in Nat /\ MaxSends \in Nat
  /\ Faults \subseteq FaultKinds

Packets == 1..MaxWrites
Size == IF Udp THEN 1 ELSE 2   \* units a packet is sent in; a datagram is whole
Actions == {"ADD_SKT", "DEL_SKT", "WRITE_SKT"}
Messages == Actions \X Conns

VARIABLES
  life,      \* a connection object: "new", "made", "shared", "cleared"
  skt,       \* m_socketId
  state,     \* m_connectState
  queue,     \* m_pendingWriteQueue
  index,     \* m_writeIndex of each packet, counted in units
  written,   \* how many packets have been created
  writes,    \* how often each has been written
  sktMap,    \* m_sktMap
  interest,  \* what epoll watches a descriptor for; {} if not registered
  list,      \* m_controlMsgList
  ctl,       \* the control socket is readable
  link, full,          \* the kernel's side of a socket, and its full buffer
  pc, tconn, tpkt, tmsg,   \* each thread's position, connection, packet, message
  mpc, mconn,          \* the manager's position, the connection it deals with
  mskt,                \* and the socket whose event it handles, if it does
  batch, wake,         \* the events of the last epoll_wait still to be handled
  cut,       \* history: the packet part-sent on a socket
  torn       \* history: a packet was sent that did not start where it should

connVars   == <<life, skt, state>>
packetVars == <<queue, index, written, writes>>
epollVars  == <<sktMap, interest>>
msgVars    == <<list, ctl>>
kernelVars == <<link, full>>
threadVars == <<pc, tconn, tpkt, tmsg>>
mgrVars    == <<mpc, mconn, mskt, batch, wake>>
history    == <<cut, torn>>
vars == <<connVars, packetVars, epollVars, msgVars, kernelVars, threadVars,
          mgrVars, history>>

Links == {"closed", "connecting", "up", "down"}

TypeOK ==
  /\ life \in [Conns -> {"new", "made", "shared", "cleared"}]
  /\ skt \in [Conns -> Fds \cup {None}]
  /\ state \in [Conns -> {"unknown", "connecting", "connected", "reset"}]
  /\ queue \in [Conns -> Seq(Packets)]
  /\ index \in [Packets -> 0..Size]
  /\ written \in 0..MaxWrites
  /\ writes \in [Packets -> Nat]
  /\ sktMap \in [Fds -> Conns \cup {None}]
  /\ interest \in [Fds -> SUBSET {"in", "out"}]
  /\ list \in Seq(Messages)
  /\ ctl \in BOOLEAN
  /\ link \in [Fds -> Links] /\ full \in [Fds -> BOOLEAN]
  /\ pc \in [Threads -> {"idle", "check", "connect", "reset", "push", "lookup",
                         "post", "byte"}]
  /\ tconn \in [Threads -> Conns \cup {None}]
  /\ tpkt \in [Threads -> Packets \cup {None}]
  /\ tmsg \in [Threads -> Actions]
  /\ mpc \in {"poll", "batch", "control", "send", "sending", "close"}
  /\ mconn \in Conns \cup {None} /\ mskt \in Fds \cup {None}
  /\ batch \in SUBSET (Fds \X {"ended", "out"}) /\ wake \in BOOLEAN
  /\ cut \in [Fds -> Packets \cup {None}] /\ torn \in BOOLEAN

Init ==
  /\ life = [k \in Conns |-> "new"]
  /\ skt = [k \in Conns |-> None]
  /\ state = [k \in Conns |-> "unknown"]
  /\ queue = [k \in Conns |-> <<>>]
  /\ index = [p \in Packets |-> 0] /\ writes = [p \in Packets |-> 0]
  /\ written = 0
  /\ sktMap = [f \in Fds |-> None] /\ interest = [f \in Fds |-> {}]
  /\ list = <<>> /\ ctl = FALSE
  /\ link = [f \in Fds |-> "closed"] /\ full = [f \in Fds |-> FALSE]
  /\ pc = [t \in Threads |-> "idle"]
  /\ tconn = [t \in Threads |-> None] /\ tpkt = [t \in Threads |-> None]
  /\ tmsg = [t \in Threads |-> "WRITE_SKT"]
  /\ mpc = "poll" /\ mconn = None /\ mskt = None
  /\ batch = {} /\ wake = FALSE
  /\ cut = [f \in Fds |-> None] /\ torn = FALSE

-----------------------------------------------------------------------------
(* The threads that use the connections.                                   *)

Goto(t, to) == pc' = [pc EXCEPT ![t] = to]

\* The thread leaves writePacket or sendControlMsg; doSendAndWait holds on to a
\* UDP packet for another attempt.
Leave(t) ==
  /\ Goto(t, "idle")
  /\ tmsg' = [tmsg EXCEPT ![t] = "WRITE_SKT"]
  /\ tconn' = [tconn EXCEPT ![t] = IF Udp THEN @ ELSE None]
  /\ tpkt' = [tpkt EXCEPT ![t] = IF Udp THEN @ ELSE None]

\* p_nonblockConnect: a new socket, connected already or on its way.
Connect(k) ==
  \E f \in {g \in Fds : link[g] = "closed"}, now \in {Udp} \cup {"instant" \in Faults} :
    /\ skt' = [skt EXCEPT ![k] = f]
    /\ state' = [state EXCEPT ![k] = IF now THEN "connected" ELSE "connecting"]
    /\ link' = [link EXCEPT ![f] = IF now THEN "up" ELSE "connecting"]

\* RpcConnection::create connects before anyone else knows of the connection,
\* and posts ADD_SKT before it returns it.
Create(t, k) ==
  /\ pc[t] = "idle" /\ life[k] = "new"
  /\ Connect(k)
  /\ life' = [life EXCEPT ![k] = "made"]
  /\ Goto(t, "post")
  /\ tconn' = [tconn EXCEPT ![t] = k]
  /\ tmsg' = [tmsg EXCEPT ![t] = "ADD_SKT"]
  /\ tpkt' = [tpkt EXCEPT ![t] = None]
  /\ UNCHANGED <<packetVars, epollVars, msgVars, full, mgrVars, history>>

\* A connection that failed to connect is returned all the same, not added.
CreateFails(t, k) ==
  /\ "connect" \in Faults
  /\ pc[t] = "idle" /\ life[k] = "new"
  /\ life' = [life EXCEPT ![k] = "shared"]
  /\ UNCHANGED <<skt, state, packetVars, epollVars, msgVars, kernelVars, threadVars,
                 mgrVars, history>>

\* RpcConnection::clear posts DEL_SKT and drops the reference; threads that
\* hold one go on using the connection.
Clear(t, k) ==
  /\ "clear" \in Faults
  /\ pc[t] = "idle" /\ life[k] = "shared"
  /\ life' = [life EXCEPT ![k] = "cleared"]
  /\ Goto(t, "post")
  /\ tconn' = [tconn EXCEPT ![t] = k]
  /\ tmsg' = [tmsg EXCEPT ![t] = "DEL_SKT"]
  /\ tpkt' = [tpkt EXCEPT ![t] = None]
  /\ UNCHANGED <<skt, state, packetVars, epollVars, msgVars, kernelVars, mgrVars,
                 history>>

\* A call reaches writePacket with a new packet.
BeginWrite(t, k) ==
  /\ pc[t] = "idle" /\ life[k] = "shared" /\ written < MaxWrites
  /\ Goto(t, "check")
  /\ tconn' = [tconn EXCEPT ![t] = k]
  /\ written' = written + 1
  /\ tpkt' = [tpkt EXCEPT ![t] = written']
  /\ UNCHANGED <<connVars, queue, index, writes, epollVars, msgVars, kernelVars, tmsg,
                 mgrVars, history>>

\* doSendAndWait writes a UDP packet again when no reply has come.
WriteAgain(t) ==
  /\ Udp /\ pc[t] = "idle" /\ tpkt[t] # None
  /\ writes[tpkt[t]] < MaxSends
  /\ Goto(t, "check")
  /\ UNCHANGED <<connVars, packetVars, epollVars, msgVars, kernelVars, tconn, tpkt,
                 tmsg, mgrVars, history>>

\* writePacket reads m_socketId.
CheckSocket(t) ==
  /\ pc[t] = "check"
  /\ Goto(t, IF skt[tconn[t]] = None THEN "connect" ELSE "reset")
  /\ UNCHANGED <<connVars, packetVars, epollVars, msgVars, kernelVars, tconn, tpkt,
                 tmsg, mgrVars, history>>

\* nonblockConnect, which looks at m_socketId again under the lock.  Nothing
\* adds the new socket to the connection manager.
Reconnect(t) ==
  /\ pc[t] = "connect" /\ Goto(t, "reset")
  /\ IF skt[tconn[t]] = None THEN Connect(tconn[t])
                             ELSE UNCHANGED <<skt, state, link>>
  /\ UNCHANGED <<life, packetVars, epollVars, msgVars, full, tconn, tpkt, tmsg,
                 mgrVars, history>>

ReconnectFails(t) ==
  /\ "connect" \in Faults
  /\ pc[t] = "connect" /\ skt[tconn[t]] = None
  /\ Leave(t)
  /\ UNCHANGED <<connVars, packetVars, epollVars, msgVars, kernelVars, mgrVars,
                 history>>

ResetWriteIndex(t) ==
  /\ pc[t] = "reset" /\ Goto(t, "push")
  /\ index' = [index EXCEPT ![tpkt[t]] = 0]
  /\ UNCHANGED <<connVars, queue, written, writes, epollVars, msgVars, kernelVars,
                 tconn, tpkt, tmsg, mgrVars, history>>

\* Mutant: nobody is notified.
AddPendingWrite_NoNotify(t) ==
  /\ pc[t] = "push"
  /\ queue' = [queue EXCEPT ![tconn[t]] = Append(@, tpkt[t])]
  /\ Leave(t)
  /\ writes' = [writes EXCEPT ![tpkt[t]] = @ + 1]
  /\ UNCHANGED <<connVars, index, written, epollVars, msgVars, kernelVars, mgrVars,
                 history>>

\* addPendingWrite, which notifies for the first packet of the queue only.
AddPendingWrite(t) ==
  /\ pc[t] = "push"
  /\ LET k == tconn[t] IN
       /\ queue' = [queue EXCEPT ![k] = Append(@, tpkt[t])]
       /\ IF queue[k] = <<>> THEN Goto(t, "lookup") /\ UNCHANGED <<tconn, tpkt, tmsg>>
                              ELSE Leave(t)
  /\ writes' = [writes EXCEPT ![tpkt[t]] = @ + 1]
  /\ UNCHANGED <<connVars, index, written, epollVars, msgVars, kernelVars, mgrVars,
                 history>>

\* writeConnection does nothing for a connection that is not in the map.
WriteConnection(t) ==
  /\ pc[t] = "lookup"
  /\ IF \E f \in Fds : sktMap[f] = tconn[t]
     THEN Goto(t, "post") /\ UNCHANGED <<tconn, tpkt, tmsg>>
     ELSE Leave(t)
  /\ UNCHANGED <<connVars, packetVars, epollVars, msgVars, kernelVars, mgrVars,
                 history>>

\* sendControlMsg: first the message, under the list's lock, ...
PostMessage(t) ==
  /\ pc[t] = "post" /\ Goto(t, "byte")
  /\ list' = Append(list, <<tmsg[t], tconn[t]>>)
  /\ UNCHANGED <<connVars, packetVars, epollVars, ctl, kernelVars, tconn, tpkt, tmsg,
                 mgrVars, history>>

\* ... then a byte on the control socket.  create returns after it.
SendByte(t) ==
  /\ pc[t] = "byte" /\ Leave(t)
  /\ ctl' = TRUE
  /\ life' = IF tmsg[t] = "ADD_SKT" THEN [life EXCEPT ![tconn[t]] = "shared"] ELSE life
  /\ UNCHANGED <<skt, state, packetVars, epollVars, list, kernelVars, mgrVars,
                 history>>

-----------------------------------------------------------------------------
(* The manager thread.                                                     *)

\* What epoll_wait reports of a registered socket.
Events(f) ==
  IF interest[f] = {} THEN {}
  ELSE IF link[f] = "down" THEN {"ended"}
  ELSE IF "out" \in interest[f] /\ link[f] = "up" /\ ~full[f] THEN {"out"}
  ELSE {}

EpollWait ==
  /\ mpc = "poll"
  /\ batch' = {fe \in Fds \X {"ended", "out"} : fe[2] \in Events(fe[1])}
  /\ wake' = ctl
  /\ batch' # {} \/ ctl
  /\ mpc' = "batch"
  /\ UNCHANGED <<connVars, packetVars, epollVars, msgVars, kernelVars, threadVars,
                 mconn, mskt, history>>

\* The for loop over the events is over.
BatchDone ==
  /\ mpc = "batch" /\ batch = {} /\ ~wake
  /\ mpc' = "poll"
  /\ UNCHANGED <<connVars, packetVars, epollVars, msgVars, kernelVars, threadVars,
                 mconn, mskt, batch, wake, history>>

\* processControlMsg drains the control socket before it reads the list.
DrainControl ==
  /\ mpc = "batch" /\ wake
  /\ ctl' = FALSE /\ wake' = FALSE
  /\ mpc' = "control"
  /\ UNCHANGED <<connVars, packetVars, epollVars, list, kernelVars, threadVars,
                 mconn, mskt, batch, history>>

\* Mutant: one message is processed for each wake-up.
ControlDone_Early ==
  /\ mpc = "control"
  /\ mpc' = "batch"
  /\ UNCHANGED <<connVars, packetVars, epollVars, msgVars, kernelVars, threadVars,
                 mconn, mskt, batch, wake, history>>

\* The list is empty.
ControlDone ==
  /\ mpc = "control" /\ list = <<>>
  /\ mpc' = "batch"
  /\ UNCHANGED <<connVars, packetVars, epollVars, msgVars, kernelVars, threadVars,
                 mconn, mskt, batch, wake, history>>

\* epoll_ctl: an ADD of a registered descriptor and a MOD of another one fail.
EpollAdd(f, events) == interest' = IF interest[f] = {}
                                   THEN [interest EXCEPT ![f] = events] ELSE interest
EpollMod(f, events) == interest' = IF interest[f] # {}
                                   THEN [interest EXCEPT ![f] = events] ELSE interest

\* m_sktMap.add, for the socket the connection has now.
AddSocket(k) ==
  /\ mpc = "control" /\ list # <<>> /\ Head(list) = <<"ADD_SKT", k>>
  /\ list' = Tail(list)
  /\ LET f == skt[k] IN
     IF sktMap[f] = k
     THEN UNCHANGED <<sktMap, interest>>
     ELSE /\ sktMap' = [sktMap EXCEPT ![f] = k]
          /\ EpollAdd(f, IF state[k] = "connected" THEN {"in"} ELSE {"in", "out"})
  /\ UNCHANGED <<connVars, packetVars, ctl, kernelVars, threadVars, mgrVars, history>>

\* m_sktMap.remove(conn) finds the entry by connection, and takes the socket
\* to delete from epoll from the connection.
RemoveConn(k) ==
  IF \E f \in Fds : sktMap[f] = k
  THEN \E f \in Fds :
         /\ sktMap[f] = k
         /\ sktMap' = [sktMap EXCEPT ![f] = None]
         /\ interest' = [g \in Fds |-> IF g = skt[k] THEN {} ELSE interest[g]]
  ELSE UNCHANGED <<sktMap, interest>>

\* Mutant: the socket stays in epoll.
RemoveSocket_KeepsEpoll(f) ==
  /\ sktMap' = [sktMap EXCEPT ![f] = None]
  /\ UNCHANGED interest

\* m_sktMap.remove(skt)
RemoveSocket(f) ==
  /\ sktMap' = [sktMap EXCEPT ![f] = None]
  /\ interest' = [interest EXCEPT ![f] = {}]

DelSocket(k) ==
  /\ mpc = "control" /\ list # <<>> /\ Head(list) = <<"DEL_SKT", k>>
  /\ list' = Tail(list)
  /\ RemoveConn(k)
  /\ mpc' = "close" /\ mconn' = k
  /\ UNCHANGED <<connVars, packetVars, ctl, kernelVars, threadVars, mskt, batch, wake,
                 history>>

WriteSocket(k) ==
  /\ mpc = "control" /\ list # <<>> /\ Head(list) = <<"WRITE_SKT", k>>
  /\ list' = Tail(list)
  /\ mpc' = "send" /\ mconn' = k
  /\ UNCHANGED <<connVars, packetVars, epollVars, ctl, kernelVars, threadVars, mskt,
                 batch, wake, history>>

\* processProtocolMsg for one event of the batch, up to sendPacket.  A socket
\* that is not in the map is deleted from epoll; one that is not its
\* connection's, or that has ended, is removed and its connection closed.
HandleEvent(f, e) ==
  /\ mpc = "batch" /\ <<f, e>> \in batch
  /\ batch' = batch \ {<<f, e>>}
  /\ LET k == sktMap[f]
         fails == \/ skt[k] # f \/ e = "ended"
                  \/ state[k] = "connecting" /\ link[f] = "down"
     IN \/ /\ k = None
           /\ interest' = [interest EXCEPT ![f] = {}]
           /\ UNCHANGED <<sktMap, state, mpc, mconn, mskt>>
        \/ /\ k # None /\ fails
           /\ RemoveSocket(f)
           /\ mpc' = "close" /\ mconn' = k /\ mskt' = f
           /\ UNCHANGED state
        \/ /\ k # None /\ ~fails
           /\ state' = [state EXCEPT ![k] = IF @ = "connecting" THEN "connected" ELSE @]
           /\ mpc' = "send" /\ mconn' = k /\ mskt' = f
           /\ UNCHANGED epollVars
  /\ UNCHANGED <<life, skt, packetVars, msgVars, kernelVars, threadVars, wake, history>>

\* The manager goes on with the batch or with the list: its locals are gone.
FromEvent == mskt # None
Resume ==
  /\ mpc' = IF FromEvent THEN "batch" ELSE "control"
  /\ mconn' = None /\ mskt' = None

\* Mutant: nothing tells the manager when the socket becomes writable.
Busy_NotWatched == Resume /\ UNCHANGED epollVars

\* sendPacket returned SOCKET_BUSY.
Busy ==
  /\ Resume
  /\ IF FromEvent THEN UNCHANGED interest
     ELSE IF skt[mconn] = None THEN UNCHANGED interest
     ELSE EpollMod(skt[mconn], {"in", "out"})
  /\ UNCHANGED sktMap

\* sendPacket failed: it clears the queue, and its caller then removes the connection
\* from the map.  The two are one step: what a thread may do between them, queue a
\* packet or reconnect, touches no map, and it may do after them, before the close.
SendFails ==
  /\ queue' = [queue EXCEPT ![mconn] = <<>>]
  /\ IF FromEvent THEN RemoveSocket(mskt) ELSE RemoveConn(mconn)
  /\ mpc' = "close" /\ UNCHANGED <<mconn, mskt>>

\* sendPacket looks at the socket and the state once, before its loop.
SendPacket ==
  /\ mpc = "send"
  /\ \/ skt[mconn] = None /\ SendFails
     \/ skt[mconn] # None /\ state[mconn] = "connecting" /\ Busy /\ UNCHANGED queue
     \/ /\ skt[mconn] # None /\ state[mconn] # "connecting"
        /\ mpc' = "sending" /\ UNCHANGED <<queue, epollVars, mconn, mskt>>
  /\ UNCHANGED <<connVars, index, written, writes, msgVars, kernelVars, threadVars,
                 batch, wake, history>>

\* Mutant: the packet leaves the queue though part of it is unsent.
SendSome_PopsEarly ==
  /\ mpc = "sending" /\ queue[mconn] # <<>>
  /\ LET f == skt[mconn]
         p == Head(queue[mconn])
     IN /\ link[f] = "up" /\ ~full[f] /\ index[p] < Size
        /\ \E n \in 1..(Size - index[p]) :
             /\ index' = [index EXCEPT ![p] = @ + n]
             /\ cut' = [cut EXCEPT ![f] = IF index[p] + n = Size THEN None ELSE p]
        /\ queue' = [queue EXCEPT ![mconn] = Tail(@)]
        /\ torn' = (torn \/ cut[f] # IF index[p] = 0 THEN None ELSE p)
        /\ full' \in {full} \cup IF "busy" \in Faults THEN {[full EXCEPT ![f] = TRUE]}
                                                      ELSE {}
  /\ UNCHANGED <<connVars, written, writes, epollVars, msgVars, link, threadVars, mgrVars>>

\* Mutant: the size to send is that of the whole packet.
SendSome_Overruns ==
  /\ mpc = "sending" /\ queue[mconn] # <<>>
  /\ LET f == skt[mconn]
         p == Head(queue[mconn])
     IN /\ link[f] = "up" /\ ~full[f]
        /\ \E n \in 1..Size :
             /\ index' = [index EXCEPT ![p] = @ + n]
             /\ queue' = IF index[p] + n = Size
                         THEN [queue EXCEPT ![mconn] = Tail(@)] ELSE queue
  /\ UNCHANGED <<connVars, written, writes, epollVars, msgVars, kernelVars, threadVars,
                 mgrVars, history>>

\* send accepts part or all of the packet in front, which leaves the queue
\* when it is complete.
SendSome ==
  /\ mpc = "sending" /\ queue[mconn] # <<>>
  /\ LET f == skt[mconn]
         p == Head(queue[mconn])
     IN /\ link[f] = "up" /\ ~full[f] /\ index[p] < Size
        /\ \E n \in 1..(Size - index[p]) :
             /\ index' = [index EXCEPT ![p] = @ + n]
             /\ queue' = IF index[p] + n = Size
                         THEN [queue EXCEPT ![mconn] = Tail(@)] ELSE queue
             /\ cut' = [cut EXCEPT ![f] = IF index[p] + n = Size THEN None ELSE p]
        /\ torn' = (torn \/ cut[f] # IF index[p] = 0 THEN None ELSE p)
        /\ full' \in {full} \cup IF "busy" \in Faults THEN {[full EXCEPT ![f] = TRUE]}
                                                      ELSE {}
  /\ UNCHANGED <<connVars, written, writes, epollVars, msgVars, link, threadVars, mgrVars>>

\* send would block, or errno still says so after a send of no bytes.
SendWouldBlock ==
  /\ mpc = "sending" /\ queue[mconn] # <<>>
  /\ \/ link[skt[mconn]] = "connecting"
     \/ link[skt[mconn]] = "up" /\ full[skt[mconn]]
     \/ index[Head(queue[mconn])] = Size
  /\ Busy
  /\ UNCHANGED <<connVars, packetVars, msgVars, kernelVars, threadVars, batch, wake,
                 history>>

\* send fails, or sends no bytes while errno still holds another error.
SendError ==
  /\ mpc = "sending" /\ queue[mconn] # <<>>
  /\ link[skt[mconn]] = "down" \/ index[Head(queue[mconn])] = Size
  /\ SendFails
  /\ UNCHANGED <<connVars, index, written, writes, msgVars, kernelVars, threadVars,
                 batch, wake, history>>

\* The queue is empty: after an event EPOLLOUT is no longer asked for.
SendDone ==
  /\ mpc = "sending" /\ queue[mconn] = <<>>
  /\ Resume
  /\ IF FromEvent THEN EpollMod(mskt, {"in"}) ELSE UNCHANGED interest
  /\ UNCHANGED <<connVars, packetVars, sktMap, msgVars, kernelVars, threadVars,
                 batch, wake, history>>

\* closeConnection: the descriptor is closed, which takes it out of epoll, and
\* the queue is emptied.
CloseConnection ==
  /\ mpc = "close" /\ Resume
  /\ IF skt[mconn] = None THEN UNCHANGED <<skt, state, queue, interest, link, full, cut>>
     ELSE LET f == skt[mconn] IN
          /\ skt' = [skt EXCEPT ![mconn] = None]
          /\ state' = [state EXCEPT ![mconn] = "reset"]
          /\ queue' = [queue EXCEPT ![mconn] = <<>>]
          /\ interest' = [interest EXCEPT ![f] = {}]
          /\ link' = [link EXCEPT ![f] = "closed"]
          /\ full' = [full EXCEPT ![f] = FALSE]
          /\ cut' = [cut EXCEPT ![f] = None]
  /\ UNCHANGED <<life, index, written, writes, sktMap, msgVars, threadVars, batch,
                 wake, torn>>

-----------------------------------------------------------------------------
(* The kernel and the peer.                                                *)

Establish(f) ==
  /\ link[f] = "connecting" /\ link' = [link EXCEPT ![f] = "up"]
  /\ UNCHANGED <<connVars, packetVars, epollVars, msgVars, full, threadVars, mgrVars,
                 history>>

PeerEnds(f) ==
  /\ "close" \in Faults
  /\ link[f] \in {"connecting", "up"} /\ link' = [link EXCEPT ![f] = "down"]
  /\ UNCHANGED <<connVars, packetVars, epollVars, msgVars, full, threadVars, mgrVars,
                 history>>

Drain(f) ==
  /\ full[f] /\ full' = [full EXCEPT ![f] = FALSE]
  /\ UNCHANGED <<connVars, packetVars, epollVars, msgVars, link, threadVars, mgrVars,
                 history>>

-----------------------------------------------------------------------------
InWrite(t) ==
  \/ CheckSocket(t) \/ Reconnect(t) \/ ReconnectFails(t) \/ ResetWriteIndex(t)
  \/ AddPendingWrite(t) \/ WriteConnection(t) \/ PostMessage(t) \/ SendByte(t)

Thread(t) ==
  \/ \E k \in Conns : Create(t, k) \/ CreateFails(t, k) \/ Clear(t, k) \/ BeginWrite(t, k)
  \/ WriteAgain(t) \/ InWrite(t)

Manager ==
  \/ EpollWait \/ BatchDone \/ DrainControl \/ ControlDone
  \/ \E k \in Conns : AddSocket(k) \/ DelSocket(k) \/ WriteSocket(k)
  \/ \E f \in Fds, e \in {"ended", "out"} : HandleEvent(f, e)
  \/ SendPacket \/ SendSome \/ SendWouldBlock \/ SendError \/ SendDone \/ CloseConnection

Next ==
  \/ \E t \in Threads : Thread(t)
  \/ Manager
  \/ \E f \in Fds : Establish(f) \/ PeerEnds(f) \/ Drain(f)

Spec == Init /\ [][Next]_vars

\* A thread inside create, clear or writePacket keeps running, the manager
\* thread runs while it has something to do, a connection attempt is answered
\* and a full socket buffer drains.
Fairness ==
  /\ \A t \in Threads : WF_vars(InWrite(t))
  /\ WF_vars(Manager)
  /\ \A f \in Fds : WF_vars(Establish(f)) /\ WF_vars(Drain(f))

FairSpec == Spec /\ Fairness

-----------------------------------------------------------------------------
\* The map, epoll and the connections agree whatever is closed, cleared or
\* reconnected meanwhile, even when the kernel gives a descriptor out again: a
\* socket in the map is its connection's own and is watched, and no other is.
MapIsSound ==
  \A f \in Fds : /\ sktMap[f] # None => skt[sktMap[f]] = f /\ interest[f] # {}
                 /\ sktMap[f] = None => interest[f] = {}

\* No control message is left behind: the manager is going through the list,
\* or the control socket will wake it up.
NoMessageForgotten ==
  list # <<>> =>
    \/ ctl \/ wake
    \/ \E t \in Threads : pc[t] = "byte"
    \/ mpc = "control" \/ (mpc \in {"send", "sending", "close"} /\ ~FromEvent)

\* What goes out on a socket is whole packets one after another: none is cut
\* short by another, and none starts in its middle (sendPacket's m_writeIndex,
\* through busy sockets, closes and reconnects).
NothingTorn == ~torn

\* A packet in the queue of an open connection will be sent: its writer is
\* about to notify the manager, or WRITE_SKT is in the list, or epoll watches
\* for the socket to become writable, or ADD_SKT will have it do so, or the
\* manager is at it (BasicConnection.h:101, "notify connection manager").
QueueIsServed ==
  \A k \in Conns : queue[k] # <<>> =>
    \/ \E t \in Threads : pc[t] \in {"lookup", "post"} /\ tconn[t] = k
                          /\ tmsg[t] = "WRITE_SKT"
    \/ \E i \in DOMAIN list : list[i] = <<"WRITE_SKT", k>>
    \/ \E i \in DOMAIN list : list[i] = <<"ADD_SKT", k>> /\ state[k] = "connecting"
    \/ skt[k] # None /\ "out" \in interest[skt[k]]
    \/ mpc \in {"send", "sending", "close"} /\ mconn = k

\* nonblockConnect adds what it connects to the connection manager
\* (BasicConnection.h:87): the socket is in the map or about to be.
OpenIsManaged ==
  \A k \in Conns : life[k] = "shared" /\ skt[k] # None =>
    \/ sktMap[skt[k]] = k
    \/ \E i \in DOMAIN list : list[i] = <<"ADD_SKT", k>>
    \/ mpc = "close" /\ mconn = k

\* Every packet put on the queue is sent in the end.
EveryPacketIsSent ==
  \A p \in Packets : writes[p] > 0 ~> index[p] = Size

=============================================================================
