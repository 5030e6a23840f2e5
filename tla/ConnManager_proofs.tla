-------------------------- MODULE ConnManager_proofs --------------------------
(***************************************************************************)
(* Theorems about ConnManager, for any connections, threads and            *)
(* descriptors, UDP or TCP, and whatever the environment may do.           *)
(***************************************************************************)
EXTENDS ConnManager, SequenceTheorems, TLAPS

(***************************************************************************)
(* The invariant, by its parts.                                            *)
(***************************************************************************)
Known(k) == life[k] \in {"shared", "cleared"}

\* A thread inside the library has a connection, one that others may know unless
\* it is creating it, and in writePacket it has a packet of its own.
ThreadFits(t) ==
  /\ pc[t] # "idle" => tconn[t] \in Conns /\ (tpkt[t] # None \/ tmsg[t] # "WRITE_SKT")
  /\ tmsg[t] # "WRITE_SKT" => pc[t] \in {"post", "byte"} /\ tpkt[t] = None
  /\ tmsg[t] = "ADD_SKT" => life[tconn[t]] = "made"
  /\ (tpkt[t] # None \/ tmsg[t] = "DEL_SKT") => tconn[t] \in Conns /\ Known(tconn[t])
ThreadsFit ==
  /\ \A t \in Threads : ThreadFits(t)
  /\ \A t, u \in Threads :
       tmsg[t] = "ADD_SKT" /\ tmsg[u] = "ADD_SKT" /\ tconn[t] = tconn[u] => t = u

\* The ADD_SKT of a connection comes before any other message about it.
MessagesFit ==
  /\ \A i \in DOMAIN list :
       /\ life[list[i][2]] # "new"
       /\ list[i][1] # "ADD_SKT" => Known(list[i][2])
  /\ \A i, j \in DOMAIN list :
       list[i][1] = "ADD_SKT" /\ list[j][2] = list[i][2] /\ i # j => i < j
  /\ \A t \in Threads : pc[t] = "post" /\ tmsg[t] = "ADD_SKT" =>
       \A i \in DOMAIN list : list[i][2] # tconn[t]

Mapped(k) == \E f \in Fds : sktMap[f] = k

\* Until then it has the socket it was created with, and nobody else deals with it.
Posting(k, t) == pc[t] = "post" /\ tmsg[t] = "ADD_SKT" /\ tconn[t] = k
Unadded(k) ==
  \/ \E t \in Threads : Posting(k, t)
  \/ \E i \in DOMAIN list : list[i] = <<"ADD_SKT", k>>
UnaddedFit ==
  \A k \in Conns : Unadded(k) =>
    skt[k] # None /\ mconn # k /\ \A f \in Fds : sktMap[f] # k

\* No two connections have the same socket.
SocketsFit ==
  /\ \A k \in Conns : skt[k] # None => link[skt[k]] # "closed" /\ life[k] # "new"
  /\ \A k, l \in Conns : skt[k] = skt[l] /\ skt[k] # None => k = l

\* The manager sends on a socket it has, and closes what it has taken out of the map.
ManagerFits ==
  /\ mpc \in {"poll", "batch", "control"} => mconn = None /\ mskt = None
  /\ mpc \in {"send", "sending", "close"} => mconn \in Conns /\ life[mconn] # "new"
  /\ mpc \in {"send", "sending"} /\ mskt # None => sktMap[mskt] = mconn
  /\ mpc = "sending" => skt[mconn] # None
  /\ mpc = "close" => \A f \in Fds : sktMap[f] # mconn
  /\ mpc = "poll" => ~wake

\* A packet is in one place: with the thread that writes it, or in a queue, where
\* only the first is part-sent.
Writing(t) == pc[t] \in {"check", "connect", "reset", "push"}
PacketsFit ==
  /\ \A t \in Threads : tpkt[t] # None => tpkt[t] <= written
  /\ \A t, u \in Threads : tpkt[t] = tpkt[u] /\ tpkt[t] # None => t = u
  /\ \A k \in Conns : \A i \in DOMAIN queue[k] : queue[k][i] <= written
  /\ \A p \in Packets : p > written => index[p] = 0
OnceFit ==
  /\ \A t \in Threads : Writing(t) =>
       /\ index[tpkt[t]] = 0
       /\ \A k \in Conns : \A i \in DOMAIN queue[k] : queue[k][i] # tpkt[t]
  /\ \A k, l \in Conns : \A i \in DOMAIN queue[k], j \in DOMAIN queue[l] :
       queue[k][i] = queue[l][j] => k = l /\ i = j

\* What has been sent of the first packet of a queue was sent on the socket the
\* connection has, which is at a packet's boundary otherwise.
CutFits(k) ==
  /\ \A i \in DOMAIN queue[k] : i # 1 => index[queue[k][i]] = 0
  /\ skt[k] = None /\ queue[k] # <<>> => index[queue[k][1]] = 0
  /\ skt[k] # None /\ ~(mpc = "close" /\ mconn = k) =>
       cut[skt[k]] = IF queue[k] # <<>> /\ index[queue[k][1]] # 0 THEN queue[k][1] ELSE None
CutsFit ==
  /\ ~torn
  /\ \A f \in Fds : Udp \/ link[f] = "closed" => cut[f] = None
  /\ ~Udp => OnceFit /\ \A k \in Conns : CutFits(k)

IInv == /\ TypeOK /\ ThreadsFit /\ MessagesFit /\ UnaddedFit /\ SocketsFit /\ ManagerFits
        /\ MapIsSound /\ NoMessageForgotten /\ PacketsFit /\ CutsFit

-----------------------------------------------------------------------------
(***************************************************************************)
(* Types.                                                                  *)
(***************************************************************************)
LEMMA Sizes == /\ Size \in Nat /\ Size > 0 /\ 0 \in 0..Size /\ (Udp => Size = 1)
               /\ Packets \subseteq Nat \ {0} /\ MaxWrites \in Nat
  BY ConnAssumption DEF Size, Packets, ConnAssumption

LEMMA NoneIsNone == None \notin Conns /\ None \notin Fds /\ None \notin Packets
  BY ConnAssumption DEF Packets, ConnAssumption

LEMMA InitTypes == Init => TypeOK
  <1> SUFFICES ASSUME Init
               PROVE  TypeOK
    OBVIOUS
  <1>1. <<>> \in Seq(Packets) /\ <<>> \in Seq(Messages)
    BY EmptySeq
  <1>2. queue \in [Conns -> Seq(Packets)] /\ list \in Seq(Messages)
    BY <1>1 DEF Init
  <1>3. /\ index \in [Packets -> 0..Size] /\ writes \in [Packets -> Nat]
        /\ written \in 0..MaxWrites
    BY Sizes DEF Init
  <1>4. QED
    BY <1>2, <1>3 DEF Init, TypeOK, Links, Actions

\* What a thread has inside writePacket, until the packet is in the queue.
LEMMA HasPacket ==
  ASSUME TypeOK, ThreadsFit, NEW t \in Threads, pc[t] # "idle"
  PROVE  /\ tconn[t] \in Conns
         /\ pc[t] \notin {"post", "byte"} =>
              tpkt[t] \in Packets /\ tmsg[t] = "WRITE_SKT" /\ Known(tconn[t])
  BY DEF TypeOK, ThreadsFit, ThreadFits

LEMMA LeaveTypes ==
  ASSUME TypeOK, NEW t \in Threads, Leave(t)
  PROVE  /\ pc' \in [Threads -> {"idle", "check", "connect", "reset", "push", "lookup",
                                 "post", "byte"}]
         /\ tconn' \in [Threads -> Conns \cup {None}]
         /\ tpkt' \in [Threads -> Packets \cup {None}]
         /\ tmsg' \in [Threads -> Actions]
  BY DEF TypeOK, Leave, Goto, Actions

\* A connection is given a descriptor nobody has.
LEMMA ConnectTypes ==
  ASSUME TypeOK, NEW k \in Conns, Connect(k)
  PROVE  /\ skt' \in [Conns -> Fds \cup {None}] /\ link' \in [Fds -> Links]
         /\ state' \in [Conns -> {"unknown", "connecting", "connected", "reset"}]
         /\ link[skt'[k]] = "closed" /\ skt'[k] \in Fds /\ link'[skt'[k]] # "closed"
         /\ \A l \in Conns : l # k => skt'[l] = skt[l] /\ state'[l] = state[l]
         /\ \A f \in Fds : f # skt'[k] => link'[f] = link[f]
         /\ state'[k] \in {"connecting", "connected"} /\ link'[skt'[k]] \in {"connecting", "up"}
         /\ (~Udp /\ "instant" \notin Faults) => state'[k] = "connecting"
  <1>1. PICK f \in {g \in Fds : link[g] = "closed"}, now \in {Udp} \cup {"instant" \in Faults} :
          /\ skt' = [skt EXCEPT ![k] = f]
          /\ state' = [state EXCEPT ![k] = IF now THEN "connected" ELSE "connecting"]
          /\ link' = [link EXCEPT ![f] = IF now THEN "up" ELSE "connecting"]
    BY DEF Connect
  <1>2. now \in BOOLEAN /\ (~Udp /\ "instant" \notin Faults => now = FALSE)
    <2>1. Udp \in BOOLEAN
      BY ConnAssumption DEF ConnAssumption
    <2>2. now = Udp \/ now = ("instant" \in Faults)
      BY Zenon
    <2>3. CASE now = Udp
      BY <2>1, <2>3
    <2>4. CASE now = ("instant" \in Faults)
      <3>1. CASE "instant" \in Faults
        BY <2>4, <3>1
      <3>2. CASE "instant" \notin Faults
        <4>1. ("instant" \in Faults) = FALSE
          BY <3>2
        <4>2. now = FALSE
          BY <2>4, <4>1, Zenon
        <4>3. QED
          BY <4>2
      <3>3. QED
        BY <3>1, <3>2
    <2>5. QED
      BY <2>2, <2>3, <2>4
  <1>3. /\ skt' \in [Conns -> Fds \cup {None}]
        /\ skt'[k] = f /\ \A l \in Conns : l # k => skt'[l] = skt[l]
    BY <1>1 DEF TypeOK
  <1>4. /\ state' \in [Conns -> {"unknown", "connecting", "connected", "reset"}]
        /\ state'[k] = (IF now THEN "connected" ELSE "connecting")
        /\ \A l \in Conns : l # k => state'[l] = state[l]
    BY <1>1, <1>2 DEF TypeOK
  <1>5. /\ link' \in [Fds -> Links] /\ link'[f] \in {"connecting", "up"}
        /\ \A g \in Fds : g # f => link'[g] = link[g]
    BY <1>1, <1>2 DEF TypeOK, Links
  <1>6. QED
    BY <1>1, <1>2, <1>3, <1>4, <1>5

LEMMA ThreadTypes ==
  ASSUME TypeOK, ThreadsFit, NEW t \in Threads, Thread(t)
  PROVE  TypeOK'
  <1> USE DEF threadVars, connVars, packetVars, epollVars, msgVars, kernelVars,
                    mgrVars, history
  <1>1. ThreadFits(t)
    BY DEF ThreadsFit
  <1>2. ASSUME NEW k \in Conns, Create(t, k)
        PROVE  TypeOK'
    BY <1>2 DEF TypeOK, Create, Connect, Goto, Links, Actions
  <1>3. ASSUME NEW k \in Conns, CreateFails(t, k)
        PROVE  TypeOK'
    BY <1>3 DEF TypeOK, CreateFails
  <1>4. ASSUME NEW k \in Conns, Clear(t, k)
        PROVE  TypeOK'
    BY <1>4 DEF TypeOK, Clear, Goto, Actions
  <1>5. ASSUME NEW k \in Conns, BeginWrite(t, k)
        PROVE  TypeOK'
    <2>1. written' \in 0..MaxWrites /\ written' \in Packets
      BY <1>5, Sizes DEF TypeOK, BeginWrite, Packets
    <2>2. QED
      BY <1>5, <2>1 DEF TypeOK, BeginWrite, Goto
  <1>6. CASE WriteAgain(t)
    BY <1>6 DEF TypeOK, WriteAgain, Goto
  <1>7. CASE CheckSocket(t)
    BY <1>7 DEF TypeOK, CheckSocket, Goto
  <1>8. CASE Reconnect(t)
    <2>1. tconn[t] \in Conns
      BY <1>8, HasPacket DEF Reconnect
    <2>2. CASE skt[tconn[t]] = None
      <3>1. Connect(tconn[t])
        BY <1>8, <2>2 DEF Reconnect
      <3>2. QED
        BY <1>8, <2>1, <3>1, ConnectTypes DEF TypeOK, Reconnect, Goto
    <2>3. CASE skt[tconn[t]] # None
      BY <1>8, <2>3 DEF TypeOK, Reconnect, Goto
    <2>4. QED
      BY <2>2, <2>3
  <1>9. CASE ReconnectFails(t)
    BY <1>9, LeaveTypes DEF TypeOK, ReconnectFails
  <1>10. CASE ResetWriteIndex(t)
    <2>1. index' \in [Packets -> 0..Size]
      <3>1. index \in [Packets -> 0..Size] /\ tpkt[t] \in Packets
        BY <1>10, HasPacket DEF TypeOK, ResetWriteIndex
      <3>2. QED
        BY <1>10, <3>1, Sizes DEF ResetWriteIndex
    <2>2. QED
      BY <1>10, <2>1 DEF TypeOK, ResetWriteIndex, Goto
  <1>11. CASE AddPendingWrite(t)
    <2>1. tconn[t] \in Conns /\ tpkt[t] \in Packets
      BY <1>11, HasPacket DEF AddPendingWrite
    <2>2. queue' \in [Conns -> Seq(Packets)]
      BY <1>11, <2>1, AppendProperties DEF TypeOK, AddPendingWrite
    <2>3. writes' \in [Packets -> Nat]
      <3>1. writes \in [Packets -> Nat]
        BY DEF TypeOK
      <3>2. writes[tpkt[t]] + 1 \in Nat
        BY <2>1, <3>1
      <3>3. QED
        BY <1>11, <2>1, <3>1, <3>2 DEF AddPendingWrite
    <2>4. CASE queue[tconn[t]] = <<>>
      <3>1. Goto(t, "lookup") /\ UNCHANGED <<tconn, tpkt, tmsg>>
        BY <1>11, <2>4 DEF AddPendingWrite
      <3>2. QED
        BY <1>11, <2>2, <2>3, <3>1 DEF TypeOK, AddPendingWrite, Goto
    <2>5. CASE queue[tconn[t]] # <<>>
      BY <1>11, <2>2, <2>3, <2>5, LeaveTypes DEF TypeOK, AddPendingWrite
    <2>6. QED
      BY <2>4, <2>5
  <1>12. CASE WriteConnection(t)
    <2>1. CASE Mapped(tconn[t])
      BY <1>12, <2>1 DEF TypeOK, WriteConnection, Goto, Mapped
    <2>2. CASE ~Mapped(tconn[t])
      BY <1>12, <2>2, LeaveTypes DEF TypeOK, WriteConnection, Mapped
    <2>3. QED
      BY <2>1, <2>2
  <1>13. CASE PostMessage(t)
    <2>1. <<tmsg[t], tconn[t]>> \in Messages
      BY <1>1, <1>13 DEF TypeOK, PostMessage, ThreadFits, Messages
    <2>2. list' \in Seq(Messages)
      BY <1>13, <2>1, AppendProperties DEF TypeOK, PostMessage
    <2>3. QED
      BY <1>13, <2>2 DEF TypeOK, PostMessage, Goto
  <1>14. CASE SendByte(t)
    BY <1>14, LeaveTypes DEF TypeOK, SendByte
  <1>15. QED
    BY <1>2, <1>3, <1>4, <1>5, <1>6, <1>7, <1>8, <1>9, <1>10, <1>11, <1>12, <1>13, <1>14
    DEF Thread, InWrite

\* What the manager does to its own variables and the map.
LEMMA ResumeTypes ==
  ASSUME TypeOK, Resume
  PROVE  /\ mpc' \in {"poll", "batch", "control", "send", "sending", "close"}
         /\ mconn' \in Conns \cup {None} /\ mskt' \in Fds \cup {None}
  BY DEF TypeOK, Resume

LEMMA EpollTypes ==
  ASSUME TypeOK, NEW f, NEW events \in SUBSET {"in", "out"}
  PROVE  /\ EpollAdd(f, events) => interest' \in [Fds -> SUBSET {"in", "out"}]
         /\ EpollMod(f, events) => interest' \in [Fds -> SUBSET {"in", "out"}]
  BY DEF TypeOK, EpollAdd, EpollMod

LEMMA RemoveTypes ==
  ASSUME TypeOK
  PROVE  /\ \A f \in Fds : RemoveSocket(f) => /\ sktMap' \in [Fds -> Conns \cup {None}]
                                              /\ interest' \in [Fds -> SUBSET {"in", "out"}]
         /\ \A k \in Conns : RemoveConn(k) => /\ sktMap' \in [Fds -> Conns \cup {None}]
                                              /\ interest' \in [Fds -> SUBSET {"in", "out"}]
  <1>1. ASSUME NEW f \in Fds, RemoveSocket(f)
        PROVE  /\ sktMap' \in [Fds -> Conns \cup {None}]
               /\ interest' \in [Fds -> SUBSET {"in", "out"}]
    BY <1>1 DEF TypeOK, RemoveSocket
  <1>2. ASSUME NEW k \in Conns, RemoveConn(k)
        PROVE  /\ sktMap' \in [Fds -> Conns \cup {None}]
               /\ interest' \in [Fds -> SUBSET {"in", "out"}]
    <2>1. CASE UNCHANGED <<sktMap, interest>>
      BY <2>1 DEF TypeOK
    <2>2. ASSUME NEW f \in Fds, sktMap' = [sktMap EXCEPT ![f] = None],
                 interest' = [g \in Fds |-> IF g = skt[k] THEN {} ELSE interest[g]]
          PROVE  /\ sktMap' \in [Fds -> Conns \cup {None}]
                 /\ interest' \in [Fds -> SUBSET {"in", "out"}]
      BY <2>2 DEF TypeOK
    <2>3. QED
      BY <1>2, <2>1, <2>2 DEF RemoveConn
  <1>3. QED
    BY <1>1, <1>2

LEMMA BusyTypes ==
  ASSUME TypeOK, Busy
  PROVE  interest' \in [Fds -> SUBSET {"in", "out"}] /\ sktMap' = sktMap /\ Resume
  BY EpollTypes DEF TypeOK, Busy

LEMMA SendFailsTypes ==
  ASSUME TypeOK, mconn \in Conns, SendFails
  PROVE  /\ sktMap' \in [Fds -> Conns \cup {None}]
         /\ interest' \in [Fds -> SUBSET {"in", "out"}]
         /\ queue' \in [Conns -> Seq(Packets)]
         /\ mpc' = "close" /\ mconn' = mconn /\ mskt' = mskt
  <1>1. queue' \in [Conns -> Seq(Packets)]
    BY EmptySeq DEF TypeOK, SendFails
  <1>2. mskt \in Fds \/ ~FromEvent
    BY DEF TypeOK, FromEvent
  <1>3. QED
    BY <1>1, <1>2, RemoveTypes DEF SendFails

\* What sending some of the first packet of a queue does.
LEMMA SendSomeEffect ==
  ASSUME TypeOK, ManagerFits, SendSome
  PROVE  LET f == skt[mconn]
             p == queue[mconn][1]
         IN /\ mconn \in Conns /\ f \in Fds /\ p \in Packets
            /\ queue[mconn] # <<>> /\ index[p] < Size
            /\ \E n \in 1..(Size - index[p]) :
                 /\ index' = [index EXCEPT ![p] = @ + n]
                 /\ queue' = IF index[p] + n = Size
                             THEN [queue EXCEPT ![mconn] = Tail(@)] ELSE queue
                 /\ cut' = [cut EXCEPT ![f] = IF index[p] + n = Size THEN None ELSE p]
            /\ torn' = (torn \/ cut[f] # IF index[p] = 0 THEN None ELSE p)
            /\ full' \in [Fds -> BOOLEAN]
  <1>1. mconn \in Conns /\ skt[mconn] \in Fds /\ queue[mconn] # <<>>
    BY DEF SendSome, ManagerFits, TypeOK
  <1>2. queue[mconn] \in Seq(Packets)
    BY <1>1 DEF TypeOK
  <1>3. Head(queue[mconn]) = queue[mconn][1] /\ queue[mconn][1] \in Packets
    BY <1>1, <1>2, HeadTailProperties
  <1>4. full' \in [Fds -> BOOLEAN]
    <2>1. full' = full \/ full' = [full EXCEPT ![skt[mconn]] = TRUE]
      BY Zenon DEF SendSome
    <2>2. QED
      BY <1>1, <2>1 DEF TypeOK
  <1>5. QED
    BY <1>1, <1>3, <1>4 DEF SendSome

LEMMA SendSomeTypes ==
  ASSUME TypeOK, ManagerFits, SendSome
  PROVE  /\ index' \in [Packets -> 0..Size] /\ queue' \in [Conns -> Seq(Packets)]
         /\ cut' \in [Fds -> Packets \cup {None}] /\ torn' \in BOOLEAN
         /\ full' \in [Fds -> BOOLEAN]
  <1> DEFINE f == skt[mconn]
             p == queue[mconn][1]
  <1>1. /\ mconn \in Conns /\ f \in Fds /\ p \in Packets /\ queue[mconn] # <<>>
        /\ torn' = (torn \/ cut[f] # IF index[p] = 0 THEN None ELSE p)
        /\ full' \in [Fds -> BOOLEAN]
    BY SendSomeEffect
  <1>2. PICK n \in 1..(Size - index[p]) :
          /\ index' = [index EXCEPT ![p] = @ + n]
          /\ queue' = IF index[p] + n = Size
                      THEN [queue EXCEPT ![mconn] = Tail(@)] ELSE queue
          /\ cut' = [cut EXCEPT ![f] = IF index[p] + n = Size THEN None ELSE p]
    BY SendSomeEffect
  <1> HIDE DEF f, p
  <1>3. index \in [Packets -> 0..Size]
    BY DEF TypeOK
  <1>4. index[p] + n \in 0..Size
    BY <1>1, <1>2, <1>3, Sizes
  <1>5. index' \in [Packets -> 0..Size]
    BY <1>1, <1>2, <1>3, <1>4
  <1>6. Tail(queue[mconn]) \in Seq(Packets) /\ queue \in [Conns -> Seq(Packets)]
    BY <1>1, HeadTailProperties DEF TypeOK
  <1>7. queue' \in [Conns -> Seq(Packets)]
    BY <1>1, <1>2, <1>6
  <1>8. cut' \in [Fds -> Packets \cup {None}]
    BY <1>1, <1>2 DEF TypeOK
  <1>9. torn' \in BOOLEAN
    BY <1>1
  <1>10. QED
    BY <1>1, <1>5, <1>7, <1>8, <1>9

LEMMA EventTypes ==
  ASSUME TypeOK, NEW f \in Fds, NEW e, HandleEvent(f, e)
  PROVE  /\ mpc' \in {"poll", "batch", "control", "send", "sending", "close"}
         /\ mconn' \in Conns \cup {None} /\ mskt' \in Fds \cup {None}
         /\ state' \in [Conns -> {"unknown", "connecting", "connected", "reset"}]
         /\ sktMap' \in [Fds -> Conns \cup {None}]
         /\ interest' \in [Fds -> SUBSET {"in", "out"}]
         /\ batch' \in SUBSET (Fds \X {"ended", "out"})
  <1>1. batch' \in SUBSET (Fds \X {"ended", "out"})
    BY DEF HandleEvent, TypeOK
  <1>2. sktMap[f] = None \/ sktMap[f] \in Conns
    BY DEF TypeOK
  <1>3. CASE sktMap[f] = None /\ interest' = [interest EXCEPT ![f] = {}]
             /\ UNCHANGED <<sktMap, state, mpc, mconn, mskt>>
    BY <1>1, <1>3 DEF TypeOK
  <1>4. CASE /\ sktMap[f] \in Conns /\ RemoveSocket(f) /\ mpc' = "close"
             /\ mconn' = sktMap[f] /\ mskt' = f /\ state' = state
    BY <1>1, <1>4, RemoveTypes DEF TypeOK
  <1>5. CASE /\ sktMap[f] \in Conns /\ mpc' = "send" /\ mconn' = sktMap[f] /\ mskt' = f
             /\ state' = [state EXCEPT ![sktMap[f]] = IF @ = "connecting" THEN "connected" ELSE @]
             /\ UNCHANGED <<sktMap, interest>>
    <2>1. state' \in [Conns -> {"unknown", "connecting", "connected", "reset"}]
      BY <1>5 DEF TypeOK
    <2>2. QED
      BY <1>1, <1>5, <2>1 DEF TypeOK
  <1>6. QED
    BY <1>2, <1>3, <1>4, <1>5 DEF HandleEvent, epollVars

\* What closing a connection does.
LEMMA CloseEffect ==
  CloseConnection =>
    /\ mpc = "close" /\ Resume
    /\ skt[mconn] = None => UNCHANGED <<skt, state, queue, interest, link, full, cut>>
    /\ skt[mconn] # None =>
         /\ skt' = [skt EXCEPT ![mconn] = None]
         /\ state' = [state EXCEPT ![mconn] = "reset"]
         /\ queue' = [queue EXCEPT ![mconn] = <<>>]
         /\ interest' = [interest EXCEPT ![skt[mconn]] = {}]
         /\ link' = [link EXCEPT ![skt[mconn]] = "closed"]
         /\ full' = [full EXCEPT ![skt[mconn]] = FALSE]
         /\ cut' = [cut EXCEPT ![skt[mconn]] = None]
    /\ UNCHANGED <<life, index, written, writes, sktMap, list, ctl, pc, tconn, tpkt, tmsg,
                   batch, wake, torn>>
  BY DEF CloseConnection, msgVars, threadVars

LEMMA ManagerTypes ==
  ASSUME TypeOK, UnaddedFit, ManagerFits, Manager
  PROVE  TypeOK'
  <1> USE DEF threadVars, connVars, packetVars, epollVars, msgVars, kernelVars,
              mgrVars, history
  <1>1. list # <<>> => Tail(list) \in Seq(Messages)
    BY HeadTailProperties DEF TypeOK
  <1>2. CASE EpollWait
    BY <1>2 DEF TypeOK, EpollWait
  <1>3. CASE BatchDone \/ DrainControl \/ ControlDone
    <2>1. CASE BatchDone
      BY <2>1 DEF TypeOK, BatchDone
    <2>2. CASE DrainControl
      BY <2>2 DEF TypeOK, DrainControl
    <2>3. CASE ControlDone
      BY <2>3 DEF TypeOK, ControlDone
    <2>4. QED
      BY <1>3, <2>1, <2>2, <2>3
  <1>4. ASSUME NEW k \in Conns, AddSocket(k)
        PROVE  TypeOK'
    <2>1. list \in Seq(Messages) /\ list # <<>> /\ Head(list) = <<"ADD_SKT", k>>
      BY <1>4 DEF AddSocket, TypeOK
    <2>2. skt[k] \in Fds
      <3>1. 1 \in DOMAIN list /\ list[1] = <<"ADD_SKT", k>>
        BY <2>1, HeadTailProperties, LenProperties
      <3>2. QED
        BY <3>1 DEF UnaddedFit, Unadded, TypeOK
    <2>3. sktMap' \in [Fds -> Conns \cup {None}]
      BY <1>4, <2>2 DEF TypeOK, AddSocket
    <2>4. interest' \in [Fds -> SUBSET {"in", "out"}]
      BY <1>4, EpollTypes DEF TypeOK, AddSocket
    <2>5. QED
      BY <1>1, <1>4, <2>3, <2>4 DEF TypeOK, AddSocket
  <1>5. ASSUME NEW k \in Conns, DelSocket(k)
        PROVE  TypeOK'
    BY <1>1, <1>5, RemoveTypes DEF TypeOK, DelSocket
  <1>6. ASSUME NEW k \in Conns, WriteSocket(k)
        PROVE  TypeOK'
    BY <1>1, <1>6 DEF TypeOK, WriteSocket
  <1>7. ASSUME NEW f \in Fds, NEW e \in {"ended", "out"}, HandleEvent(f, e)
        PROVE  TypeOK'
    BY <1>7, EventTypes DEF TypeOK, HandleEvent
  <1>8. CASE SendPacket
    <2>1. mconn \in Conns
      BY <1>8 DEF SendPacket, ManagerFits
    <2>2. CASE SendFails
      BY <1>8, <2>1, <2>2, SendFailsTypes DEF TypeOK, SendPacket
    <2>3. CASE Busy /\ UNCHANGED queue
      BY <1>8, <2>3, BusyTypes, ResumeTypes DEF TypeOK, SendPacket
    <2>4. CASE mpc' = "sending" /\ UNCHANGED <<queue, epollVars, mconn, mskt>>
      BY <1>8, <2>4 DEF TypeOK, SendPacket
    <2>5. QED
      BY <1>8, <2>2, <2>3, <2>4 DEF SendPacket
  <1>9. CASE SendSome
    BY <1>9, SendSomeTypes DEF TypeOK, SendSome
  <1>10. CASE SendWouldBlock
    BY <1>10, BusyTypes, ResumeTypes DEF TypeOK, SendWouldBlock
  <1>11. CASE SendError
    <2>1. mconn \in Conns
      BY <1>11 DEF SendError, ManagerFits
    <2>2. QED
      BY <1>11, <2>1, SendFailsTypes DEF TypeOK, SendError
  <1>12. CASE SendDone
    <2>1. interest' \in [Fds -> SUBSET {"in", "out"}]
      BY <1>12, EpollTypes DEF TypeOK, SendDone
    <2>2. QED
      BY <1>12, <2>1, ResumeTypes DEF TypeOK, SendDone
  <1>13. CASE CloseConnection
    <2>1. mconn \in Conns /\ Resume
      BY <1>13 DEF CloseConnection, ManagerFits
    <2>2. CASE skt[mconn] = None
      BY <1>13, <2>1, <2>2, ResumeTypes DEF TypeOK, CloseConnection
    <2>3. CASE skt[mconn] # None
      <3>1. queue' \in [Conns -> Seq(Packets)]
        <4>1. queue \in [Conns -> Seq(Packets)] /\ <<>> \in Seq(Packets)
          BY EmptySeq DEF TypeOK
        <4>2. queue' = [queue EXCEPT ![mconn] = <<>>]
          BY <1>13, <2>3, CloseEffect
        <4>3. QED
          BY <2>1, <4>1, <4>2
      <3>2. /\ skt' \in [Conns -> Fds \cup {None}]
            /\ state' \in [Conns -> {"unknown", "connecting", "connected", "reset"}]
            /\ interest' \in [Fds -> SUBSET {"in", "out"}]
        BY <1>13, <2>1, <2>3, CloseEffect DEF TypeOK
      <3>3. link' \in [Fds -> Links]
        BY <1>13, <2>1, <2>3, CloseEffect DEF TypeOK, Links
      <3>4. full' \in [Fds -> BOOLEAN] /\ cut' \in [Fds -> Packets \cup {None}]
        BY <1>13, <2>1, <2>3, CloseEffect DEF TypeOK
      <3>5. QED
        BY <1>13, <2>1, <3>1, <3>2, <3>3, <3>4, ResumeTypes DEF TypeOK, CloseConnection
    <2>4. QED
      BY <2>2, <2>3
  <1>14. QED
    BY <1>2, <1>3, <1>4, <1>5, <1>6, <1>7, <1>8, <1>9, <1>10, <1>11, <1>12, <1>13 DEF Manager

LEMMA KernelTypes ==
  ASSUME TypeOK, NEW f \in Fds, Establish(f) \/ PeerEnds(f) \/ Drain(f)
  PROVE  TypeOK'
  <1> USE DEF TypeOK, threadVars, connVars, packetVars, epollVars, msgVars, mgrVars, history
  <1>1. CASE Establish(f)
    BY <1>1 DEF Establish, Links
  <1>2. CASE PeerEnds(f)
    BY <1>2 DEF PeerEnds, Links
  <1>3. CASE Drain(f)
    BY <1>3 DEF Drain
  <1>4. QED
    BY <1>1, <1>2, <1>3

LEMMA NextTypes ==
  ASSUME TypeOK, ThreadsFit, UnaddedFit, ManagerFits, Next
  PROVE  TypeOK'
  BY ThreadTypes, ManagerTypes, KernelTypes DEF Next

-----------------------------------------------------------------------------
(***************************************************************************)
(* Threads: what their positions say of their connections.                 *)
(***************************************************************************)
\* What a step of a thread leaves alone: the other threads, the manager, the map.
Apart(t) ==
  /\ \A u \in Threads : u # t => /\ pc'[u] = pc[u] /\ tconn'[u] = tconn[u]
                                 /\ tpkt'[u] = tpkt[u] /\ tmsg'[u] = tmsg[u]
  /\ UNCHANGED <<sktMap, interest, mpc, mconn, mskt, batch, wake, full, cut, torn>>

LEMMA LeaveEffect ==
  ASSUME TypeOK, NEW t \in Threads, Leave(t)
  PROVE  /\ pc'[t] = "idle" /\ tmsg'[t] = "WRITE_SKT"
         /\ tconn'[t] \in {tconn[t], None} /\ tpkt'[t] \in {tpkt[t], None}
         /\ Udp => tconn'[t] = tconn[t] /\ tpkt'[t] = tpkt[t]
         /\ ~Udp => tconn'[t] = None /\ tpkt'[t] = None
         /\ \A u \in Threads : u # t => /\ pc'[u] = pc[u] /\ tconn'[u] = tconn[u]
                                        /\ tpkt'[u] = tpkt[u] /\ tmsg'[u] = tmsg[u]
  BY DEF TypeOK, Leave, Goto

LEMMA CreateEffect ==
  ASSUME TypeOK, NEW t \in Threads, NEW k \in Conns, Create(t, k)
  PROVE  /\ pc[t] = "idle" /\ life[k] = "new" /\ Connect(k)
         /\ life' = [life EXCEPT ![k] = "made"]
         /\ pc'[t] = "post" /\ tconn'[t] = k /\ tmsg'[t] = "ADD_SKT" /\ tpkt'[t] = None
         /\ Apart(t) /\ UNCHANGED <<queue, index, written, writes, list, ctl>>
  BY DEF TypeOK, Create, Goto, Apart, packetVars, epollVars, msgVars, mgrVars, history

LEMMA ClearEffect ==
  ASSUME TypeOK, NEW t \in Threads, NEW k \in Conns, Clear(t, k)
  PROVE  /\ "clear" \in Faults /\ pc[t] = "idle" /\ life[k] = "shared"
         /\ life' = [life EXCEPT ![k] = "cleared"]
         /\ pc'[t] = "post" /\ tconn'[t] = k /\ tmsg'[t] = "DEL_SKT" /\ tpkt'[t] = None
         /\ Apart(t) /\ UNCHANGED <<skt, state, queue, index, written, writes, list, ctl, link>>
  BY DEF TypeOK, Clear, Goto, Apart, packetVars, epollVars, msgVars, mgrVars, history,
         kernelVars

LEMMA BeginWriteEffect ==
  ASSUME TypeOK, NEW t \in Threads, NEW k \in Conns, BeginWrite(t, k)
  PROVE  /\ pc[t] = "idle" /\ life[k] = "shared" /\ written' = written + 1
         /\ pc'[t] = "check" /\ tconn'[t] = k /\ tmsg' = tmsg /\ tpkt'[t] = written + 1
         /\ Apart(t) /\ UNCHANGED <<life, skt, state, queue, index, writes, list, ctl, link>>
  BY DEF TypeOK, BeginWrite, Goto, Apart, connVars, epollVars, msgVars, mgrVars, history,
         kernelVars

\* The steps that only go on, from where to where.
LEMMA GoOnEffect ==
  ASSUME TypeOK, NEW t \in Threads, WriteAgain(t) \/ CheckSocket(t) \/ ResetWriteIndex(t)
  PROVE  /\ \/ Udp /\ pc[t] = "idle" /\ tpkt[t] # None /\ pc'[t] = "check" /\ index' = index
            \/ pc[t] = "check" /\ pc'[t] \in {"connect", "reset"} /\ index' = index
            \/ pc[t] = "reset" /\ pc'[t] = "push" /\ index' = [index EXCEPT ![tpkt[t]] = 0]
         /\ UNCHANGED <<tconn, tpkt, tmsg, life, skt, state, queue, written, list, ctl, link>>
         /\ Apart(t)
  BY DEF TypeOK, WriteAgain, CheckSocket, ResetWriteIndex, Goto, Apart, connVars,
         packetVars, epollVars, msgVars, mgrVars, history, kernelVars

LEMMA ReconnectEffect ==
  ASSUME TypeOK, NEW t \in Threads, Reconnect(t)
  PROVE  /\ pc[t] = "connect" /\ pc'[t] = "reset"
         /\ IF skt[tconn[t]] = None THEN Connect(tconn[t]) ELSE UNCHANGED <<skt, state, link>>
         /\ UNCHANGED <<tconn, tpkt, tmsg, life, queue, index, written, list, ctl>>
         /\ Apart(t)
  BY DEF TypeOK, Reconnect, Goto, Apart, packetVars, epollVars, msgVars, mgrVars, history

LEMMA ReconnectFailsEffect ==
  ASSUME TypeOK, NEW t \in Threads, ReconnectFails(t)
  PROVE  /\ "connect" \in Faults /\ pc[t] = "connect" /\ Leave(t)
         /\ UNCHANGED <<life, skt, state, queue, index, written, list, ctl, link>>
         /\ Apart(t)
  BY LeaveEffect DEF ReconnectFails, Apart, connVars, packetVars, epollVars, msgVars,
         mgrVars, history, kernelVars

LEMMA PushEffect ==
  ASSUME TypeOK, NEW t \in Threads, AddPendingWrite(t)
  PROVE  /\ pc[t] = "push"
         /\ queue' = [queue EXCEPT ![tconn[t]] = Append(@, tpkt[t])]
         /\ IF queue[tconn[t]] = <<>>
            THEN pc'[t] = "lookup" /\ UNCHANGED <<tconn, tpkt, tmsg>> ELSE Leave(t)
         /\ UNCHANGED <<life, skt, state, index, written, list, ctl, link>>
         /\ Apart(t)
  BY LeaveEffect DEF TypeOK, AddPendingWrite, Goto, Apart, connVars, epollVars, msgVars,
         mgrVars, history, kernelVars

LEMMA LookupEffect ==
  ASSUME TypeOK, NEW t \in Threads, WriteConnection(t)
  PROVE  /\ pc[t] = "lookup"
         /\ IF Mapped(tconn[t])
            THEN pc'[t] = "post" /\ UNCHANGED <<tconn, tpkt, tmsg>> ELSE Leave(t)
         /\ UNCHANGED <<life, skt, state, queue, index, written, list, ctl, link>>
         /\ Apart(t)
  BY LeaveEffect DEF TypeOK, WriteConnection, Mapped, Goto, Apart, connVars, packetVars,
         epollVars, msgVars, mgrVars, history, kernelVars

LEMMA PostEffect ==
  ASSUME TypeOK, NEW t \in Threads, PostMessage(t)
  PROVE  /\ pc[t] = "post" /\ pc'[t] = "byte" /\ list' = Append(list, <<tmsg[t], tconn[t]>>)
         /\ UNCHANGED <<tconn, tpkt, tmsg, life, skt, state, queue, index, written, ctl, link>>
         /\ Apart(t)
  BY DEF TypeOK, PostMessage, Goto, Apart, connVars, packetVars, epollVars, mgrVars,
         history, kernelVars

LEMMA ByteEffect ==
  ASSUME TypeOK, NEW t \in Threads, SendByte(t)
  PROVE  /\ pc[t] = "byte" /\ Leave(t) /\ ctl' = TRUE
         /\ life' = IF tmsg[t] = "ADD_SKT" THEN [life EXCEPT ![tconn[t]] = "shared"] ELSE life
         /\ UNCHANGED <<skt, state, queue, index, written, list, link>>
         /\ Apart(t)
  BY LeaveEffect DEF SendByte, Apart, packetVars, epollVars, mgrVars, history, kernelVars

LEMMA CreateFailsEffect ==
  ASSUME TypeOK, NEW t \in Threads, NEW k \in Conns, CreateFails(t, k)
  PROVE  /\ "connect" \in Faults /\ life[k] = "new" /\ life' = [life EXCEPT ![k] = "shared"]
         /\ UNCHANGED <<pc, tconn, tpkt, tmsg, skt, state, queue, index, written, list, ctl,
                        link>>
         /\ Apart(t)
  BY DEF CreateFails, Apart, packetVars, epollVars, msgVars, mgrVars, history, kernelVars,
         threadVars

\* A connection goes from new to made, shared and cleared, and is made by one thread.
LifeGoesOn(t) ==
  \A k \in Conns :
    \/ life'[k] = life[k]
    \/ life[k] = "new" /\ life'[k] \in {"made", "shared"}
    \/ life[k] = "shared" /\ life'[k] = "cleared"
    \/ life[k] = "made" /\ life'[k] = "shared" /\ tmsg[t] = "ADD_SKT" /\ tconn[t] = k

\* A thread that leaves has no control message, and only over UDP a packet.
LEMMA LeaveFits ==
  ASSUME TypeOK, ThreadsFit, NEW t \in Threads, pc[t] # "idle", Leave(t), LifeGoesOn(t)
  PROVE  ThreadFits(t)'
  <1>1. ThreadFits(t) /\ tconn[t] \in Conns
    BY HasPacket DEF ThreadsFit
  <1>2. CASE Udp
    BY <1>1, <1>2, LeaveEffect DEF ThreadFits, Known, LifeGoesOn
  <1>3. CASE ~Udp
    BY <1>3, LeaveEffect DEF ThreadFits
  <1>4. QED
    BY <1>2, <1>3

LEMMA ThreadsFitOn ==
  ASSUME TypeOK, ThreadsFit, NEW t \in Threads, Apart(t), LifeGoesOn(t), ThreadFits(t)',
         tmsg'[t] = "ADD_SKT" => \/ tmsg[t] = "ADD_SKT" /\ tconn'[t] = tconn[t]
                                 \/ life[tconn'[t]] = "new"
  PROVE  ThreadsFit'
  <1>1. \A u \in Threads : ThreadFits(u) /\ (tconn[u] \in Conns \/ tconn[u] = None)
    BY DEF ThreadsFit, TypeOK
  <1>2. \A u \in Threads : tmsg[u] # "WRITE_SKT" => tconn[u] \in Conns
    BY <1>1 DEF ThreadFits
  <1>3. ASSUME NEW u \in Threads, u # t
        PROVE  ThreadFits(u)'
    <2>1. /\ pc'[u] = pc[u] /\ tconn'[u] = tconn[u]
          /\ tpkt'[u] = tpkt[u] /\ tmsg'[u] = tmsg[u]
      BY <1>3 DEF Apart
    <2>2. tconn[u] \in Conns /\ life[tconn[u]] \in {"shared", "cleared"} =>
            life'[tconn[u]] \in {"shared", "cleared"}
      BY DEF LifeGoesOn
    <2>3. tmsg[u] = "ADD_SKT" => life'[tconn[u]] = "made"
      BY <1>1, <1>2, <1>3 DEF ThreadsFit, ThreadFits, LifeGoesOn
    <2>4. QED
      BY <1>1, <2>1, <2>2, <2>3 DEF ThreadFits, Known
  <1>4. ASSUME NEW u \in Threads, NEW v \in Threads,
               tmsg'[u] = "ADD_SKT", tmsg'[v] = "ADD_SKT", tconn'[u] = tconn'[v]
        PROVE  u = v
    <2>1. CASE u # t /\ v # t
      BY <1>4, <2>1 DEF Apart, ThreadsFit
    <2>2. ASSUME NEW w \in Threads, w # t, tmsg'[w] = "ADD_SKT", tmsg'[t] = "ADD_SKT",
                 tconn'[w] = tconn'[t]
          PROVE  FALSE
      <3>1. tmsg[w] = "ADD_SKT" /\ tconn'[w] = tconn[w] /\ life[tconn[w]] = "made"
        BY <1>1, <2>2 DEF Apart, ThreadFits
      <3>2. QED
        BY <2>2, <3>1 DEF ThreadsFit
    <2>3. QED
      BY <1>4, <2>1, <2>2
  <1>5. QED
    BY <1>3, <1>4 DEF ThreadsFit

LEMMA StepLife ==
  ASSUME TypeOK, ThreadsFit, NEW t \in Threads, Thread(t)
  PROVE  LifeGoesOn(t) /\ Apart(t)
  <1>1. ASSUME NEW k \in Conns, Create(t, k)
        PROVE  LifeGoesOn(t) /\ Apart(t)
    BY <1>1, CreateEffect DEF LifeGoesOn, TypeOK
  <1>2. ASSUME NEW k \in Conns, CreateFails(t, k)
        PROVE  LifeGoesOn(t) /\ Apart(t)
    BY <1>2, CreateFailsEffect DEF LifeGoesOn, TypeOK
  <1>3. ASSUME NEW k \in Conns, Clear(t, k)
        PROVE  LifeGoesOn(t) /\ Apart(t)
    BY <1>3, ClearEffect DEF LifeGoesOn, TypeOK
  <1>4. ASSUME NEW k \in Conns, BeginWrite(t, k)
        PROVE  LifeGoesOn(t) /\ Apart(t)
    BY <1>4, BeginWriteEffect DEF LifeGoesOn
  <1>5. CASE WriteAgain(t) \/ CheckSocket(t) \/ ResetWriteIndex(t)
    BY <1>5, GoOnEffect DEF LifeGoesOn
  <1>6. CASE \/ Reconnect(t) \/ ReconnectFails(t) \/ AddPendingWrite(t)
             \/ WriteConnection(t) \/ PostMessage(t)
    BY <1>6, ReconnectEffect, ReconnectFailsEffect, PushEffect, LookupEffect, PostEffect
    DEF LifeGoesOn
  <1>7. CASE SendByte(t)
    <2>1. tmsg[t] = "ADD_SKT" => life[tconn[t]] = "made"
      BY DEF ThreadsFit, ThreadFits
    <2>2. CASE tmsg[t] = "ADD_SKT"
      <3>1. life' = [life EXCEPT ![tconn[t]] = "shared"] /\ Apart(t)
        BY <1>7, <2>2, ByteEffect
      <3>2. QED
        BY <2>1, <2>2, <3>1 DEF LifeGoesOn, TypeOK
    <2>3. CASE tmsg[t] # "ADD_SKT"
      BY <1>7, <2>3, ByteEffect DEF LifeGoesOn
    <2>4. QED
      BY <2>2, <2>3
  <1>8. QED
    BY <1>1, <1>2, <1>3, <1>4, <1>5, <1>6, <1>7 DEF Thread, InWrite

LEMMA ThreadThreads ==
  ASSUME TypeOK, ThreadsFit, NEW t \in Threads, Thread(t)
  PROVE  ThreadsFit'
  <1>1. LifeGoesOn(t) /\ Apart(t) /\ ThreadFits(t)
    BY StepLife DEF ThreadsFit
  <1> DEFINE New == tmsg'[t] = "ADD_SKT" => \/ tmsg[t] = "ADD_SKT" /\ tconn'[t] = tconn[t]
                                            \/ life[tconn'[t]] = "new"
  <1> SUFFICES ThreadFits(t)' /\ New
    BY <1>1, ThreadsFitOn
  <1>2. ASSUME NEW k \in Conns, Create(t, k)
        PROVE  ThreadFits(t)' /\ New
    BY <1>2, CreateEffect DEF ThreadFits, TypeOK
  <1>3. ASSUME NEW k \in Conns, CreateFails(t, k)
        PROVE  ThreadFits(t)' /\ New
    <2>1. life[k] = "new" /\ life' = [life EXCEPT ![k] = "shared"]
          /\ UNCHANGED <<pc, tconn, tpkt, tmsg>>
      BY <1>3, CreateFailsEffect
    <2>2. ThreadFits(t)'
      BY <1>1, <2>1 DEF ThreadFits, Known, TypeOK
    <2>3. QED
      BY <2>1, <2>2
  <1>4. ASSUME NEW k \in Conns, Clear(t, k)
        PROVE  ThreadFits(t)' /\ New
    BY <1>4, ClearEffect DEF ThreadFits, Known, TypeOK
  <1>5. ASSUME NEW k \in Conns, BeginWrite(t, k)
        PROVE  ThreadFits(t)' /\ New
    <2>1. tmsg[t] = "WRITE_SKT" /\ written + 1 # None
      BY <1>1, <1>5, BeginWriteEffect, ConnAssumption DEF ThreadFits, TypeOK, Actions, ConnAssumption
    <2>2. QED
      BY <1>1, <1>5, <2>1, BeginWriteEffect DEF ThreadFits, Known
  <1>6. CASE WriteAgain(t) \/ CheckSocket(t) \/ ResetWriteIndex(t)
    BY <1>1, <1>6, GoOnEffect DEF ThreadFits, Known
  <1>7. CASE Reconnect(t)
    BY <1>1, <1>7, ReconnectEffect DEF ThreadFits, Known
  <1>8. CASE ReconnectFails(t)
    BY <1>1, <1>8, ReconnectFailsEffect, LeaveFits, LeaveEffect
  <1>9. CASE AddPendingWrite(t)
    <2>1. CASE queue[tconn[t]] = <<>>
      BY <1>1, <1>9, <2>1, PushEffect DEF ThreadFits, Known
    <2>2. CASE queue[tconn[t]] # <<>>
      BY <1>1, <1>9, <2>2, PushEffect, LeaveFits, LeaveEffect
    <2>3. QED
      BY <2>1, <2>2
  <1>10. CASE WriteConnection(t)
    <2>1. CASE Mapped(tconn[t])
      BY <1>1, <1>10, <2>1, LookupEffect DEF ThreadFits, Known
    <2>2. CASE ~Mapped(tconn[t])
      BY <1>1, <1>10, <2>2, LookupEffect, LeaveFits, LeaveEffect
    <2>3. QED
      BY <2>1, <2>2
  <1>11. CASE PostMessage(t)
    BY <1>1, <1>11, PostEffect DEF ThreadFits, Known
  <1>12. CASE SendByte(t)
    BY <1>1, <1>12, ByteEffect, LeaveFits, LeaveEffect
  <1>13. QED
    <2> HIDE DEF New
    <2>1. QED
      BY <1>2, <1>3, <1>4, <1>5, <1>6, <1>7, <1>8, <1>9, <1>10, <1>11, <1>12 DEF Thread, InWrite

-----------------------------------------------------------------------------
(***************************************************************************)
(* Control messages.                                                       *)
(***************************************************************************)
\* The list after a message is put at its end, or its first is taken.
LEMMA Appended ==
  ASSUME NEW S, NEW s \in Seq(S), NEW e \in S
  PROVE  /\ DOMAIN Append(s, e) = DOMAIN s \cup {Len(s) + 1} /\ Append(s, e)[Len(s) + 1] = e
         /\ Len(s) \in Nat /\ DOMAIN s = 1..Len(s)
         /\ \A i \in DOMAIN s : i \in Nat /\ i <= Len(s) /\ Append(s, e)[i] = s[i]
  BY AppendProperties, LenProperties

LEMMA Shifted ==
  ASSUME NEW S, NEW s \in Seq(S), s # <<>>
  PROVE  /\ 1 \in DOMAIN s /\ Head(s) = s[1] /\ Tail(s) \in Seq(S)
         /\ \A i \in DOMAIN Tail(s) : i + 1 \in DOMAIN s /\ Tail(s)[i] = s[i + 1] /\ i \in Nat \ {0}
  BY HeadTailProperties, LenProperties

LEMMA TailDiffers ==
  ASSUME NEW S, NEW s \in Seq(S), s # <<>>
  PROVE  Tail(s) # s
  <1>1. Len(Tail(s)) = Len(s) - 1 /\ Len(s) \in Nat
    BY HeadTailProperties, LenProperties
  <1>2. \A n \in Nat : n - 1 # n
    OBVIOUS
  <1>3. Len(Tail(s)) # Len(s)
    BY <1>1, <1>2, Zenon
  <1>4. QED
    BY <1>3, Zenon

LEMMA AMessage ==
  ASSUME TypeOK, NEW i \in DOMAIN list
  PROVE  list[i][2] \in Conns /\ list[i] = <<list[i][1], list[i][2]>> /\ list[i][1] \in Actions
  BY ElementOfSeq, LenProperties DEF TypeOK, Messages

\* The manager leaves the threads alone, and takes messages from the front.
LEMMA ManagerFrame ==
  ASSUME Manager
  PROVE  /\ UNCHANGED <<life, written, writes, pc, tconn, tpkt, tmsg>>
         /\ list' = list \/ (list # <<>> /\ list' = Tail(list))
  <1> USE DEF threadVars, connVars, packetVars, epollVars, msgVars, kernelVars,
              mgrVars, history
  <1>1. CASE EpollWait \/ BatchDone \/ DrainControl \/ ControlDone
    BY <1>1 DEF EpollWait, BatchDone, DrainControl, ControlDone
  <1>2. ASSUME NEW k \in Conns, AddSocket(k) \/ DelSocket(k) \/ WriteSocket(k)
        PROVE  /\ UNCHANGED <<life, written, writes, pc, tconn, tpkt, tmsg>>
               /\ list # <<>> /\ list' = Tail(list)
    BY <1>2 DEF AddSocket, DelSocket, WriteSocket
  <1>3. ASSUME NEW f \in Fds, NEW e \in {"ended", "out"}, HandleEvent(f, e)
        PROVE  UNCHANGED <<life, written, writes, pc, tconn, tpkt, tmsg, list>>
    BY <1>3 DEF HandleEvent
  <1>4. CASE SendPacket \/ SendSome \/ SendWouldBlock \/ SendError \/ SendDone \/ CloseConnection
    BY <1>4 DEF SendPacket, SendSome, SendWouldBlock, SendError, SendDone, CloseConnection
  <1>5. QED
    BY <1>1, <1>2, <1>3, <1>4 DEF Manager

LEMMA ManagerThreads ==
  ASSUME ThreadsFit, UNCHANGED <<life, pc, tconn, tpkt, tmsg>>
  PROVE  ThreadsFit'
  BY DEF ThreadsFit, ThreadFits, Known

LEMMA ManagerMessages ==
  ASSUME TypeOK, MessagesFit, Manager
  PROVE  MessagesFit'
  <1>1. UNCHANGED <<life, pc, tconn, tmsg>>
    BY ManagerFrame
  <1>2. CASE list' = list
    BY <1>1, <1>2 DEF MessagesFit, Known
  <1>3. CASE list # <<>> /\ list' = Tail(list)
    <2>1. \A i \in DOMAIN list' : /\ i + 1 \in DOMAIN list /\ list'[i] = list[i + 1]
                                  /\ i \in Nat
      BY <1>3, Shifted DEF TypeOK
    <2>2. \A i \in DOMAIN list' : /\ life'[list'[i][2]] # "new"
                                  /\ list'[i][1] # "ADD_SKT" =>
                                       life'[list'[i][2]] \in {"shared", "cleared"}
      BY <1>1, <2>1 DEF MessagesFit, Known
    <2>3. ASSUME NEW i \in DOMAIN list', NEW j \in DOMAIN list',
                 list'[i][1] = "ADD_SKT", list'[j][2] = list'[i][2], i # j
          PROVE  i < j
      <3>1. i + 1 < j + 1
        BY <2>1, <2>3 DEF MessagesFit
      <3>2. QED
        BY <2>1, <3>1
    <2>4. \A t \in Threads : pc'[t] = "post" /\ tmsg'[t] = "ADD_SKT" =>
            \A i \in DOMAIN list' : list'[i][2] # tconn'[t]
      BY <1>1, <2>1 DEF MessagesFit
    <2>5. QED
      BY <2>2, <2>3, <2>4 DEF MessagesFit, Known
  <1>4. QED
    BY <1>2, <1>3, ManagerFrame

LEMMA PostMessages ==
  ASSUME TypeOK, ThreadsFit, MessagesFit, NEW t \in Threads, PostMessage(t)
  PROVE  MessagesFit'
  <1> DEFINE n == Len(list) + 1
             m == <<tmsg[t], tconn[t]>>
  <1>1. /\ pc[t] = "post" /\ pc'[t] = "byte" /\ list' = Append(list, m)
        /\ UNCHANGED <<tconn, tmsg, life>> /\ Apart(t)
    BY PostEffect
  <1>2. /\ ThreadFits(t) /\ tconn[t] \in Conns /\ tmsg[t] \in Actions
        /\ m \in Messages /\ list \in Seq(Messages)
    BY <1>1, HasPacket DEF ThreadsFit, TypeOK, Messages
  <1>3. /\ DOMAIN list' = DOMAIN list \cup {n} /\ list'[n] = m /\ DOMAIN list = 1..Len(list)
        /\ \A i \in DOMAIN list : i \in Nat /\ i < n /\ list'[i] = list[i] /\ Len(list) \in Nat
    BY <1>1, <1>2, Appended
  <1>4. m[1] = tmsg[t] /\ m[2] = tconn[t]
    OBVIOUS
  <1>5. /\ tmsg[t] = "ADD_SKT" => life[tconn[t]] = "made"
        /\ tmsg[t] # "ADD_SKT" => Known(tconn[t])
    BY <1>1, <1>2 DEF ThreadFits, Actions
  <1> HIDE DEF n, m
  <1>6. ASSUME NEW i \in DOMAIN list'
        PROVE  /\ life'[list'[i][2]] # "new"
               /\ list'[i][1] # "ADD_SKT" => life'[list'[i][2]] \in {"shared", "cleared"}
    <2>1. CASE i \in DOMAIN list
      BY <1>1, <1>3, <2>1 DEF MessagesFit, Known
    <2>2. CASE i = n
      BY <1>1, <1>3, <1>4, <1>5, <2>2 DEF Known
    <2>3. QED
      BY <1>3, <2>1, <2>2
  <1>7. ASSUME NEW i \in DOMAIN list', NEW j \in DOMAIN list',
               list'[i][1] = "ADD_SKT", list'[j][2] = list'[i][2], i # j
        PROVE  i < j
    <2>1. CASE i \in DOMAIN list /\ j \in DOMAIN list
      BY <1>3, <1>7, <2>1 DEF MessagesFit
    <2>2. CASE i \in DOMAIN list /\ j = n
      BY <1>3, <2>2
    <2>3. CASE i = n /\ j \in DOMAIN list
      <3>1. tmsg[t] = "ADD_SKT" /\ list[j][2] = tconn[t]
        BY <1>3, <1>4, <1>7, <2>3
      <3>2. QED
        BY <1>1, <2>3, <3>1 DEF MessagesFit
    <2>4. QED
      BY <1>3, <1>7, <2>1, <2>2, <2>3
  <1>8. ASSUME NEW u \in Threads, pc'[u] = "post", tmsg'[u] = "ADD_SKT",
               NEW i \in DOMAIN list'
        PROVE  list'[i][2] # tconn'[u]
    <2>1. u # t /\ pc[u] = "post" /\ tmsg[u] = "ADD_SKT" /\ tconn'[u] = tconn[u]
      BY <1>1, <1>8 DEF Apart
    <2>2. CASE i \in DOMAIN list
      BY <1>3, <2>1, <2>2 DEF MessagesFit
    <2>3. CASE i = n
      <3>1. life[tconn[u]] = "made"
        BY <2>1 DEF ThreadsFit, ThreadFits
      <3>2. tconn[u] # tconn[t]
        BY <1>5, <2>1, <3>1 DEF ThreadsFit, Known
      <3>3. QED
        BY <1>3, <1>4, <2>1, <2>3, <3>2
    <2>4. QED
      BY <1>3, <2>2, <2>3
  <1>9. QED
    BY <1>6, <1>7, <1>8 DEF MessagesFit, Known

\* Who is about to announce a connection, after a step of a thread.
LEMMA ThreadPosts ==
  ASSUME TypeOK, ThreadsFit, NEW t \in Threads, Thread(t), ~PostMessage(t),
         NEW u \in Threads, pc'[u] = "post", tmsg'[u] = "ADD_SKT"
  PROVE  \/ pc[u] = "post" /\ tmsg[u] = "ADD_SKT" /\ tconn'[u] = tconn[u]
         \/ life[tconn'[u]] = "new" /\ Create(t, tconn'[u]) /\ tconn'[u] \in Conns
  <1>1. Apart(t) /\ ThreadFits(t)
    BY StepLife DEF ThreadsFit
  <1>2. CASE u # t
    BY <1>1, <1>2 DEF Apart
  <1>3. CASE u = t
    <2>1. ASSUME NEW k \in Conns, Create(t, k)
          PROVE  life[tconn'[u]] = "new" /\ Create(t, tconn'[u]) /\ tconn'[u] \in Conns
      BY <1>3, <2>1, CreateEffect
    <2>2. ASSUME NEW k \in Conns, CreateFails(t, k)
          PROVE  pc[u] = "post" /\ tmsg[u] = "ADD_SKT" /\ tconn'[u] = tconn[u]
      BY <2>2, CreateFailsEffect
    <2>3. ASSUME NEW k \in Conns, Clear(t, k) \/ BeginWrite(t, k)
          PROVE  FALSE
      BY <1>3, <2>3, ClearEffect, BeginWriteEffect
    <2>4. CASE WriteAgain(t) \/ CheckSocket(t) \/ ResetWriteIndex(t) \/ Reconnect(t)
      BY <1>3, <2>4, GoOnEffect, ReconnectEffect
    <2>5. CASE ReconnectFails(t) \/ SendByte(t)
      BY <1>3, <2>5, LeaveEffect, ReconnectFailsEffect, ByteEffect
    <2>6. CASE AddPendingWrite(t)
      BY <1>3, <2>6, LeaveEffect, PushEffect
    <2>7. CASE WriteConnection(t)
      <3>1. tmsg[t] = "WRITE_SKT"
        BY <1>1, <2>7, LookupEffect DEF ThreadFits
      <3>2. QED
        BY <1>3, <2>7, <3>1, LeaveEffect, LookupEffect
    <2>8. QED
      BY <2>1, <2>2, <2>3, <2>4, <2>5, <2>6, <2>7 DEF Thread, InWrite
  <1>4. QED
    BY <1>2, <1>3

LEMMA ThreadList ==
  ASSUME TypeOK, NEW t \in Threads, Thread(t), ~PostMessage(t)
  PROVE  list' = list
  BY DEF Thread, InWrite, Create, CreateFails, Clear, BeginWrite, WriteAgain, CheckSocket,
         Reconnect, ReconnectFails, ResetWriteIndex, AddPendingWrite, WriteConnection,
         SendByte, msgVars

LEMMA ThreadMessages ==
  ASSUME TypeOK, ThreadsFit, MessagesFit, NEW t \in Threads, Thread(t)
  PROVE  MessagesFit'
  <1>1. CASE PostMessage(t)
    BY <1>1, PostMessages
  <1>2. CASE ~PostMessage(t)
    <2>1. list' = list /\ LifeGoesOn(t)
      BY <1>2, ThreadList, StepLife
    <2>2. ASSUME NEW i \in DOMAIN list
          PROVE  /\ life'[list[i][2]] # "new"
                 /\ list[i][1] # "ADD_SKT" => life'[list[i][2]] \in {"shared", "cleared"}
      BY <2>1, AMessage DEF MessagesFit, Known, LifeGoesOn
    <2>3. ASSUME NEW u \in Threads, pc'[u] = "post", tmsg'[u] = "ADD_SKT",
                 NEW i \in DOMAIN list
          PROVE  list[i][2] # tconn'[u]
      BY <1>2, <2>3, ThreadPosts DEF MessagesFit
    <2>4. QED
      BY <2>1, <2>2, <2>3 DEF MessagesFit, Known
  <1>3. QED
    BY <1>1, <1>2

-----------------------------------------------------------------------------
(***************************************************************************)
(* Sockets and the map: the steps of a thread.                             *)
(***************************************************************************)
\* A thread gives a socket to a connection that has none: one it creates, or one
\* it writes to.
LEMMA ThreadSockets ==
  ASSUME TypeOK, ThreadsFit, SocketsFit, NEW t \in Threads, Thread(t)
  PROVE  \/ UNCHANGED <<skt, state, link>> /\ \A k \in Conns : ~Create(t, k)
         \/ \E k \in Conns : /\ Connect(k) /\ skt[k] = None
                             /\ life'[k] # "new"
                             /\ Create(t, k) \/ (Known(k) /\ \A l \in Conns : ~Create(t, l))
  <1> DEFINE Same == UNCHANGED <<skt, state, link>> /\ \A k \in Conns : ~Create(t, k)
             Joins(k) == /\ Connect(k) /\ skt[k] = None
                         /\ life'[k] # "new"
                         /\ Create(t, k) \/ (Known(k) /\ \A l \in Conns : ~Create(t, l))
  <1>1. ASSUME NEW k \in Conns, Create(t, k)
        PROVE  Joins(k)
    BY <1>1, CreateEffect DEF SocketsFit, TypeOK
  <1>2. CASE pc[t] = "idle" /\ ~(\E k \in Conns : Create(t, k))
    <2>1. CASE \E k \in Conns : CreateFails(t, k) \/ Clear(t, k) \/ BeginWrite(t, k)
      BY <1>2, <2>1, CreateFailsEffect, ClearEffect, BeginWriteEffect
    <2>2. CASE WriteAgain(t)
      BY <1>2, <2>2, GoOnEffect
    <2>3. QED
      <3>1. ~InWrite(t)
        BY <1>2 DEF InWrite, CheckSocket, Reconnect, ReconnectFails, ResetWriteIndex,
                    AddPendingWrite, WriteConnection, PostMessage, SendByte
      <3>2. QED
        BY <1>2, <2>1, <2>2, <3>1 DEF Thread
  <1>3. CASE pc[t] # "idle"
    <2>1. InWrite(t) /\ \A k \in Conns : ~Create(t, k)
      BY <1>3 DEF Thread, Create, CreateFails, Clear, BeginWrite, WriteAgain
    <2>2. CASE Reconnect(t)
      <3>1. tconn[t] \in Conns /\ Known(tconn[t])
        BY <1>3, <2>2, HasPacket, ReconnectEffect
      <3>2. CASE skt[tconn[t]] = None
        <4>1. Connect(tconn[t]) /\ life' = life
          BY <2>2, <3>2, ReconnectEffect
        <4>2. Joins(tconn[t])
          BY <2>1, <3>1, <3>2, <4>1 DEF Known
        <4>3. QED
          BY <3>1, <4>2
      <3>3. CASE skt[tconn[t]] # None
        BY <2>1, <2>2, <3>3, ReconnectEffect
      <3>4. QED
        BY <3>2, <3>3
    <2>3. CASE ~Reconnect(t)
      <3>1. UNCHANGED <<skt, state, link>>
        BY <2>1, <2>3, GoOnEffect, ReconnectFailsEffect, PushEffect, LookupEffect,
           PostEffect, ByteEffect DEF InWrite
      <3>2. QED
        BY <2>1, <3>1
    <2>4. QED
      BY <2>2, <2>3
  <1>4. QED
    BY <1>1, <1>2, <1>3

\* Nothing in the map changes, nor does a socket a connection has.
LEMMA ThreadKeeps ==
  ASSUME TypeOK, ThreadsFit, SocketsFit, NEW t \in Threads, Thread(t)
  PROVE  /\ Apart(t)
         /\ \A k \in Conns : /\ skt[k] # None => skt'[k] = skt[k] /\ state'[k] = state[k]
                             /\ life[k] # "new" => life'[k] # "new"
                             /\ Known(k) => life'[k] \in {"shared", "cleared"}
                             /\ skt'[k] \in Fds \cup {None}
  <1>1. LifeGoesOn(t) /\ Apart(t)
    BY StepLife
  <1>2. \A k \in Conns : skt[k] # None => skt'[k] = skt[k] /\ state'[k] = state[k]
    BY ThreadSockets, ConnectTypes
  <1>3. \A k \in Conns : skt'[k] \in Fds \cup {None}
    BY ThreadSockets, ConnectTypes DEF TypeOK
  <1>4. QED
    BY <1>1, <1>2, <1>3 DEF LifeGoesOn, Known

LEMMA ThreadSocketsFit ==
  ASSUME TypeOK, ThreadsFit, SocketsFit, NEW t \in Threads, Thread(t)
  PROVE  SocketsFit'
  <1>1. CASE UNCHANGED <<skt, link>>
    BY <1>1, ThreadKeeps DEF SocketsFit
  <1>2. ASSUME NEW k \in Conns, Connect(k), skt[k] = None, life'[k] # "new"
        PROVE  SocketsFit'
    <2>1. /\ link[skt'[k]] = "closed" /\ skt'[k] \in Fds /\ link'[skt'[k]] # "closed"
          /\ \A l \in Conns : l # k => skt'[l] = skt[l]
          /\ \A f \in Fds : f # skt'[k] => link'[f] = link[f]
      BY <1>2, ConnectTypes
    <2>2. \A l \in Conns : l # k /\ skt'[l] # None =>
            /\ skt'[l] # skt'[k] /\ link'[skt'[l]] # "closed" /\ life'[l] # "new"
      BY <2>1, ThreadKeeps DEF SocketsFit
    <2>3. \A l \in Conns : skt'[l] # None => link'[skt'[l]] # "closed" /\ life'[l] # "new"
      BY <1>2, <2>1, <2>2
    <2>4. \A l, m \in Conns : skt'[l] = skt'[m] /\ skt'[l] # None => l = m
      BY <2>1, <2>2 DEF SocketsFit
    <2>5. QED
      BY <2>3, <2>4 DEF SocketsFit
  <1>3. QED
    BY <1>1, <1>2, ThreadSockets

LEMMA ThreadMap ==
  ASSUME TypeOK, ThreadsFit, SocketsFit, ManagerFits, MapIsSound, NEW t \in Threads, Thread(t)
  PROVE  ManagerFits' /\ MapIsSound'
  <1>1. Apart(t) /\ \A k \in Conns : /\ skt[k] # None => skt'[k] = skt[k]
                                     /\ life[k] # "new" => life'[k] # "new"
    BY ThreadKeeps
  <1>2. UNCHANGED <<sktMap, interest, mpc, mconn, mskt, wake>>
    BY <1>1 DEF Apart
  <1>3. ManagerFits'
    BY <1>1, <1>2 DEF ManagerFits
  <1>4. \A f \in Fds : sktMap[f] # None => sktMap[f] \in Conns /\ skt[sktMap[f]] # None
    BY NoneIsNone DEF MapIsSound, TypeOK
  <1>5. MapIsSound'
    BY <1>1, <1>2, <1>4 DEF MapIsSound
  <1>6. QED
    BY <1>3, <1>5

\* A connection that is not in the map yet, after a step of a thread.
LEMMA ThreadUnadded ==
  ASSUME TypeOK, ThreadsFit, NEW t \in Threads, Thread(t), NEW k \in Conns, Unadded(k)'
  PROVE  Unadded(k) \/ (Create(t, k) /\ life[k] = "new")
  <1>1. CASE PostMessage(t)
    <2> DEFINE n == Len(list) + 1
    <2>1. /\ pc[t] = "post" /\ pc'[t] = "byte" /\ list' = Append(list, <<tmsg[t], tconn[t]>>)
          /\ UNCHANGED <<tconn, tmsg>> /\ Apart(t)
      BY <1>1, PostEffect
    <2>2. <<tmsg[t], tconn[t]>> \in Messages /\ list \in Seq(Messages)
      BY <2>1, HasPacket DEF TypeOK, Messages
    <2>3. /\ DOMAIN list' = DOMAIN list \cup {n} /\ list'[n] = <<tmsg[t], tconn[t]>>
          /\ \A i \in DOMAIN list : list'[i] = list[i]
      BY <2>1, <2>2, Appended
    <2> HIDE DEF n
    <2>4. ASSUME NEW u \in Threads, Posting(k, u)'
          PROVE  Unadded(k)
      BY <2>1, <2>4 DEF Posting, Unadded, Apart
    <2>5. ASSUME NEW i \in DOMAIN list', list'[i] = <<"ADD_SKT", k>>
          PROVE  Unadded(k)
      BY <2>1, <2>3, <2>5 DEF Posting, Unadded
    <2>6. QED
      BY <2>4, <2>5 DEF Unadded
  <1>2. CASE ~PostMessage(t)
    <2>1. list' = list
      BY <1>2, ThreadList
    <2>2. ASSUME NEW u \in Threads, Posting(k, u)'
          PROVE  Unadded(k) \/ (Create(t, k) /\ life[k] = "new")
      <3>1. pc'[u] = "post" /\ tmsg'[u] = "ADD_SKT" /\ tconn'[u] = k
        BY <2>2 DEF Posting
      <3>2. QED
        BY <1>2, <3>1, ThreadPosts DEF Unadded, Posting
    <2>3. QED
      BY <2>1, <2>2 DEF Unadded
  <1>3. QED
    BY <1>1, <1>2

LEMMA ThreadUnaddedFit ==
  ASSUME TypeOK, ThreadsFit, SocketsFit, ManagerFits, MapIsSound, UnaddedFit,
         NEW t \in Threads, Thread(t)
  PROVE  UnaddedFit'
  <1> SUFFICES ASSUME NEW k \in Conns, Unadded(k)'
               PROVE  skt'[k] # None /\ mconn' # k /\ \A f \in Fds : sktMap'[f] # k
    BY DEF UnaddedFit
  <1>1. UNCHANGED <<mconn, sktMap>>
    BY ThreadKeeps DEF Apart
  <1>2. CASE Unadded(k)
    BY <1>1, <1>2, ThreadKeeps DEF UnaddedFit
  <1>3. CASE Create(t, k) /\ life[k] = "new"
    <2>1. skt[k] = None /\ skt'[k] \in Fds
      BY <1>3, CreateEffect, ConnectTypes DEF SocketsFit
    <2>2. mconn # k
      BY <1>3, NoneIsNone DEF ManagerFits, TypeOK
    <2>3. \A f \in Fds : sktMap[f] # k
      BY <2>1, NoneIsNone DEF MapIsSound
    <2>4. QED
      BY <1>1, <2>1, <2>2, <2>3, NoneIsNone
  <1>4. QED
    BY <1>2, <1>3, ThreadUnadded

LEMMA ThreadWakes ==
  ASSUME TypeOK, ThreadsFit, NoMessageForgotten, NEW t \in Threads, Thread(t)
  PROVE  NoMessageForgotten'
  <1>1. Apart(t)
    BY StepLife
  <1>2. CASE PostMessage(t)
    BY <1>2, PostEffect DEF NoMessageForgotten
  <1>3. CASE SendByte(t)
    BY <1>3, ByteEffect DEF NoMessageForgotten
  <1>4. CASE pc[t] = "byte" /\ ~SendByte(t)
    <2>1. PICK k \in Conns : CreateFails(t, k)
      BY <1>4 DEF Thread, InWrite, Create, Clear, BeginWrite, WriteAgain, CheckSocket,
                  Reconnect, ReconnectFails, ResetWriteIndex, AddPendingWrite,
                  WriteConnection, PostMessage
    <2>2. QED
      BY <1>4, <2>1 DEF CreateFails
  <1>5. CASE pc[t] # "byte" /\ ~PostMessage(t)
    <2>1. list' = list /\ (ctl => ctl')
      BY <1>5, ThreadList
      DEF Thread, InWrite, Create, CreateFails, Clear, BeginWrite, WriteAgain, CheckSocket,
          Reconnect, ReconnectFails, ResetWriteIndex, AddPendingWrite, WriteConnection,
          SendByte, msgVars
    <2>2. \A u \in Threads : pc[u] = "byte" => pc'[u] = "byte"
      BY <1>1, <1>5 DEF Apart
    <2>3. QED
      BY <1>1, <2>1, <2>2 DEF NoMessageForgotten, FromEvent, Apart
  <1>6. QED
    BY <1>2, <1>3, <1>4, <1>5

-----------------------------------------------------------------------------
(***************************************************************************)
(* Sockets and the map: the steps of the manager.                          *)
(***************************************************************************)
\* A connection that is not in the map yet is not one whose message is taken.
LEMMA ManagerUnadded ==
  ASSUME TypeOK, MessagesFit, UNCHANGED <<pc, tconn, tmsg>>,
         list' = list \/ (list # <<>> /\ list' = Tail(list)),
         NEW k \in Conns, Unadded(k)'
  PROVE  /\ Unadded(k)
         /\ list' # list => Head(list)[2] # k
  <1>1. CASE list' = list
    BY <1>1 DEF Unadded, Posting
  <1>2. CASE list # <<>> /\ list' = Tail(list)
    <2>1. /\ 1 \in DOMAIN list /\ Head(list) = list[1]
          /\ \A i \in DOMAIN list' : /\ i + 1 \in DOMAIN list /\ list'[i] = list[i + 1]
                                     /\ i \in Nat \ {0}
      BY <1>2, Shifted DEF TypeOK
    <2>2. ASSUME NEW u \in Threads, Posting(k, u)'
          PROVE  Unadded(k) /\ Head(list)[2] # k
      BY <2>1, <2>2 DEF Posting, Unadded, MessagesFit
    <2>3. ASSUME NEW i \in DOMAIN list', list'[i] = <<"ADD_SKT", k>>
          PROVE  Unadded(k) /\ Head(list)[2] # k
      <3>1. list[i + 1] = <<"ADD_SKT", k>> /\ i + 1 \in DOMAIN list /\ i + 1 # 1 /\ ~(i + 1 < 1)
        <4>1. i \in Nat \ {0}
          BY <2>1
        <4>2. i + 1 # 1 /\ ~(i + 1 < 1)
          BY <4>1
        <4>3. QED
          BY <2>1, <2>3, <4>2
      <3>2. list[i + 1][1] = "ADD_SKT" /\ list[i + 1][2] = k
        BY <3>1
      <3>3. Head(list)[2] # k
        BY <2>1, <3>1, <3>2 DEF MessagesFit
      <3>4. QED
        BY <3>1, <3>3 DEF Unadded
    <2>4. QED
      BY <2>2, <2>3 DEF Unadded
  <1>3. QED
    BY <1>1, <1>2

\* A connection is in the map by the socket it has, and by no other.
LEMMA OneEntry ==
  ASSUME TypeOK, MapIsSound, NEW f \in Fds, NEW k \in Conns, sktMap[f] = k
  PROVE  skt[k] = f /\ \A g \in Fds : sktMap[g] = k => g = f
  BY NoneIsNone DEF MapIsSound

LEMMA RemoveSocketSound ==
  ASSUME TypeOK, MapIsSound, NEW f \in Fds, RemoveSocket(f), skt' = skt
  PROVE  MapIsSound' /\ sktMap'[f] = None /\ \A g \in Fds : g # f => sktMap'[g] = sktMap[g]
  BY DEF TypeOK, MapIsSound, RemoveSocket

LEMMA RemoveConnSound ==
  ASSUME TypeOK, MapIsSound, NEW k \in Conns, RemoveConn(k), skt' = skt
  PROVE  /\ MapIsSound'
         /\ \A g \in Fds : sktMap'[g] \in {sktMap[g], None} /\ sktMap'[g] # k
  <1>1. CASE \E f \in Fds : sktMap[f] = k
    <2>1. PICK f \in Fds : /\ sktMap[f] = k
                           /\ sktMap' = [sktMap EXCEPT ![f] = None]
                           /\ interest' = [g \in Fds |-> IF g = skt[k] THEN {} ELSE interest[g]]
      BY <1>1 DEF RemoveConn
    <2>2. skt[k] = f /\ \A g \in Fds : sktMap[g] = k => g = f
      BY <2>1, OneEntry
    <2>3. \A g \in Fds : /\ sktMap'[g] = (IF g = f THEN None ELSE sktMap[g])
                         /\ interest'[g] = (IF g = f THEN {} ELSE interest[g])
      BY <2>1, <2>2 DEF TypeOK
    <2>4. MapIsSound'
      BY <2>3 DEF MapIsSound
    <2>5. QED
      BY <2>2, <2>3, <2>4, NoneIsNone
  <1>2. CASE ~(\E f \in Fds : sktMap[f] = k)
    BY <1>2 DEF RemoveConn, MapIsSound
  <1>3. QED
    BY <1>1, <1>2

LEMMA WaitSound ==
  ASSUME TypeOK, MessagesFit, SocketsFit, UnaddedFit, ManagerFits, MapIsSound,
         NoMessageForgotten, EpollWait \/ BatchDone \/ DrainControl \/ ControlDone
  PROVE  SocketsFit' /\ UnaddedFit' /\ ManagerFits' /\ MapIsSound' /\ NoMessageForgotten'
  <1>1. UNCHANGED <<skt, link, life, sktMap, interest, list, mconn, mskt, pc, tconn, tmsg>>
    BY DEF EpollWait, BatchDone, DrainControl, ControlDone, connVars, kernelVars, epollVars,
           msgVars, threadVars
  <1>2. SocketsFit' /\ MapIsSound'
    BY <1>1 DEF SocketsFit, MapIsSound
  <1>3. UnaddedFit'
    BY <1>1, ManagerUnadded DEF UnaddedFit
  <1>4. /\ mpc \in {"poll", "batch", "control"} /\ mpc' \in {"poll", "batch", "control"}
        /\ mpc' = "poll" => ~wake'
    BY DEF EpollWait, BatchDone, DrainControl, ControlDone
  <1>5. ManagerFits'
    BY <1>1, <1>4 DEF ManagerFits
  <1>6. NoMessageForgotten'
    <2>1. CASE EpollWait
      BY <1>1, <2>1 DEF EpollWait, NoMessageForgotten, ManagerFits, msgVars
    <2>2. CASE BatchDone
      BY <1>1, <2>2 DEF BatchDone, NoMessageForgotten, msgVars
    <2>3. CASE DrainControl
      BY <2>3 DEF DrainControl, NoMessageForgotten
    <2>4. CASE ControlDone
      BY <1>1, <2>4 DEF ControlDone, NoMessageForgotten
    <2>5. QED
      BY <2>1, <2>2, <2>3, <2>4
  <1>7. QED
    BY <1>2, <1>3, <1>5, <1>6

LEMMA AddSound ==
  ASSUME TypeOK, MessagesFit, SocketsFit, UnaddedFit, ManagerFits, MapIsSound,
         NEW k \in Conns, AddSocket(k)
  PROVE  SocketsFit' /\ UnaddedFit' /\ ManagerFits' /\ MapIsSound' /\ NoMessageForgotten'
  <1>1. /\ mpc = "control" /\ list # <<>> /\ Head(list) = <<"ADD_SKT", k>> /\ list' = Tail(list)
        /\ UNCHANGED <<skt, state, link, life, mpc, mconn, mskt, wake, pc, tconn, tmsg>>
    BY DEF AddSocket, connVars, kernelVars, mgrVars, threadVars
  <1>2. Unadded(k) /\ skt[k] \in Fds /\ \A f \in Fds : sktMap[f] # k
    <2>1. 1 \in DOMAIN list /\ list[1] = <<"ADD_SKT", k>>
      BY <1>1, Shifted DEF TypeOK
    <2>2. QED
      BY <2>1 DEF Unadded, UnaddedFit, TypeOK
  <1>3. sktMap[skt[k]] = None /\ interest[skt[k]] = {}
    BY <1>2, NoneIsNone DEF MapIsSound, SocketsFit, TypeOK
  <1>4. /\ \A f \in Fds : sktMap'[f] = IF f = skt[k] THEN k ELSE sktMap[f]
        /\ interest' = [interest EXCEPT ![skt[k]] =
                          IF state[k] = "connected" THEN {"in"} ELSE {"in", "out"}]
    BY <1>2, <1>3, NoneIsNone DEF AddSocket, EpollAdd, TypeOK
  <1>5. \A f \in Fds : /\ f # skt[k] => interest'[f] = interest[f]
                       /\ f = skt[k] => interest'[f] # {}
    <2>1. "in" \in interest'[skt[k]]
      BY <1>2, <1>4 DEF TypeOK
    <2>2. \A f \in Fds : f # skt[k] => interest'[f] = interest[f]
      BY <1>4 DEF TypeOK
    <2>3. QED
      BY <2>1, <2>2
  <1>6. SocketsFit' /\ MapIsSound'
    <2>1. SocketsFit'
      BY <1>1 DEF SocketsFit
    <2>2. \A f \in Fds : f # skt[k] => sktMap'[f] = sktMap[f] /\ interest'[f] = interest[f]
      BY <1>4, <1>5
    <2>3. sktMap'[skt[k]] = k /\ k # None /\ interest'[skt[k]] # {}
      BY <1>2, <1>4, <1>5, NoneIsNone
    <2>4. MapIsSound'
      BY <1>1, <2>2, <2>3 DEF MapIsSound
    <2>5. QED
      BY <2>1, <2>4
  <1>7. ManagerFits'
    BY <1>1 DEF ManagerFits
  <1>8. \A l \in Conns : Unadded(l)' => Unadded(l) /\ l # k
    <2>1. ~Unadded(k)'
      <3>1. /\ 1 \in DOMAIN list /\ list[1] = <<"ADD_SKT", k>>
            /\ \A i \in DOMAIN list' : /\ i + 1 \in DOMAIN list /\ list'[i] = list[i + 1]
                                       /\ i \in Nat \ {0}
        BY <1>1, Shifted DEF TypeOK
      <3>2. list' # list
        BY <1>1, TailDiffers DEF TypeOK
      <3>3. Head(list)[2] = k
        BY <1>1
      <3>4. QED
        BY <1>1, <3>2, <3>3, ManagerUnadded
    <2>2. QED
      BY <1>1, <2>1, ManagerUnadded
  <1>9. UnaddedFit'
    BY <1>1, <1>4, <1>8 DEF UnaddedFit
  <1>10. QED
    BY <1>1, <1>6, <1>7, <1>9 DEF NoMessageForgotten

LEMMA DelWriteSound ==
  ASSUME TypeOK, MessagesFit, SocketsFit, UnaddedFit, ManagerFits, MapIsSound,
         NEW k \in Conns, DelSocket(k) \/ WriteSocket(k)
  PROVE  SocketsFit' /\ UnaddedFit' /\ ManagerFits' /\ MapIsSound' /\ NoMessageForgotten'
  <1>1. /\ mpc = "control" /\ list # <<>> /\ list' = Tail(list) /\ mconn' = k
        /\ Head(list) \in {<<"DEL_SKT", k>>, <<"WRITE_SKT", k>>}
        /\ UNCHANGED <<skt, link, life, mskt, wake, pc, tconn, tmsg>>
    BY DEF DelSocket, WriteSocket, connVars, kernelVars, threadVars
  <1>2. life[k] # "new" /\ Head(list)[2] = k
    <2>1. 1 \in DOMAIN list /\ Head(list) = list[1]
      BY <1>1, Shifted DEF TypeOK
    <2>2. QED
      BY <1>1, <2>1 DEF MessagesFit
  <1>3. /\ \A f \in Fds : sktMap'[f] \in {sktMap[f], None}
        /\ MapIsSound'
        /\ mpc' = "send" \/ (mpc' = "close" /\ \A f \in Fds : sktMap'[f] # k)
    <2>1. CASE DelSocket(k)
      BY <1>1, <2>1, RemoveConnSound DEF DelSocket
    <2>2. CASE WriteSocket(k)
      BY <1>1, <2>2 DEF WriteSocket, MapIsSound, epollVars
    <2>3. QED
      BY <2>1, <2>2
  <1>4. SocketsFit'
    BY <1>1 DEF SocketsFit
  <1>5. mskt = None
    BY <1>1 DEF ManagerFits
  <1>6. ManagerFits'
    BY <1>1, <1>2, <1>3, <1>5 DEF ManagerFits
  <1>7. \A l \in Conns : Unadded(l)' => Unadded(l) /\ l # k
    <2>1. list' # list
      BY <1>1, TailDiffers DEF TypeOK
    <2>2. QED
      BY <1>1, <1>2, <2>1, ManagerUnadded
  <1>8. UnaddedFit'
    BY <1>1, <1>3, <1>7, NoneIsNone DEF UnaddedFit
  <1>9. QED
    BY <1>1, <1>3, <1>4, <1>5, <1>6, <1>8 DEF NoMessageForgotten, FromEvent

LEMMA EventSound ==
  ASSUME TypeOK, MessagesFit, SocketsFit, UnaddedFit, ManagerFits, MapIsSound,
         NoMessageForgotten, NEW f \in Fds, NEW e, HandleEvent(f, e)
  PROVE  SocketsFit' /\ UnaddedFit' /\ ManagerFits' /\ MapIsSound' /\ NoMessageForgotten'
  <1>1. /\ mpc = "batch" /\ mconn = None /\ mskt = None
        /\ UNCHANGED <<skt, link, life, list, ctl, wake, pc, tconn, tmsg>>
    BY DEF HandleEvent, ManagerFits, msgVars, kernelVars, threadVars
  <1>2. \A k \in Conns : Unadded(k)' => Unadded(k)
    BY <1>1, ManagerUnadded
  <1>3. SocketsFit'
    BY <1>1 DEF SocketsFit
  <1>4. sktMap[f] = None \/ sktMap[f] \in Conns
    BY DEF TypeOK
  <1>5. ASSUME /\ \A g \in Fds : sktMap'[g] \in {sktMap[g], None}
               /\ mconn' = None \/ mconn' = sktMap[f]
        PROVE  UnaddedFit' /\ NoMessageForgotten'
    <2>1. UnaddedFit'
      BY <1>1, <1>2, <1>5, NoneIsNone DEF UnaddedFit
    <2>2. QED
      BY <1>1, <2>1 DEF NoMessageForgotten
  <1>6. CASE /\ sktMap[f] = None /\ interest' = [interest EXCEPT ![f] = {}]
             /\ UNCHANGED <<sktMap, state, mpc, mconn, mskt>>
    <2>1. MapIsSound'
      BY <1>1, <1>6 DEF MapIsSound, TypeOK
    <2>2. ManagerFits'
      BY <1>1, <1>6 DEF ManagerFits
    <2>3. QED
      BY <1>1, <1>3, <1>5, <1>6, <2>1, <2>2
  <1>7. CASE /\ sktMap[f] # None /\ RemoveSocket(f) /\ mpc' = "close"
             /\ mconn' = sktMap[f] /\ mskt' = f /\ state' = state
    <2>1. MapIsSound' /\ sktMap'[f] = None /\ \A g \in Fds : g # f => sktMap'[g] = sktMap[g]
      BY <1>1, <1>7, RemoveSocketSound
    <2>2. life[sktMap[f]] # "new" /\ sktMap[f] \in Conns
      BY <1>4, <1>7, NoneIsNone DEF SocketsFit, MapIsSound
    <2>3. \A g \in Fds : sktMap'[g] # sktMap[f]
      BY <1>4, <1>7, <2>1, OneEntry
    <2>4. ManagerFits'
      BY <1>1, <1>7, <2>2, <2>3 DEF ManagerFits
    <2>5. QED
      BY <1>1, <1>3, <1>5, <1>7, <2>1, <2>4
  <1>8. CASE /\ sktMap[f] # None /\ mpc' = "send" /\ mconn' = sktMap[f] /\ mskt' = f
             /\ UNCHANGED <<sktMap, interest>>
    <2>1. life[sktMap[f]] # "new" /\ sktMap[f] \in Conns
      BY <1>4, <1>8, NoneIsNone DEF SocketsFit, MapIsSound
    <2>2. ManagerFits'
      BY <1>1, <1>8, <2>1 DEF ManagerFits
    <2>3. MapIsSound'
      BY <1>1, <1>8 DEF MapIsSound
    <2>4. QED
      BY <1>1, <1>3, <1>5, <1>8, <2>2, <2>3
  <1>9. QED
    BY <1>6, <1>7, <1>8 DEF HandleEvent, epollVars

\* A MOD does not change which sockets are watched.
LEMMA ModKeeps ==
  ASSUME TypeOK, NEW f, NEW events \in SUBSET {"in", "out"}, events # {}, EpollMod(f, events)
  PROVE  \A g \in Fds : interest'[g] = {} <=> interest[g] = {}
  BY DEF TypeOK, EpollMod

\* What sending has in common.
SendFrame == UNCHANGED <<skt, link, life, list, ctl, wake, pc, tconn, tmsg>>

LEMMA SendFailsSound ==
  ASSUME TypeOK, MessagesFit, SocketsFit, UnaddedFit, ManagerFits, MapIsSound,
         NoMessageForgotten, mpc \in {"send", "sending"}, SendFails, SendFrame
  PROVE  SocketsFit' /\ UnaddedFit' /\ ManagerFits' /\ MapIsSound' /\ NoMessageForgotten'
  <1> USE DEF SendFrame
  <1>1. mconn \in Conns /\ life[mconn] # "new" /\ mpc' = "close" /\ UNCHANGED <<mconn, mskt>>
    BY DEF ManagerFits, SendFails
  <1>2. MapIsSound' /\ \A g \in Fds : sktMap'[g] \in {sktMap[g], None} /\ sktMap'[g] # mconn
    <2>1. CASE FromEvent
      <3>1. mskt \in Fds /\ sktMap[mskt] = mconn /\ RemoveSocket(mskt)
        BY <2>1 DEF ManagerFits, FromEvent, TypeOK, SendFails
      <3>2. /\ MapIsSound' /\ sktMap'[mskt] = None
            /\ \A g \in Fds : g # mskt => sktMap'[g] = sktMap[g]
        BY <3>1, RemoveSocketSound
      <3>3. QED
        BY <1>1, <3>1, <3>2, OneEntry, NoneIsNone
    <2>2. CASE ~FromEvent
      BY <1>1, <2>2, RemoveConnSound DEF SendFails
    <2>3. QED
      BY <2>1, <2>2
  <1>3. SocketsFit'
    BY DEF SocketsFit
  <1>4. UnaddedFit'
    BY <1>1, <1>2, ManagerUnadded, NoneIsNone DEF UnaddedFit
  <1>5. ManagerFits'
    BY <1>1, <1>2 DEF ManagerFits
  <1>6. NoMessageForgotten'
    BY <1>1 DEF NoMessageForgotten, FromEvent
  <1>7. QED
    BY <1>2, <1>3, <1>4, <1>5, <1>6

LEMMA ResumeSound ==
  ASSUME TypeOK, MessagesFit, SocketsFit, UnaddedFit, ManagerFits, MapIsSound,
         NoMessageForgotten, mpc \in {"send", "sending"}, Resume, SendFrame, sktMap' = sktMap,
         \A g \in Fds : interest'[g] = {} <=> interest[g] = {}
  PROVE  SocketsFit' /\ UnaddedFit' /\ ManagerFits' /\ MapIsSound' /\ NoMessageForgotten'
  <1> USE DEF SendFrame
  <1>1. /\ mpc' = IF FromEvent THEN "batch" ELSE "control"
        /\ mconn' = None /\ mskt' = None
    BY DEF Resume
  <1>2. SocketsFit' /\ MapIsSound'
    BY DEF SocketsFit, MapIsSound
  <1>3. UnaddedFit'
    BY <1>1, ManagerUnadded, NoneIsNone DEF UnaddedFit
  <1>4. ManagerFits'
    BY <1>1 DEF ManagerFits
  <1>5. NoMessageForgotten'
    BY <1>1 DEF NoMessageForgotten, FromEvent
  <1>6. QED
    BY <1>2, <1>3, <1>4, <1>5

LEMMA BusySound ==
  ASSUME TypeOK, MessagesFit, SocketsFit, UnaddedFit, ManagerFits, MapIsSound,
         NoMessageForgotten, mpc \in {"send", "sending"}, Busy, SendFrame
  PROVE  SocketsFit' /\ UnaddedFit' /\ ManagerFits' /\ MapIsSound' /\ NoMessageForgotten'
  <1>1. \A g \in Fds : interest'[g] = {} <=> interest[g] = {}
    BY ModKeeps DEF Busy
  <1>2. QED
    BY <1>1, ResumeSound DEF Busy

LEMMA GoOnSound ==
  ASSUME TypeOK, MessagesFit, SocketsFit, UnaddedFit, ManagerFits, MapIsSound,
         NoMessageForgotten, mpc \in {"send", "sending"}, mpc' = "sending", SendFrame,
         skt[mconn] # None, UNCHANGED <<sktMap, interest, mconn, mskt>>
  PROVE  SocketsFit' /\ UnaddedFit' /\ ManagerFits' /\ MapIsSound' /\ NoMessageForgotten'
  <1> USE DEF SendFrame
  <1>1. SocketsFit' /\ MapIsSound'
    BY DEF SocketsFit, MapIsSound
  <1>2. UnaddedFit'
    BY ManagerUnadded DEF UnaddedFit
  <1>3. ManagerFits'
    BY DEF ManagerFits
  <1>4. NoMessageForgotten'
    BY DEF NoMessageForgotten, FromEvent
  <1>5. QED
    BY <1>1, <1>2, <1>3, <1>4

LEMMA SendSound ==
  ASSUME TypeOK, MessagesFit, SocketsFit, UnaddedFit, ManagerFits, MapIsSound,
         NoMessageForgotten,
         SendPacket \/ SendSome \/ SendWouldBlock \/ SendError \/ SendDone
  PROVE  SocketsFit' /\ UnaddedFit' /\ ManagerFits' /\ MapIsSound' /\ NoMessageForgotten'
  <1>1. SendFrame /\ mpc \in {"send", "sending"}
    BY DEF SendPacket, SendSome, SendWouldBlock, SendError, SendDone, SendFrame, connVars,
           packetVars, kernelVars, epollVars, msgVars, threadVars, mgrVars
  <1>2. CASE SendPacket
    <2>1. CASE SendFails
      BY <1>1, <2>1, SendFailsSound
    <2>2. CASE Busy
      BY <1>1, <2>2, BusySound
    <2>3. CASE skt[mconn] # None /\ mpc' = "sending" /\ UNCHANGED <<queue, epollVars, mconn, mskt>>
      BY <1>1, <2>3, GoOnSound DEF epollVars
    <2>4. QED
      BY <1>2, <2>1, <2>2, <2>3 DEF SendPacket
  <1>3. CASE SendSome
    <2>1. skt[mconn] # None /\ mpc' = "sending" /\ UNCHANGED <<sktMap, interest, mconn, mskt>>
      BY <1>3 DEF SendSome, ManagerFits, epollVars, mgrVars
    <2>2. QED
      BY <1>1, <2>1, GoOnSound
  <1>4. CASE SendWouldBlock
    BY <1>1, <1>4, BusySound DEF SendWouldBlock
  <1>5. CASE SendError
    BY <1>1, <1>5, SendFailsSound DEF SendError
  <1>6. CASE SendDone
    <2>1. \A g \in Fds : interest'[g] = {} <=> interest[g] = {}
      BY <1>6, ModKeeps DEF SendDone
    <2>2. QED
      BY <1>1, <1>6, <2>1, ResumeSound DEF SendDone
  <1>7. QED
    BY <1>2, <1>3, <1>4, <1>5, <1>6

LEMMA CloseSound ==
  ASSUME TypeOK, MessagesFit, SocketsFit, UnaddedFit, ManagerFits, MapIsSound,
         NoMessageForgotten, CloseConnection
  PROVE  SocketsFit' /\ UnaddedFit' /\ ManagerFits' /\ MapIsSound' /\ NoMessageForgotten'
  <1>1. /\ mpc = "close" /\ mpc' = IF FromEvent THEN "batch" ELSE "control"
        /\ mconn' = None /\ mskt' = None
        /\ UNCHANGED <<life, sktMap, list, ctl, wake, pc, tconn, tmsg>>
    BY CloseEffect DEF Resume
  <1>2. mconn \in Conns /\ \A f \in Fds : sktMap[f] # mconn
    BY <1>1 DEF ManagerFits
  <1>3. ManagerFits'
    BY <1>1 DEF ManagerFits
  <1>4. NoMessageForgotten'
    BY <1>1 DEF NoMessageForgotten, FromEvent
  <1>5. \A k \in Conns : Unadded(k)' => Unadded(k)
    BY <1>1, ManagerUnadded
  <1>6. CASE skt[mconn] = None
    <2>1. UNCHANGED <<skt, link, interest>>
      BY <1>6, CloseEffect
    <2>2. QED
      BY <1>1, <1>3, <1>4, <1>5, <2>1, NoneIsNone
      DEF SocketsFit, MapIsSound, UnaddedFit
  <1>7. CASE skt[mconn] # None
    <2>1. skt[mconn] \in Fds
      BY <1>2, <1>7 DEF TypeOK
    <2>2. /\ \A k \in Conns : skt'[k] = IF k = mconn THEN None ELSE skt[k]
          /\ \A f \in Fds : /\ interest'[f] = IF f = skt[mconn] THEN {} ELSE interest[f]
                            /\ link'[f] = IF f = skt[mconn] THEN "closed" ELSE link[f]
      BY <1>7, CloseEffect DEF TypeOK
    <2>3. \A k \in Conns : k # mconn /\ skt[k] # None => skt[k] # skt[mconn] /\ skt[k] \in Fds
      BY <1>2 DEF SocketsFit, TypeOK
    <2>4. SocketsFit'
      BY <1>1, <2>2, <2>3 DEF SocketsFit
    <2>5. sktMap[skt[mconn]] = None
      <3>1. ASSUME sktMap[skt[mconn]] # None
            PROVE  FALSE
        <4>1. sktMap[skt[mconn]] \in Conns \ {mconn}
          BY <1>2, <2>1, <3>1 DEF TypeOK
        <4>2. skt[sktMap[skt[mconn]]] = skt[mconn]
          BY <2>1, <3>1 DEF MapIsSound
        <4>3. QED
          BY <1>7, <2>3, <4>1, <4>2
      <3>2. QED
        BY <3>1
    <2>6. \A f \in Fds : sktMap[f] # None => sktMap[f] \in Conns /\ sktMap[f] # mconn
      BY <1>2 DEF TypeOK
    <2>7. MapIsSound'
      BY <1>1, <2>2, <2>5, <2>6 DEF MapIsSound
    <2>8. UnaddedFit'
      BY <1>1, <1>5, <2>2, NoneIsNone DEF UnaddedFit
    <2>9. QED
      BY <1>3, <1>4, <2>4, <2>7, <2>8
  <1>8. QED
    BY <1>6, <1>7

LEMMA ManagerSound ==
  ASSUME TypeOK, MessagesFit, SocketsFit, UnaddedFit, ManagerFits, MapIsSound,
         NoMessageForgotten, Manager
  PROVE  SocketsFit' /\ UnaddedFit' /\ ManagerFits' /\ MapIsSound' /\ NoMessageForgotten'
  BY WaitSound, AddSound, DelWriteSound, EventSound, SendSound, CloseSound DEF Manager

LEMMA KernelSound ==
  ASSUME TypeOK, ThreadsFit, MessagesFit, SocketsFit, UnaddedFit, ManagerFits, MapIsSound,
         NoMessageForgotten, NEW f \in Fds, Establish(f) \/ PeerEnds(f) \/ Drain(f)
  PROVE  /\ ThreadsFit' /\ MessagesFit' /\ SocketsFit' /\ UnaddedFit' /\ ManagerFits'
         /\ MapIsSound' /\ NoMessageForgotten'
  <1>1. UNCHANGED <<life, skt, state, queue, index, written, sktMap, interest, list, ctl,
                    pc, tconn, tpkt, tmsg, mpc, mconn, mskt, batch, wake, cut, torn>>
    BY DEF Establish, PeerEnds, Drain, connVars, packetVars, epollVars, msgVars, threadVars,
           mgrVars, history
  <1>2. \A g \in Fds : link[g] # "closed" => link'[g] # "closed"
    BY DEF Establish, PeerEnds, Drain, TypeOK
  <1>3. SocketsFit'
    <2>1. \A k \in Conns : skt[k] # None => skt[k] \in Fds
      BY DEF TypeOK
    <2>2. QED
      BY <1>1, <1>2, <2>1 DEF SocketsFit
  <1>4. ThreadsFit' /\ MessagesFit'
    BY <1>1 DEF ThreadsFit, ThreadFits, MessagesFit, Known
  <1>5. UnaddedFit'
    BY <1>1 DEF UnaddedFit, Unadded, Posting
  <1>6. ManagerFits' /\ MapIsSound' /\ NoMessageForgotten'
    BY <1>1 DEF ManagerFits, MapIsSound, NoMessageForgotten, FromEvent
  <1>7. QED
    BY <1>3, <1>4, <1>5, <1>6

-----------------------------------------------------------------------------
(***************************************************************************)
(* Packets.                                                                *)
(***************************************************************************)
LEMMA InQueue ==
  ASSUME TypeOK, NEW k \in Conns
  PROVE  /\ queue[k] \in Seq(Packets) /\ DOMAIN queue[k] = 1..Len(queue[k]) /\ Len(queue[k]) \in Nat
         /\ \A i \in DOMAIN queue[k] : queue[k][i] \in Packets /\ queue[k][i] # None
         /\ queue[k] # <<>> => 1 \in DOMAIN queue[k]
  <1>1. queue[k] \in Seq(Packets)
    BY DEF TypeOK
  <1>2. QED
    BY <1>1, ElementOfSeq, LenProperties, EmptySeq, NoneIsNone

\* A packet that is put at the end of a queue.
LEMMA Pushed ==
  ASSUME TypeOK, NEW k \in Conns, NEW p \in Packets,
         queue' = [queue EXCEPT ![k] = Append(@, p)]
  PROVE  /\ \A l \in Conns : l # k => queue'[l] = queue[l]
         /\ DOMAIN queue'[k] = DOMAIN queue[k] \cup {Len(queue[k]) + 1}
         /\ Len(queue[k]) + 1 \notin DOMAIN queue[k]
         /\ queue'[k][Len(queue[k]) + 1] = p
         /\ \A i \in DOMAIN queue[k] : queue'[k][i] = queue[k][i]
         /\ Len(queue[k]) + 1 = 1 => queue[k] = <<>>
  <1>1. queue'[k] = Append(queue[k], p) /\ \A l \in Conns : l # k => queue'[l] = queue[l]
    BY DEF TypeOK
  <1>2. /\ DOMAIN Append(queue[k], p) = DOMAIN queue[k] \cup {Len(queue[k]) + 1}
        /\ Append(queue[k], p)[Len(queue[k]) + 1] = p
        /\ DOMAIN queue[k] = 1..Len(queue[k]) /\ Len(queue[k]) \in Nat
        /\ \A i \in DOMAIN queue[k] : Append(queue[k], p)[i] = queue[k][i]
    BY InQueue, Appended
  <1>3. Len(queue[k]) + 1 \notin DOMAIN queue[k] /\ (Len(queue[k]) + 1 = 1 => Len(queue[k]) = 0)
    BY <1>2
  <1>4. Len(queue[k]) = 0 => queue[k] = <<>>
    BY InQueue, EmptySeq
  <1>5. QED
    BY <1>1, <1>2, <1>3, <1>4

\* What a step of a thread does to the packets: one is begun, reset, pushed or
\* dropped, or none.
LEMMA ThreadPackets ==
  ASSUME TypeOK, ThreadsFit, NEW t \in Threads, Thread(t)
  PROVE  \/ /\ UNCHANGED <<queue, index, written>> /\ tpkt'[t] \in {tpkt[t], None}
            /\ Writing(t)' => Udp \/ (Writing(t) /\ tpkt'[t] = tpkt[t])
         \/ /\ UNCHANGED <<queue, index, skt, link>> /\ written' = written + 1
            /\ tpkt'[t] = written + 1 /\ written + 1 \in Packets
         \/ /\ UNCHANGED <<queue, written, tpkt, skt, link>> /\ Writing(t)
            /\ tpkt[t] \in Packets /\ index' = [index EXCEPT ![tpkt[t]] = 0]
         \/ /\ UNCHANGED <<index, written, skt, link>> /\ Writing(t) /\ ~Writing(t)'
            /\ tconn[t] \in Conns /\ tpkt[t] \in Packets /\ tpkt'[t] \in {tpkt[t], None}
            /\ queue' = [queue EXCEPT ![tconn[t]] = Append(@, tpkt[t])]
  <1> DEFINE A == /\ UNCHANGED <<queue, index, written>> /\ tpkt'[t] \in {tpkt[t], None}
                  /\ Writing(t)' => Udp \/ (Writing(t) /\ tpkt'[t] = tpkt[t])
             B == /\ UNCHANGED <<queue, index, skt, link>> /\ written' = written + 1
                  /\ tpkt'[t] = written + 1 /\ written + 1 \in Packets
             C == /\ UNCHANGED <<queue, written, tpkt, skt, link>> /\ Writing(t)
                  /\ tpkt[t] \in Packets /\ index' = [index EXCEPT ![tpkt[t]] = 0]
             D == /\ UNCHANGED <<index, written, skt, link>> /\ Writing(t) /\ ~Writing(t)'
                  /\ tconn[t] \in Conns /\ tpkt[t] \in Packets /\ tpkt'[t] \in {tpkt[t], None}
                  /\ queue' = [queue EXCEPT ![tconn[t]] = Append(@, tpkt[t])]
  <1>1. ASSUME NEW k \in Conns, Create(t, k) \/ CreateFails(t, k) \/ Clear(t, k)
        PROVE  A
    <2>1. CASE CreateFails(t, k)
      BY <2>1, CreateFailsEffect DEF Writing
    <2>2. CASE Create(t, k) \/ Clear(t, k)
      BY <2>2, CreateEffect, ClearEffect DEF Writing
    <2>3. QED
      BY <1>1, <2>1, <2>2
  <1>2. ASSUME NEW k \in Conns, BeginWrite(t, k)
        PROVE  B
    <2>1. written + 1 \in Packets
      BY <1>2, Sizes DEF BeginWrite, TypeOK, Packets
    <2>2. QED
      BY <1>2, <2>1, BeginWriteEffect
  <1>3. CASE WriteAgain(t) \/ CheckSocket(t) \/ ResetWriteIndex(t)
    <2>1. CASE index' = index
      BY <1>3, <2>1, GoOnEffect DEF Writing
    <2>2. CASE pc[t] = "reset" /\ index' = [index EXCEPT ![tpkt[t]] = 0]
      BY <1>3, <2>2, GoOnEffect, HasPacket DEF Writing
    <2>3. QED
      BY <1>3, <2>1, <2>2, GoOnEffect
  <1>4. CASE Reconnect(t)
    BY <1>4, ReconnectEffect DEF Writing
  <1>5. CASE ReconnectFails(t) \/ SendByte(t)
    BY <1>5, ReconnectFailsEffect, ByteEffect, LeaveEffect DEF Writing
  <1>6. CASE AddPendingWrite(t)
    <2>1. pc[t] = "push" /\ tconn[t] \in Conns /\ tpkt[t] \in Packets
      BY <1>6, PushEffect, HasPacket
    <2>2. pc'[t] \in {"lookup", "idle"} /\ tpkt'[t] \in {tpkt[t], None}
      BY <1>6, PushEffect, LeaveEffect
    <2>3. D
      BY <1>6, <2>1, <2>2, PushEffect DEF Writing
    <2>4. QED
      BY <2>3
  <1>7. CASE WriteConnection(t)
    <2>1. pc'[t] \in {"post", "idle"} /\ tpkt'[t] \in {tpkt[t], None}
      BY <1>7, LookupEffect, LeaveEffect
    <2>2. QED
      BY <1>7, <2>1, LookupEffect DEF Writing
  <1>8. CASE PostMessage(t)
    BY <1>8, PostEffect DEF Writing
  <1>9. QED
    <2> HIDE DEF A, B, C, D
    <2>1. A \/ B \/ C \/ D
      <3>1. CASE \E k \in Conns : \/ Create(t, k) \/ CreateFails(t, k) \/ Clear(t, k)
                                  \/ BeginWrite(t, k)
        BY <1>1, <1>2, <3>1
      <3>2. CASE InWrite(t) \/ WriteAgain(t)
        <4> USE DEF A, B, C, D
        <4>1. QED
          BY <1>3, <1>4, <1>5, <1>6, <1>7, <1>8, <3>2 DEF InWrite
      <3>3. QED
        BY <3>1, <3>2 DEF Thread
    <2>2. QED
      BY <2>1 DEF A, B, C, D

\* Packets are numbers, None is not, and no packet is yet to be written.
LEMMA Numbers ==
  ASSUME TypeOK
  PROVE  /\ written \in Nat
         /\ \A t \in Threads : tpkt[t] # None => tpkt[t] \in Packets /\ tpkt[t] \in Nat
         /\ \A p \in Packets : p \in Nat /\ index[p] \in Nat /\ index[p] <= Size
         /\ None \notin Nat
  <1>1. written \in Nat
    BY Sizes DEF TypeOK
  <1>2. \A t \in Threads : tpkt[t] # None => tpkt[t] \in Packets /\ tpkt[t] \in Nat
    BY Sizes DEF TypeOK
  <1>3. \A p \in Packets : index[p] \in 0..Size
    BY DEF TypeOK
  <1>4. \A n \in 0..Size : n \in Nat /\ n <= Size
    BY Sizes
  <1>5. None \notin Nat
    BY ConnAssumption DEF ConnAssumption
  <1>6. QED
    BY <1>1, <1>2, <1>3, <1>4, <1>5, Sizes

LEMMA ThreadPacketsFit ==
  ASSUME TypeOK, ThreadsFit, PacketsFit, NEW t \in Threads, Thread(t)
  PROVE  PacketsFit'
  <1>1. /\ \A u \in Threads : u # t => tpkt'[u] = tpkt[u]
        /\ \A u \in Threads : tpkt[u] # None => tpkt[u] \in Nat
        /\ \A p \in Packets : p \in Nat /\ index[p] \in Nat
        /\ written \in Nat /\ None \notin Nat
    BY StepLife, Numbers DEF Apart
  <1>2. CASE UNCHANGED <<queue, index, written>> /\ tpkt'[t] \in {tpkt[t], None}
    BY <1>1, <1>2 DEF PacketsFit
  <1>3. CASE /\ UNCHANGED <<queue, index>> /\ written' = written + 1
             /\ tpkt'[t] = written + 1
    <2>1. \A u \in Threads : tpkt'[u] # None => tpkt'[u] <= written'
      BY <1>1, <1>3 DEF PacketsFit
    <2>2. \A u \in Threads : u # t /\ tpkt'[u] # None => tpkt'[u] # tpkt'[t]
      BY <1>1, <1>3 DEF PacketsFit
    <2>3. \A u, v \in Threads : tpkt'[u] = tpkt'[v] /\ tpkt'[u] # None => u = v
      BY <1>1, <2>2 DEF PacketsFit
    <2>4. ASSUME NEW k \in Conns, NEW i \in DOMAIN queue[k]
          PROVE  queue[k][i] <= written + 1
      BY <1>1, <2>4, InQueue DEF PacketsFit
    <2>5. \A p \in Packets : p > written' => index'[p] = 0
      BY <1>1, <1>3 DEF PacketsFit
    <2>6. QED
      BY <1>3, <2>1, <2>3, <2>4, <2>5 DEF PacketsFit
  <1>4. CASE /\ UNCHANGED <<queue, written, tpkt>>
             /\ tpkt[t] \in Packets /\ index' = [index EXCEPT ![tpkt[t]] = 0]
    <2>1. \A p \in Packets : p > written' => index'[p] = 0
      BY <1>4 DEF PacketsFit, TypeOK
    <2>2. QED
      BY <1>4, <2>1 DEF PacketsFit
  <1>5. CASE /\ UNCHANGED <<index, written>>
             /\ tconn[t] \in Conns /\ tpkt[t] \in Packets /\ tpkt'[t] \in {tpkt[t], None}
             /\ queue' = [queue EXCEPT ![tconn[t]] = Append(@, tpkt[t])]
    <2>1. tpkt[t] <= written
      BY <1>5, NoneIsNone DEF PacketsFit
    <2>2. ASSUME NEW k \in Conns, NEW i \in DOMAIN queue'[k]
          PROVE  queue'[k][i] <= written'
      <3>1. CASE k # tconn[t]
        BY <1>5, <3>1, Pushed DEF PacketsFit
      <3>2. CASE k = tconn[t]
        BY <1>5, <2>1, <3>2, Pushed DEF PacketsFit
      <3>3. QED
        BY <3>1, <3>2
    <2>3. QED
      BY <1>1, <1>5, <2>2 DEF PacketsFit
  <1>6. QED
    BY <1>2, <1>3, <1>4, <1>5, ThreadPackets

\* A thread has its packet to itself until it is in a queue.
LEMMA ThreadOnce ==
  ASSUME TypeOK, ThreadsFit, PacketsFit, OnceFit, ~Udp, NEW t \in Threads, Thread(t)
  PROVE  OnceFit'
  <1>1. /\ \A u \in Threads : u # t => tpkt'[u] = tpkt[u] /\ (Writing(u)' <=> Writing(u))
        /\ \A u \in Threads : Writing(u) => tpkt[u] \in Packets
    BY StepLife, HasPacket DEF Apart, Writing
  <1>2. CASE /\ UNCHANGED <<queue, index>>
             /\ Writing(t)' => Writing(t) /\ tpkt'[t] = tpkt[t]
    BY <1>1, <1>2 DEF OnceFit
  <1>3. CASE /\ UNCHANGED <<queue, index>> /\ tpkt'[t] = written + 1 /\ written + 1 \in Packets
    <2>1. index[written + 1] = 0
      BY <1>3, Numbers DEF PacketsFit
    <2>2. ASSUME NEW k \in Conns, NEW i \in DOMAIN queue[k]
          PROVE  queue[k][i] # written + 1
      BY <2>2, Numbers, InQueue DEF PacketsFit
    <2>3. QED
      BY <1>1, <1>3, <2>1, <2>2 DEF OnceFit
  <1>4. CASE /\ UNCHANGED <<queue, tpkt>> /\ Writing(t)
             /\ tpkt[t] \in Packets /\ index' = [index EXCEPT ![tpkt[t]] = 0]
    <2>1. index' = index
      BY <1>4 DEF OnceFit, TypeOK
    <2>2. QED
      BY <1>1, <1>4, <2>1 DEF OnceFit
  <1>5. CASE /\ index' = index /\ Writing(t) /\ ~Writing(t)'
             /\ tconn[t] \in Conns /\ tpkt[t] \in Packets
             /\ queue' = [queue EXCEPT ![tconn[t]] = Append(@, tpkt[t])]
    <2> DEFINE k == tconn[t]
               n == Len(queue[k]) + 1
    <2>1. /\ \A l \in Conns : l # k => queue'[l] = queue[l]
          /\ DOMAIN queue'[k] = DOMAIN queue[k] \cup {n} /\ n \notin DOMAIN queue[k]
          /\ queue'[k][n] = tpkt[t]
          /\ \A i \in DOMAIN queue[k] : queue'[k][i] = queue[k][i]
      BY <1>5, Pushed
    <2> HIDE DEF n
    <2>2. \A l \in Conns : \A i \in DOMAIN queue[l] : queue[l][i] # tpkt[t]
      BY <1>5 DEF OnceFit
    <2>3. ASSUME NEW l \in Conns, NEW i \in DOMAIN queue'[l]
          PROVE  \/ l = k /\ i = n /\ queue'[l][i] = tpkt[t]
                 \/ i \in DOMAIN queue[l] /\ queue'[l][i] = queue[l][i]
      BY <2>1, <2>3
    <2>4. ASSUME NEW u \in Threads, Writing(u)'
          PROVE  /\ index'[tpkt'[u]] = 0
                 /\ \A l \in Conns : \A i \in DOMAIN queue'[l] : queue'[l][i] # tpkt'[u]
      <3>1. u # t /\ Writing(u) /\ tpkt'[u] = tpkt[u] /\ tpkt[u] \in Packets
        BY <1>1, <1>5, <2>4
      <3>2. tpkt[u] # tpkt[t]
        BY <1>5, <3>1, NoneIsNone DEF PacketsFit
      <3>3. QED
        BY <1>5, <2>3, <3>1, <3>2 DEF OnceFit
    <2>5. ASSUME NEW l \in Conns, NEW m \in Conns, NEW i \in DOMAIN queue'[l],
                 NEW j \in DOMAIN queue'[m], queue'[l][i] = queue'[m][j]
          PROVE  l = m /\ i = j
      BY <2>2, <2>3, <2>5 DEF OnceFit
    <2>6. QED
      BY <2>4, <2>5 DEF OnceFit
  <1>6. QED
    BY <1>2, <1>3, <1>4, <1>5, ThreadPackets

LEMMA ThreadCuts ==
  ASSUME TypeOK, ThreadsFit, SocketsFit, PacketsFit, CutsFit, NEW t \in Threads, Thread(t)
  PROVE  CutsFit'
  <1>1. UNCHANGED <<mpc, mconn, cut, torn>>
    BY StepLife DEF Apart
  <1>2. \A f \in Fds : link'[f] = "closed" => link[f] = "closed"
    <2>1. CASE link' = link
      BY <2>1
    <2>2. ASSUME NEW k \in Conns, Connect(k)
          PROVE  \A f \in Fds : link'[f] = "closed" => link[f] = "closed"
      BY <2>2, ConnectTypes
    <2>3. QED
      BY <2>1, <2>2, ThreadSockets
  <1>3. \A f \in Fds : Udp \/ link'[f] = "closed" => cut'[f] = None
    BY <1>1, <1>2 DEF CutsFit
  <1>4. ASSUME ~Udp, NEW k \in Conns
        PROVE  CutFits(k)'
    <2>1. CutFits(k) /\ OnceFit
      BY <1>4 DEF CutsFit
    <2>2. CASE UNCHANGED <<queue, index>>
      <3>1. CASE skt'[k] = skt[k]
        BY <1>1, <2>1, <2>2, <3>1 DEF CutFits
      <3>2. CASE skt'[k] # skt[k]
        <4>1. Connect(k) /\ skt[k] = None
          BY <3>2, ThreadSockets, ConnectTypes
        <4>2. skt'[k] \in Fds /\ cut[skt'[k]] = None
          BY <4>1, ConnectTypes DEF CutsFit
        <4>3. queue[k] # <<>> => index[queue[k][1]] = 0
          BY <2>1, <4>1 DEF CutFits
        <4>4. QED
          BY <1>1, <2>1, <2>2, <4>2, <4>3, NoneIsNone DEF CutFits
      <3>3. QED
        BY <3>1, <3>2
    <2>3. CASE /\ UNCHANGED <<queue, skt>> /\ Writing(t)
               /\ tpkt[t] \in Packets /\ index' = [index EXCEPT ![tpkt[t]] = 0]
      <3>1. index' = index
        BY <2>1, <2>3 DEF OnceFit, TypeOK
      <3>2. QED
        BY <2>2, <2>3, <3>1
    <2>4. CASE /\ UNCHANGED <<index, skt>> /\ Writing(t)
               /\ tconn[t] \in Conns /\ tpkt[t] \in Packets
               /\ queue' = [queue EXCEPT ![tconn[t]] = Append(@, tpkt[t])]
      <3>1. CASE k # tconn[t]
        <4>1. queue'[k] = queue[k]
          BY <2>4, <3>1, Pushed
        <4>2. QED
          BY <1>1, <2>1, <2>4, <4>1 DEF CutFits
      <3>2. CASE k = tconn[t]
        <4> DEFINE n == Len(queue[k]) + 1
        <4>1. /\ DOMAIN queue'[k] = DOMAIN queue[k] \cup {n} /\ n \in DOMAIN queue'[k]
              /\ queue'[k][n] = tpkt[t]
              /\ \A i \in DOMAIN queue[k] : queue'[k][i] = queue[k][i]
              /\ n = 1 => queue[k] = <<>>
          BY <2>4, <3>2, Pushed
        <4>2. index[tpkt[t]] = 0
          BY <2>1, <2>4 DEF OnceFit
        <4>3. CASE queue[k] # <<>>
          <5>1. queue'[k][1] = queue[k][1] /\ queue'[k] # <<>>
            BY <4>1, <4>3, InQueue
          <5>2. \A i \in DOMAIN queue'[k] : i # 1 => index'[queue'[k][i]] = 0
            <6> HIDE DEF n
            <6>1. QED
              BY <2>1, <2>4, <4>1, <4>2 DEF CutFits
          <5>3. QED
            BY <1>1, <2>1, <2>4, <4>3, <5>1, <5>2 DEF CutFits
        <4>4. CASE queue[k] = <<>>
          <5>1. n = 1 /\ DOMAIN queue'[k] = {1} /\ queue'[k][1] = tpkt[t]
            BY <4>1, <4>4, EmptySeq
          <5>2. QED
            BY <1>1, <2>1, <2>4, <4>2, <4>4, <5>1 DEF CutFits
        <4>5. QED
          BY <4>3, <4>4
      <3>3. QED
        BY <3>1, <3>2
    <2>5. QED
      BY <2>2, <2>3, <2>4, ThreadPackets
  <1>5. QED
    BY <1>1, <1>3, <1>4, ThreadOnce DEF CutsFit

\* What a step of the manager does to the packets: it drops a queue, closes a
\* connection, sends some of a packet, or nothing.
LEMMA ManagerPackets ==
  ASSUME TypeOK, ManagerFits, Manager
  PROVE  /\ UNCHANGED <<written, pc, tpkt, tconn, tmsg, life>>
         /\ \/ /\ UNCHANGED <<skt, queue, index, link, cut, torn>> /\ mpc # "close"
            \/ /\ UNCHANGED <<skt, index, link, cut, torn>> /\ mconn \in Conns
               /\ queue' = [queue EXCEPT ![mconn] = <<>>]
               /\ mpc # "close" /\ mpc' = "close" /\ mconn' = mconn
            \/ SendSome
            \/ CloseConnection
  <1> USE DEF threadVars, connVars, packetVars, epollVars, msgVars, kernelVars, mgrVars,
              history
  <1> DEFINE Same == UNCHANGED <<skt, queue, index, link, cut, torn>> /\ mpc # "close"
             Drop == /\ UNCHANGED <<skt, index, link, cut, torn>> /\ mconn \in Conns
                     /\ queue' = [queue EXCEPT ![mconn] = <<>>]
                     /\ mpc # "close" /\ mpc' = "close" /\ mconn' = mconn
  <1>1. ASSUME EpollWait \/ BatchDone \/ DrainControl \/ ControlDone
        PROVE  Same
    BY <1>1 DEF EpollWait, BatchDone, DrainControl, ControlDone
  <1>2. ASSUME NEW k \in Conns, AddSocket(k) \/ DelSocket(k) \/ WriteSocket(k)
        PROVE  Same
    BY <1>2 DEF AddSocket, DelSocket, WriteSocket
  <1>3. ASSUME NEW f \in Fds, NEW e, HandleEvent(f, e)
        PROVE  Same
    BY <1>3 DEF HandleEvent
  <1>4. ASSUME SendPacket
        PROVE  Same \/ Drop
    BY <1>4 DEF SendPacket, Busy, Resume, SendFails, ManagerFits
  <1>5. ASSUME SendWouldBlock \/ SendDone
        PROVE  Same
    BY <1>5 DEF SendWouldBlock, SendDone
  <1>6. ASSUME SendError
        PROVE  Drop
    BY <1>6 DEF SendError, SendFails, ManagerFits
  <1>7. QED
    <2> HIDE DEF Same, Drop
    <2>1. Same \/ Drop \/ SendSome \/ CloseConnection
      BY <1>1, <1>2, <1>3, <1>4, <1>5, <1>6 DEF Manager
    <2>2. QED
      BY <2>1, ManagerFrame DEF Same, Drop

LEMMA TailElements ==
  ASSUME NEW S, NEW s \in Seq(S), s # <<>>
  PROVE  /\ \A i \in DOMAIN Tail(s) : /\ i + 1 \in DOMAIN s /\ Tail(s)[i] = s[i + 1]
                                      /\ i + 1 # 1 /\ i \in Nat
         /\ Tail(s) # <<>> => 1 \in DOMAIN Tail(s)
  <1>1. Tail(s) \in Seq(S)
    BY HeadTailProperties
  <1>2. \A i \in DOMAIN Tail(s) : i + 1 \in DOMAIN s /\ Tail(s)[i] = s[i + 1] /\ i \in Nat \ {0}
    BY Shifted
  <1>3. \A i \in Nat \ {0} : i + 1 # 1
    OBVIOUS
  <1>4. Tail(s) # <<>> => 1 \in DOMAIN Tail(s)
    BY <1>1, LenProperties, EmptySeq
  <1>5. QED
    BY <1>2, <1>3, <1>4

\* The queues after some of the first packet has been sent.
LEMMA SendSomeQueues ==
  ASSUME TypeOK, ManagerFits, SendSome
  PROVE  LET p == queue[mconn][1]
         IN /\ mconn \in Conns /\ skt[mconn] \in Fds /\ p \in Packets /\ 1 \in DOMAIN queue[mconn]
            /\ \A q \in Packets : q # p => index'[q] = index[q]
            /\ \A l \in Conns : l # mconn => queue'[l] = queue[l]
            /\ \A f \in Fds : f # skt[mconn] => cut'[f] = cut[f]
            /\ \A i \in DOMAIN queue'[mconn] :
                 \/ i \in DOMAIN queue[mconn] /\ queue'[mconn][i] = queue[mconn][i]
                    /\ queue' = queue
                 \/ i + 1 \in DOMAIN queue[mconn] /\ queue'[mconn][i] = queue[mconn][i + 1]
                    /\ i + 1 # 1 /\ i \in Nat /\ queue' = [queue EXCEPT ![mconn] = Tail(@)]
            /\ \/ /\ queue' = queue /\ cut'[skt[mconn]] = p /\ index'[p] # 0
                  /\ index[p] + 1 <= index'[p] /\ index'[p] < Size
               \/ /\ queue' = [queue EXCEPT ![mconn] = Tail(@)] /\ cut'[skt[mconn]] = None
                  /\ index'[p] = Size
                  /\ queue'[mconn] # <<>> => 1 \in DOMAIN queue'[mconn]
            /\ index[p] < Size
            /\ torn' = (torn \/ cut[skt[mconn]] # IF index[p] = 0 THEN None ELSE p)
  <1> DEFINE p == queue[mconn][1]
  <1>1. /\ mconn \in Conns /\ skt[mconn] \in Fds /\ p \in Packets /\ queue[mconn] # <<>>
        /\ index[p] < Size
        /\ torn' = (torn \/ cut[skt[mconn]] # IF index[p] = 0 THEN None ELSE p)
    BY SendSomeEffect
  <1>2. PICK n \in 1..(Size - index[p]) :
          /\ index' = [index EXCEPT ![p] = @ + n]
          /\ queue' = IF index[p] + n = Size
                      THEN [queue EXCEPT ![mconn] = Tail(@)] ELSE queue
          /\ cut' = [cut EXCEPT ![skt[mconn]] = IF index[p] + n = Size THEN None ELSE p]
    BY SendSomeEffect
  <1>3. queue[mconn] \in Seq(Packets) /\ 1 \in DOMAIN queue[mconn]
    BY <1>1, InQueue
  <1> HIDE DEF p
  <1>4. /\ \A q \in Packets : q # p => index'[q] = index[q]
        /\ \A f \in Fds : f # skt[mconn] => cut'[f] = cut[f]
        /\ \A l \in Conns : l # mconn => queue'[l] = queue[l]
        /\ index'[p] = index[p] + n
        /\ cut'[skt[mconn]] = IF index[p] + n = Size THEN None ELSE p
    BY <1>1, <1>2 DEF TypeOK
  <1>5. /\ index[p] \in Nat /\ Size \in Nat /\ n \in Nat /\ n > 0 /\ index[p] + n <= Size
    BY <1>1, <1>2, Sizes, Numbers
  <1>6. index'[p] # 0 /\ index[p] + 1 <= index'[p] /\ (index[p] + n # Size => index'[p] < Size)
    BY <1>4, <1>5
  <1>7. CASE index[p] + n = Size
    <2>1. queue' = [queue EXCEPT ![mconn] = Tail(@)] /\ queue'[mconn] = Tail(queue[mconn])
      BY <1>1, <1>2, <1>7 DEF TypeOK
    <2>2. /\ \A i \in DOMAIN queue'[mconn] :
               /\ i + 1 \in DOMAIN queue[mconn] /\ queue'[mconn][i] = queue[mconn][i + 1]
               /\ i + 1 # 1 /\ i \in Nat
          /\ queue'[mconn] # <<>> => 1 \in DOMAIN queue'[mconn]
      BY <1>1, <1>3, <2>1, TailElements
    <2>3. QED
      BY <1>1, <1>3, <1>4, <1>7, <2>1, <2>2 DEF p
  <1>8. CASE index[p] + n # Size
    <2>1. queue' = queue
      BY <1>2, <1>8
    <2>2. QED
      BY <1>1, <1>3, <1>4, <1>6, <1>8, <2>1 DEF p
  <1>9. QED
    BY <1>7, <1>8

LEMMA Emptied ==
  ASSUME TypeOK, NEW k \in Conns, queue' = [queue EXCEPT ![k] = <<>>]
  PROVE  /\ queue'[k] = <<>> /\ DOMAIN queue'[k] = {}
         /\ \A l \in Conns : l # k => queue'[l] = queue[l]
  <1>1. queue'[k] = <<>> /\ \A l \in Conns : l # k => queue'[l] = queue[l]
    BY DEF TypeOK
  <1>2. DOMAIN <<>> = {}
    BY EmptySeq, LenProperties
  <1>3. QED
    BY <1>1, <1>2

\* Closing a connection has no effect if it has no socket.
LEMMA Closed ==
  ASSUME TypeOK, ManagerFits, CloseConnection
  PROVE  /\ mconn \in Conns /\ mpc = "close" /\ mpc' # "close" /\ torn' = torn /\ index' = index
         /\ \/ /\ skt[mconn] = None /\ UNCHANGED <<skt, queue, link, cut>>
            \/ /\ skt[mconn] \in Fds /\ queue' = [queue EXCEPT ![mconn] = <<>>]
               /\ \A k \in Conns : skt'[k] = IF k = mconn THEN None ELSE skt[k]
               /\ \A f \in Fds : /\ link'[f] = IF f = skt[mconn] THEN "closed" ELSE link[f]
                                 /\ cut'[f] = IF f = skt[mconn] THEN None ELSE cut[f]
  <1>1. mconn \in Conns /\ mpc = "close" /\ mpc' # "close" /\ torn' = torn /\ index' = index
    BY CloseEffect DEF ManagerFits, Resume
  <1>2. CASE skt[mconn] = None
    BY <1>1, <1>2, CloseEffect
  <1>3. CASE skt[mconn] # None
    BY <1>1, <1>3, CloseEffect DEF TypeOK
  <1>4. QED
    BY <1>2, <1>3

LEMMA ManagerPacketsFit ==
  ASSUME TypeOK, ManagerFits, PacketsFit, Manager
  PROVE  PacketsFit'
  <1>1. UNCHANGED <<written, tpkt>>
    BY ManagerPackets
  <1>2. CASE UNCHANGED <<queue, index>>
    BY <1>1, <1>2 DEF PacketsFit
  <1>3. CASE mconn \in Conns /\ queue' = [queue EXCEPT ![mconn] = <<>>] /\ index' = index
    <2>1. ASSUME NEW k \in Conns, NEW i \in DOMAIN queue'[k]
          PROVE  queue'[k][i] <= written
      BY <1>3, <2>1, Emptied DEF PacketsFit
    <2>2. QED
      BY <1>1, <1>3, <2>1 DEF PacketsFit
  <1>4. CASE SendSome
    <2> DEFINE p == queue[mconn][1]
    <2>1. /\ mconn \in Conns /\ p \in Packets /\ 1 \in DOMAIN queue[mconn]
          /\ \A q \in Packets : q # p => index'[q] = index[q]
          /\ \A l \in Conns : l # mconn => queue'[l] = queue[l]
          /\ \A i \in DOMAIN queue'[mconn] :
               \/ i \in DOMAIN queue[mconn] /\ queue'[mconn][i] = queue[mconn][i]
               \/ i + 1 \in DOMAIN queue[mconn] /\ queue'[mconn][i] = queue[mconn][i + 1]
      BY <1>4, SendSomeQueues
    <2>2. ASSUME NEW k \in Conns, NEW i \in DOMAIN queue'[k]
          PROVE  queue'[k][i] <= written
      BY <2>1, <2>2 DEF PacketsFit
    <2>3. p <= written
      BY <2>1 DEF PacketsFit
    <2>4. ASSUME NEW q \in Packets, q > written
          PROVE  index'[q] = 0
      BY <2>1, <2>3, <2>4, Numbers DEF PacketsFit
    <2>5. QED
      BY <1>1, <2>2, <2>4 DEF PacketsFit
  <1>5. CASE CloseConnection
    BY <1>2, <1>3, <1>5, Closed
  <1>6. QED
    BY <1>2, <1>3, <1>4, <1>5, ManagerPackets

LEMMA ManagerOnce ==
  ASSUME TypeOK, ThreadsFit, ManagerFits, OnceFit, Manager
  PROVE  OnceFit'
  <1>1. UNCHANGED <<pc, tpkt>> /\ \A u \in Threads : Writing(u)' <=> Writing(u)
    BY ManagerPackets DEF Writing
  <1>2. CASE UNCHANGED <<queue, index>>
    BY <1>1, <1>2 DEF OnceFit
  <1>3. CASE mconn \in Conns /\ queue' = [queue EXCEPT ![mconn] = <<>>] /\ index' = index
    <2>1. ASSUME NEW k \in Conns, NEW i \in DOMAIN queue'[k]
          PROVE  i \in DOMAIN queue[k] /\ queue'[k][i] = queue[k][i]
      BY <1>3, <2>1, Emptied
    <2>2. QED
      BY <1>1, <1>3, <2>1 DEF OnceFit
  <1>4. CASE SendSome
    <2> DEFINE p == queue[mconn][1]
    <2>1. /\ mconn \in Conns /\ p \in Packets /\ 1 \in DOMAIN queue[mconn]
          /\ \A q \in Packets : q # p => index'[q] = index[q]
          /\ \A l \in Conns : l # mconn => queue'[l] = queue[l]
          /\ \A i \in DOMAIN queue'[mconn] :
               \/ i \in DOMAIN queue[mconn] /\ queue'[mconn][i] = queue[mconn][i]
                  /\ queue' = queue
               \/ i + 1 \in DOMAIN queue[mconn] /\ queue'[mconn][i] = queue[mconn][i + 1]
                  /\ i + 1 # 1 /\ i \in Nat /\ queue' = [queue EXCEPT ![mconn] = Tail(@)]
      BY <1>4, SendSomeQueues
    <2>2. ASSUME NEW u \in Threads, Writing(u)'
          PROVE  /\ index'[tpkt'[u]] = 0
                 /\ \A k \in Conns : \A i \in DOMAIN queue'[k] : queue'[k][i] # tpkt'[u]
      <3>1. Writing(u) /\ tpkt'[u] = tpkt[u] /\ tpkt[u] \in Packets
        BY <1>1, <2>2, HasPacket DEF Writing
      <3>2. tpkt[u] # p
        BY <2>1, <3>1 DEF OnceFit
      <3>3. QED
        BY <2>1, <3>1, <3>2 DEF OnceFit
    <2>3. CASE queue' = queue
      BY <2>2, <2>3 DEF OnceFit
    <2>4. CASE queue' # queue
      <3>1. ASSUME NEW k \in Conns, NEW l \in Conns, NEW i \in DOMAIN queue'[k],
                   NEW j \in DOMAIN queue'[l], queue'[k][i] = queue'[l][j]
            PROVE  k = l /\ i = j
        <4>1. CASE k # mconn /\ l # mconn
          BY <2>1, <3>1, <4>1 DEF OnceFit
        <4>2. CASE k # mconn /\ l = mconn
          BY <2>1, <2>4, <3>1, <4>2 DEF OnceFit
        <4>3. CASE k = mconn /\ l # mconn
          BY <2>1, <2>4, <3>1, <4>3 DEF OnceFit
        <4>4. CASE k = mconn /\ l = mconn
          <5>1. i + 1 = j + 1 /\ i \in Nat /\ j \in Nat
            BY <2>1, <2>4, <3>1, <4>4 DEF OnceFit
          <5>2. QED
            BY <4>4, <5>1
        <4>5. QED
          BY <4>1, <4>2, <4>3, <4>4
      <3>2. QED
        BY <2>2, <3>1 DEF OnceFit
    <2>5. QED
      BY <2>3, <2>4
  <1>5. CASE CloseConnection
    BY <1>2, <1>3, <1>5, Closed
  <1>6. QED
    BY <1>2, <1>3, <1>4, <1>5, ManagerPackets

LEMMA ManagerCuts ==
  ASSUME TypeOK, ThreadsFit, SocketsFit, ManagerFits, CutsFit, Manager
  PROVE  CutsFit'
  <1>1. ~Udp => OnceFit'
    BY ManagerOnce DEF CutsFit
  <1>2. \A k \in Conns : skt[k] \in Fds \cup {None}
    BY DEF TypeOK
  <1>3. CASE UNCHANGED <<skt, queue, index, link, cut, torn>> /\ mpc # "close"
    BY <1>1, <1>3 DEF CutsFit, CutFits
  <1>4. CASE /\ UNCHANGED <<skt, index, link, cut, torn>> /\ mconn \in Conns
             /\ queue' = [queue EXCEPT ![mconn] = <<>>]
             /\ mpc # "close" /\ mpc' = "close" /\ mconn' = mconn
    <2>1. ASSUME ~Udp, NEW k \in Conns
          PROVE  CutFits(k)'
      BY <1>4, <2>1, Emptied DEF CutsFit, CutFits
    <2>2. QED
      BY <1>1, <1>4, <2>1 DEF CutsFit
  <1>5. CASE CloseConnection
    <2>1. CASE skt[mconn] = None /\ UNCHANGED <<skt, queue, link, cut>>
      <3>1. torn' = torn /\ index' = index
        BY <1>5, Closed
      <3>2. QED
        BY <1>1, <2>1, <3>1 DEF CutsFit, CutFits
    <2>2. CASE /\ skt[mconn] \in Fds /\ queue' = [queue EXCEPT ![mconn] = <<>>]
               /\ \A k \in Conns : skt'[k] = IF k = mconn THEN None ELSE skt[k]
               /\ \A f \in Fds : /\ link'[f] = IF f = skt[mconn] THEN "closed" ELSE link[f]
                                 /\ cut'[f] = IF f = skt[mconn] THEN None ELSE cut[f]
      <3>1. /\ mconn \in Conns /\ mpc = "close" /\ mpc' # "close" /\ torn' = torn
            /\ index' = index
        BY <1>5, Closed
      <3>2. ASSUME ~Udp, NEW k \in Conns, k # mconn
            PROVE  CutFits(k)'
        <4>1. skt'[k] = skt[k] /\ queue'[k] = queue[k]
          BY <2>2, <3>1, <3>2, Emptied
        <4>2. skt[k] # None => cut'[skt[k]] = cut[skt[k]]
          BY <1>2, <2>2, <3>1, <3>2 DEF SocketsFit
        <4>3. QED
          BY <3>1, <3>2, <4>1, <4>2 DEF CutsFit, CutFits
      <3>3. ASSUME NEW k \in Conns, k = mconn
            PROVE  CutFits(k)'
        <4>1. skt'[k] = None /\ queue'[k] = <<>> /\ DOMAIN queue'[k] = {}
          BY <2>2, <3>1, <3>3, Emptied
        <4>2. QED
          BY <4>1 DEF CutFits
      <3>4. \A f \in Fds : Udp \/ link'[f] = "closed" => cut'[f] = None
        BY <2>2 DEF CutsFit
      <3>5. QED
        BY <1>1, <3>1, <3>2, <3>3, <3>4 DEF CutsFit
    <2>3. QED
      BY <1>5, <2>1, <2>2, Closed
  <1>6. CASE SendSome
    <2> DEFINE p == queue[mconn][1]
    <2>1. /\ mconn \in Conns /\ skt[mconn] \in Fds /\ p \in Packets /\ 1 \in DOMAIN queue[mconn]
          /\ \A q \in Packets : q # p => index'[q] = index[q]
          /\ \A l \in Conns : l # mconn => queue'[l] = queue[l]
          /\ \A f \in Fds : f # skt[mconn] => cut'[f] = cut[f]
          /\ index[p] < Size
          /\ torn' = (torn \/ cut[skt[mconn]] # IF index[p] = 0 THEN None ELSE p)
      BY <1>6, SendSomeQueues
    <2>2. \/ /\ queue' = queue /\ cut'[skt[mconn]] = p /\ index'[p] # 0
             /\ index[p] + 1 <= index'[p] /\ index'[p] < Size
          \/ /\ queue' = [queue EXCEPT ![mconn] = Tail(@)] /\ cut'[skt[mconn]] = None
             /\ index'[p] = Size
             /\ queue'[mconn] # <<>> => 1 \in DOMAIN queue'[mconn]
      BY <1>6, SendSomeQueues
    <2>3. /\ mpc = "sending" /\ UNCHANGED <<skt, link, mpc, mconn>>
          /\ queue[mconn] # <<>> /\ skt[mconn] # None
      BY <1>6 DEF SendSome, ManagerFits, connVars, mgrVars
    <2>4. ~torn'
      <3>1. CASE Udp
        <4>1. Size = 1 /\ index[p] \in Nat
          BY <2>1, <3>1, Sizes, Numbers
        <4>2. index[p] = 0 /\ cut[skt[mconn]] = None
          BY <2>1, <3>1, <4>1 DEF CutsFit
        <4>3. QED
          BY <2>1, <4>2 DEF CutsFit
      <3>2. CASE ~Udp
        <4>1. cut[skt[mconn]] = IF index[p] # 0 THEN p ELSE None
          BY <2>1, <2>3, <3>2 DEF CutsFit, CutFits
        <4>2. QED
          BY <2>1, <4>1 DEF CutsFit
      <3>3. QED
        BY <3>1, <3>2
    <2>5. ASSUME NEW f \in Fds, Udp \/ link'[f] = "closed"
          PROVE  cut'[f] = None
      <3>1. CASE f # skt[mconn]
        BY <2>1, <2>3, <2>5, <3>1 DEF CutsFit
      <3>2. CASE f = skt[mconn]
        <4>1. Udp
          BY <2>1, <2>3, <2>5, <3>2 DEF SocketsFit
        <4>2. Size = 1 /\ index[p] \in Nat /\ index'[p] \in Nat
          <5>1. Size = 1 /\ index[p] \in Nat
            BY <2>1, <4>1, Sizes, Numbers
          <5>2. index' \in [Packets -> 0..Size]
            BY <1>6, SendSomeTypes
          <5>3. index'[p] \in 0..Size
            BY <2>1, <5>2
          <5>4. QED
            BY <5>1, <5>3
        <4>3. ~(index[p] + 1 <= index'[p] /\ index'[p] < Size)
          BY <4>2
        <4>4. QED
          BY <2>2, <3>2, <4>3
      <3>3. QED
        BY <3>1, <3>2
    <2>6. ASSUME ~Udp, NEW k \in Conns
          PROVE  CutFits(k)'
      <3>1. OnceFit /\ CutFits(k) /\ CutFits(mconn)
        BY <2>1, <2>6 DEF CutsFit
      <3>2. CASE k # mconn
        <4>1. queue'[k] = queue[k] /\ (skt[k] # None => cut'[skt[k]] = cut[skt[k]])
          BY <1>2, <2>1, <3>2 DEF SocketsFit
        <4>2. \A i \in DOMAIN queue[k] : index'[queue[k][i]] = index[queue[k][i]]
          BY <2>1, <3>1, <3>2, InQueue DEF OnceFit
        <4>3. queue[k] # <<>> => index'[queue[k][1]] = index[queue[k][1]]
          BY <4>2, InQueue
        <4>4. QED
          BY <2>3, <3>1, <3>2, <4>1, <4>2, <4>3 DEF CutFits
      <3>3. CASE k = mconn
        <4>1. \A i \in DOMAIN queue[k] : i # 1 => index'[queue[k][i]] = 0
          <5>1. \A i \in DOMAIN queue[k] : i # 1 => queue[k][i] # p /\ queue[k][i] \in Packets
            BY <2>1, <3>1, <3>3, InQueue DEF OnceFit
          <5>2. QED
            BY <2>1, <3>1, <3>3, <5>1 DEF CutFits
        <4>2. CASE queue' = queue /\ cut'[skt[mconn]] = p /\ index'[p] # 0
          BY <2>3, <3>3, <4>1, <4>2 DEF CutFits
        <4>3. CASE /\ queue' # queue /\ cut'[skt[mconn]] = None
                   /\ queue'[mconn] # <<>> => 1 \in DOMAIN queue'[mconn]
          <5>1. \A i \in DOMAIN queue'[mconn] : index'[queue'[mconn][i]] = 0
            BY <1>6, <3>3, <4>1, <4>3, SendSomeQueues
          <5>2. queue'[mconn] # <<>> => index'[queue'[mconn][1]] = 0
            BY <4>3, <5>1
          <5>3. QED
            BY <2>3, <3>3, <4>3, <5>1, <5>2 DEF CutFits
        <4>4. QED
          <5>1. queue' = [queue EXCEPT ![mconn] = Tail(@)] => queue' # queue
            <6>1. queue[mconn] \in Seq(Packets) /\ queue[mconn] # <<>>
              BY <2>1, <2>3, InQueue
            <6>2. Tail(queue[mconn]) # queue[mconn]
              BY <6>1, TailDiffers
            <6>3. QED
              BY <2>1, <6>2 DEF TypeOK
          <5>2. QED
            BY <2>2, <4>2, <4>3, <5>1
      <3>4. QED
        BY <3>2, <3>3
    <2>7. QED
      BY <1>1, <2>4, <2>5, <2>6 DEF CutsFit
  <1>7. QED
    BY <1>3, <1>4, <1>5, <1>6, ManagerPackets

LEMMA KernelPackets ==
  ASSUME TypeOK, PacketsFit, CutsFit, NEW f \in Fds, Establish(f) \/ PeerEnds(f) \/ Drain(f)
  PROVE  PacketsFit' /\ CutsFit'
  <1>1. UNCHANGED <<skt, queue, index, written, pc, tpkt, mpc, mconn, cut, torn>>
    BY DEF Establish, PeerEnds, Drain, connVars, packetVars, threadVars, mgrVars, history
  <1>2. \A g \in Fds : link'[g] = "closed" => link[g] = "closed"
    BY DEF Establish, PeerEnds, Drain, TypeOK
  <1>3. PacketsFit'
    BY <1>1 DEF PacketsFit
  <1>4. CutsFit'
    BY <1>1, <1>2 DEF CutsFit, CutFits, OnceFit, Writing
  <1>5. QED
    BY <1>3, <1>4

-----------------------------------------------------------------------------
(***************************************************************************)
(* The invariant is inductive.                                             *)
(***************************************************************************)
LEMMA InitInvariant == Init => IInv
  <1> SUFFICES ASSUME Init
               PROVE  IInv
    OBVIOUS
  <1>1. TypeOK
    BY InitTypes
  <1>2. ThreadsFit
    BY DEF Init, ThreadsFit, ThreadFits
  <1>3. list = <<>> /\ DOMAIN list = {}
    BY DEF Init
  <1>4. MessagesFit /\ NoMessageForgotten
    BY <1>3 DEF Init, MessagesFit, NoMessageForgotten
  <1>5. UnaddedFit
    BY <1>3 DEF Init, UnaddedFit, Unadded, Posting
  <1>6. SocketsFit /\ ManagerFits /\ MapIsSound
    <2>1. \A k \in Conns : skt[k] = None
      BY DEF Init
    <2>2. SocketsFit
      BY <2>1 DEF SocketsFit
    <2>3. ManagerFits
      BY DEF Init, ManagerFits
    <2>4. MapIsSound
      BY DEF Init, MapIsSound
    <2>5. QED
      BY <2>2, <2>3, <2>4
  <1>7. \A k \in Conns : queue[k] = <<>> /\ DOMAIN queue[k] = {}
    <2>1. \A k \in Conns : queue[k] = <<>>
      BY DEF Init
    <2>2. DOMAIN <<>> = {}
      OBVIOUS
    <2>3. QED
      BY <2>1, <2>2
  <1>8. PacketsFit
    BY <1>7 DEF Init, PacketsFit
  <1>9. CutsFit
    BY <1>7 DEF Init, CutsFit, CutFits, OnceFit, Writing
  <1>10. QED
    BY <1>1, <1>2, <1>4, <1>5, <1>6, <1>8, <1>9 DEF IInv

LEMMA NextInvariant == IInv /\ [Next]_vars => IInv'
  <1> SUFFICES ASSUME IInv, [Next]_vars
               PROVE  IInv'
    OBVIOUS
  <1> USE DEF IInv
  <1>1. ASSUME NEW t \in Threads, Thread(t)
        PROVE  IInv'
    <2>1. TypeOK' /\ ThreadsFit' /\ MessagesFit' /\ UnaddedFit'
      BY <1>1, ThreadTypes, ThreadThreads, ThreadMessages, ThreadUnaddedFit
    <2>2. SocketsFit' /\ ManagerFits' /\ MapIsSound' /\ NoMessageForgotten'
      BY <1>1, ThreadSocketsFit, ThreadMap, ThreadWakes
    <2>3. PacketsFit' /\ CutsFit'
      BY <1>1, ThreadPacketsFit, ThreadCuts
    <2>4. QED
      BY <2>1, <2>2, <2>3
  <1>2. CASE Manager
    <2>1. TypeOK' /\ MessagesFit' /\ PacketsFit' /\ CutsFit'
      BY <1>2, ManagerTypes, ManagerMessages, ManagerPacketsFit, ManagerCuts
    <2>2. UNCHANGED <<life, pc, tconn, tpkt, tmsg>>
      BY <1>2, ManagerFrame
    <2>3. ThreadsFit'
      BY <2>2, ManagerThreads
    <2>4. SocketsFit' /\ UnaddedFit' /\ ManagerFits' /\ MapIsSound' /\ NoMessageForgotten'
      BY <1>2, ManagerSound
    <2>5. QED
      BY <2>1, <2>3, <2>4
  <1>3. ASSUME NEW f \in Fds, Establish(f) \/ PeerEnds(f) \/ Drain(f)
        PROVE  IInv'
    BY <1>3, KernelTypes, KernelSound, KernelPackets
  <1>4. CASE UNCHANGED vars
    <2>1. UNCHANGED <<life, skt, state, queue, index, written, writes, sktMap, interest, list,
                      ctl, link, full, pc, tconn, tpkt, tmsg, mpc, mconn, mskt, batch, wake,
                      cut, torn>>
      BY <1>4 DEF vars, connVars, packetVars, epollVars, msgVars, kernelVars, threadVars,
                  mgrVars, history
    <2>2. TypeOK' /\ ThreadsFit' /\ MessagesFit' /\ SocketsFit'
      BY <2>1 DEF TypeOK, ThreadsFit, ThreadFits, MessagesFit, SocketsFit, Known
    <2>3. UnaddedFit' /\ ManagerFits' /\ MapIsSound' /\ NoMessageForgotten'
      BY <2>1 DEF UnaddedFit, Unadded, Posting, ManagerFits, MapIsSound, NoMessageForgotten,
                  FromEvent
    <2>4. PacketsFit' /\ CutsFit'
      BY <2>1 DEF PacketsFit, CutsFit, CutFits, OnceFit, Writing
    <2>5. QED
      BY <2>2, <2>3, <2>4
  <1>5. QED
    BY <1>1, <1>2, <1>3, <1>4 DEF Next

LEMMA IInvAlways == Spec => []IInv
  BY InitInvariant, NextInvariant, PTL DEF Spec

-----------------------------------------------------------------------------
\* Whatever the threads, the manager and the kernel do, the state stays of its type:
\* in particular the manager never takes a socket, a connection or a packet out of a
\* place that holds none (ConnectionMgr::processControlMsg, sendPacket).
THEOREM TypeCorrect == Spec => []TypeOK
  BY IInvAlways, PTL DEF IInv

\* The manager's map, epoll and the connections agree after every critical section,
\* for any number of connections that are created, closed by the peer, cleared and
\* reconnected on descriptors the kernel gives out again (SocketConnMap, closeConnection).
THEOREM MapIsAlwaysSound == Spec => []MapIsSound
  BY IInvAlways, PTL DEF IInv

\* Between the message of sendControlMsg and its byte, and between the drain of the
\* control socket and the last message of processControlMsg, no wake-up is lost: a
\* message in the list has its byte, its sender about to send one, or the manager.
THEOREM NoMessageIsForgotten == Spec => []NoMessageForgotten
  BY IInvAlways, PTL DEF IInv

\* sendPacket never continues a packet on another socket than it began it on and never
\* begins one in the middle of another, through partial sends, closes and reconnects.
THEOREM PacketsAreWhole == Spec => []NothingTorn
  <1>1. IInv => NothingTorn
    BY DEF IInv, CutsFit, NothingTorn
  <1>2. QED
    BY <1>1, IInvAlways, PTL
=============================================================================
