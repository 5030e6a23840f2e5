-------------------------- MODULE ConnServed_proofs --------------------------
(***************************************************************************)
(* Over TCP, while nothing fails, no packet is left lying in the queue of  *)
(* its connection, for any connections, threads and descriptors.           *)
(***************************************************************************)
EXTENDS ConnManager_proofs

\* The environment: sockets may be busy, and that is all.
Quiet == ~Udp /\ Faults \subseteq {"busy"}

\* Nothing is closed or removed; what was created is in the map or about to be, and
\* will then be watched for being writable, for it is not connected yet.
Managed ==
  /\ mpc # "close" /\ \A f \in Fds : link[f] # "down"
  /\ \A t \in Threads : tmsg[t] # "DEL_SKT"
  /\ \A i \in DOMAIN list : list[i][1] # "DEL_SKT"
  /\ \A k \in Conns : life[k] # "new" => skt[k] # None /\ (Mapped(k) \/ Unadded(k))
  /\ \A k \in Conns : Unadded(k) => state[k] = "connecting"
Unsent == \A k \in Conns : \A i \in DOMAIN queue[k] : index[queue[k][i]] < Size

\* Whoever tells the manager to send has found the connection in the map, and an
\* event is of a socket that is watched for being writable, and handled once.
Notified ==
  /\ \A t \in Threads : pc[t] \in {"post", "byte"} /\ tmsg[t] = "WRITE_SKT" => Mapped(tconn[t])
  /\ \A i \in DOMAIN list : list[i][1] = "WRITE_SKT" => Mapped(list[i][2])
  /\ mconn # None => Mapped(mconn)
  /\ \A e \in batch : e[2] = "out" /\ "out" \in interest[e[1]]
  /\ mskt # None => "out" \in interest[mskt] /\ <<mskt, "out">> \notin batch

\* QueueIsServed of one connection.
Notifies(t, k) == pc[t] \in {"lookup", "post"} /\ tconn[t] = k /\ tmsg[t] = "WRITE_SKT"
Served(k) ==
  \/ \E t \in Threads : Notifies(t, k)
  \/ \E i \in DOMAIN list : list[i] = <<"WRITE_SKT", k>>
  \/ \E i \in DOMAIN list : list[i] = <<"ADD_SKT", k>> /\ state[k] = "connecting"
  \/ skt[k] # None /\ "out" \in interest[skt[k]]
  \/ mpc \in {"send", "sending", "close"} /\ mconn = k
AllServed == \A k \in Conns : queue[k] # <<>> => Served(k)

LEMMA ServedIsServed == AllServed => QueueIsServed
  BY DEF AllServed, Served, Notifies, QueueIsServed

QInv == Managed /\ Unsent /\ Notified /\ AllServed

-----------------------------------------------------------------------------
(***************************************************************************)
(* The steps of a thread.                                                  *)
(***************************************************************************)
\* What is not disturbed by a step that leaves the sockets and the list alone.
LEMMA ManagedOn ==
  ASSUME Managed, NEW t \in Threads, Apart(t), UNCHANGED <<skt, state, link, list>>,
         \A k \in Conns : life'[k] = "new" <=> life[k] = "new",
         \A k \in Conns : Posting(k, t)' <=> Posting(k, t), tmsg'[t] # "DEL_SKT"
  PROVE  Managed'
  <1>1. \A k \in Conns : Mapped(k)' <=> Mapped(k)
    BY DEF Mapped, Apart
  <1>2. \A k \in Conns, u \in Threads : Posting(k, u)' <=> Posting(k, u)
    BY DEF Posting, Apart
  <1>3. \A k \in Conns : Unadded(k)' <=> Unadded(k)
    BY <1>2 DEF Unadded
  <1>4. \A u \in Threads : tmsg'[u] # "DEL_SKT"
    BY DEF Managed, Apart
  <1>5. QED
    BY <1>1, <1>3, <1>4 DEF Managed, Apart

LEMMA NotifiedOn ==
  ASSUME Notified, NEW t \in Threads, Apart(t), list' = list,
         pc'[t] \in {"post", "byte"} /\ tmsg'[t] = "WRITE_SKT" => Mapped(tconn'[t])
  PROVE  Notified'
  <1>1. \A k : Mapped(k)' <=> Mapped(k)
    BY DEF Mapped, Apart
  <1>2. \A u \in Threads : pc'[u] \in {"post", "byte"} /\ tmsg'[u] = "WRITE_SKT" =>
                             \E f \in Fds : sktMap'[f] = tconn'[u]
    BY DEF Notified, Apart, Mapped
  <1>3. QED
    BY <1>1, <1>2 DEF Notified, Apart, Mapped

LEMMA ServedOn ==
  ASSUME NEW t \in Threads, Apart(t), list' = list, NEW k \in Conns,
         skt[k] # None => skt'[k] = skt[k], state'[k] = state[k], Served(k),
         Notifies(t, k) => Served(k)'
  PROVE  Served(k)'
  <1>1. CASE \E u \in Threads : u # t /\ Notifies(u, k)
    <2>1. PICK u \in Threads : u # t /\ Notifies(u, k)
      BY <1>1
    <2>2. Notifies(u, k)'
      BY <2>1 DEF Notifies, Apart
    <2>3. QED
      BY <2>2 DEF Served
  <1>2. CASE ~(\E u \in Threads : Notifies(u, k))
    BY <1>2 DEF Served, Apart
  <1>3. QED
    BY <1>1, <1>2

LEMMA UnsentOn ==
  ASSUME TypeOK, Unsent, queue' = queue,
         \/ index' = index
         \/ \E p \in Packets : index' = [index EXCEPT ![p] = 0]
  PROVE  Unsent'
  <1>1. CASE index' = index
    BY <1>1 DEF Unsent
  <1>2. ASSUME NEW p \in Packets, index' = [index EXCEPT ![p] = 0]
        PROVE  Unsent'
    <2>1. \A q \in Packets : index'[q] = IF q = p THEN 0 ELSE index[q]
      BY <1>2 DEF TypeOK
    <2>2. \A k \in Conns : \A i \in DOMAIN queue[k] : queue[k][i] \in Packets
      BY InQueue
    <2>3. QED
      BY <2>1, <2>2, Sizes DEF Unsent
  <1>3. QED
    BY <1>1, <1>2

LEMMA CreateServed ==
  ASSUME Quiet, IInv, QInv, NEW t \in Threads, NEW k \in Conns, Create(t, k)
  PROVE  QInv'
  <1>1. /\ pc[t] = "idle" /\ life[k] = "new" /\ life' = [life EXCEPT ![k] = "made"]
        /\ pc'[t] = "post" /\ tconn'[t] = k /\ tmsg'[t] = "ADD_SKT"
        /\ Apart(t) /\ UNCHANGED <<queue, index, list>>
    BY CreateEffect DEF IInv
  <1>2. /\ skt'[k] \in Fds /\ state'[k] = "connecting"
        /\ \A l \in Conns : l # k => skt'[l] = skt[l] /\ state'[l] = state[l]
        /\ \A f \in Fds : link'[f] # link[f] => link'[f] \in {"connecting", "up"}
    <2>1. Connect(k) /\ TypeOK /\ ~Udp /\ "instant" \notin Faults
      BY CreateEffect DEF IInv, Quiet
    <2>2. QED
      BY <2>1, ConnectTypes
  <1>3. skt[k] = None
    BY <1>1 DEF IInv, SocketsFit
  <1>4. Managed'
    <2>1. Posting(k, t)'
      BY <1>1 DEF Posting
    <2>2. \A l \in Conns, u \in Threads : Posting(l, u) => Posting(l, u)'
      BY <1>1 DEF Posting, Apart
    <2>3. \A l \in Conns : Unadded(l) => Unadded(l)'
      BY <1>1, <2>2 DEF Unadded
    <2>4. \A l \in Conns : Mapped(l) => Mapped(l)'
      BY <1>1 DEF Mapped, Apart
    <2>5. Unadded(k)'
      BY <2>1 DEF Unadded
    <2>6. ASSUME NEW l \in Conns, life'[l] # "new"
          PROVE  skt'[l] # None /\ (Mapped(l)' \/ Unadded(l)')
      <3>1. CASE l = k
        BY <1>2, <2>5, <3>1, NoneIsNone
      <3>2. CASE l # k
        BY <1>1, <1>2, <2>3, <2>4, <2>6, <3>2 DEF QInv, Managed, IInv, TypeOK
      <3>3. QED
        BY <3>1, <3>2
    <2>7. ASSUME NEW l \in Conns, Unadded(l)'
          PROVE  state'[l] = "connecting"
      <3>1. CASE l = k
        BY <1>2, <3>1
      <3>2. CASE l # k
        <4>1. \A u \in Threads : Posting(l, u)' => Posting(l, u)
          BY <1>1, <3>2 DEF Posting, Apart
        <4>2. Unadded(l)
          BY <1>1, <2>7, <4>1 DEF Unadded
        <4>3. QED
          BY <1>2, <3>2, <4>2 DEF QInv, Managed
      <3>3. QED
        BY <3>1, <3>2
    <2>8. mpc' # "close" /\ \A f \in Fds : link'[f] # "down"
      BY <1>1, <1>2 DEF QInv, Managed, Apart
    <2>9. \A u \in Threads : tmsg'[u] # "DEL_SKT"
      BY <1>1 DEF QInv, Managed, Apart
    <2>10. \A i \in DOMAIN list' : list'[i][1] # "DEL_SKT"
      BY <1>1 DEF QInv, Managed
    <2>11. QED
      BY <2>6, <2>7, <2>8, <2>9, <2>10 DEF Managed
  <1>5. Unsent'
    BY <1>1 DEF QInv, Unsent
  <1>6. Notified'
    BY <1>1, NotifiedOn DEF QInv
  <1>7. ASSUME NEW l \in Conns, queue'[l] # <<>>
        PROVE  Served(l)'
    <2>1. Served(l) /\ ~Notifies(t, l)
      BY <1>1, <1>7 DEF QInv, AllServed, Notifies
    <2>2. l # k \/ state[l] = "connecting" => state'[l] = state[l]
      BY <1>2
    <2>3. CASE l # k
      BY <1>1, <1>2, <2>1, <2>3, ServedOn
    <2>4. CASE l = k
      <3>1. \A i \in DOMAIN list : list[i] # <<"WRITE_SKT", k>> /\ list[i] # <<"ADD_SKT", k>>
        <4>1. \A i \in DOMAIN list : life[list[i][2]] # "new"
          BY DEF IInv, MessagesFit
        <4>2. QED
          BY <1>1, <4>1
      <3>2. mconn # k
        BY <1>1, NoneIsNone DEF IInv, ManagerFits, TypeOK
      <3>3. PICK u \in Threads : Notifies(u, k)
        BY <1>3, <2>1, <2>4, <3>1, <3>2 DEF Served
      <3>4. Notifies(u, k)'
        BY <1>1, <3>3 DEF Notifies, Apart
      <3>5. QED
        BY <2>4, <3>4 DEF Served
    <2>5. QED
      BY <2>3, <2>4
  <1>8. QED
    BY <1>4, <1>5, <1>6, <1>7 DEF QInv, AllServed

\* The steps before the packet is in the queue: only the thread and its packet go on.
LEMMA BeforePush ==
  ASSUME Quiet, IInv, QInv, NEW t \in Threads,
         \/ \E k \in Conns : BeginWrite(t, k)
         \/ WriteAgain(t) \/ CheckSocket(t) \/ ResetWriteIndex(t) \/ Reconnect(t)
  PROVE  QInv'
  <1>1. TypeOK /\ ThreadsFit
    BY DEF IInv
  <1>2. /\ pc[t] \in {"idle", "check", "connect", "reset"}
        /\ pc'[t] \in {"check", "connect", "reset", "push"}
        /\ UNCHANGED <<life, queue, list, tmsg>> /\ Apart(t)
    BY <1>1, BeginWriteEffect, GoOnEffect, ReconnectEffect
  <1>3. UNCHANGED <<skt, state, link>>
    <2>1. CASE Reconnect(t)
      <3>1. tconn[t] \in Conns /\ Known(tconn[t])
        BY <1>1, <1>2, <2>1, HasPacket, ReconnectEffect
      <3>2. skt[tconn[t]] # None
        BY <3>1 DEF QInv, Managed, Known
      <3>3. QED
        BY <1>1, <2>1, <3>2, ReconnectEffect
    <2>2. QED
      BY <1>1, <2>1, BeginWriteEffect, GoOnEffect
  <1>4. index' = index \/ \E p \in Packets : index' = [index EXCEPT ![p] = 0]
    <2>1. CASE ResetWriteIndex(t)
      <3>1. tpkt[t] \in Packets
        BY <1>1, <2>1, HasPacket DEF ResetWriteIndex
      <3>2. QED
        BY <2>1, <3>1 DEF ResetWriteIndex
    <2>2. QED
      BY <1>1, <2>1, BeginWriteEffect, GoOnEffect, ReconnectEffect DEF WriteAgain, CheckSocket,
         packetVars
  <1>5. Managed'
    <2>1. tmsg'[t] # "DEL_SKT" /\ \A k \in Conns : Posting(k, t)' <=> Posting(k, t)
      BY <1>2 DEF Posting, QInv, Managed
    <2>2. QED
      BY <1>2, <1>3, <2>1, ManagedOn DEF QInv
  <1>6. Unsent'
    BY <1>1, <1>2, <1>4, UnsentOn DEF QInv
  <1>7. Notified'
    BY <1>2, NotifiedOn DEF QInv
  <1>8. ASSUME NEW k \in Conns, queue'[k] # <<>>
        PROVE  Served(k)'
    <2>1. Served(k) /\ ~Notifies(t, k)
      BY <1>2, <1>8 DEF QInv, AllServed, Notifies
    <2>2. QED
      BY <1>2, <1>3, <2>1, ServedOn
  <1>9. QED
    BY <1>5, <1>6, <1>7, <1>8 DEF QInv, AllServed

\* The first packet of a queue has a thread that will notify; another one finds the
\* queue served already.
LEMMA PushServed ==
  ASSUME Quiet, IInv, QInv, NEW t \in Threads, AddPendingWrite(t)
  PROVE  QInv'
  <1>1. TypeOK /\ ThreadsFit /\ ~Udp
    BY DEF IInv, Quiet
  <1> DEFINE c == tconn[t]
  <1>2. /\ pc[t] = "push" /\ queue' = [queue EXCEPT ![c] = Append(@, tpkt[t])]
        /\ IF queue[c] = <<>>
           THEN pc'[t] = "lookup" /\ UNCHANGED <<tconn, tpkt, tmsg>> ELSE Leave(t)
        /\ UNCHANGED <<life, skt, state, index, written, list, ctl, link>>
        /\ Apart(t)
    BY <1>1, PushEffect
  <1>3. c \in Conns /\ tpkt[t] \in Packets /\ tmsg[t] = "WRITE_SKT"
    BY <1>1, <1>2, HasPacket
  <1>4. pc'[t] \in {"idle", "lookup"} /\ tmsg'[t] = "WRITE_SKT"
    BY <1>1, <1>2, <1>3, LeaveEffect
  <1>5. Managed'
    <2>1. \A k \in Conns : Posting(k, t)' <=> Posting(k, t)
      BY <1>2, <1>4 DEF Posting
    <2>2. QED
      BY <1>2, <1>4, <2>1, ManagedOn DEF QInv
  <1>6. Unsent'
    <2>1. index[tpkt[t]] = 0
      BY <1>1, <1>2 DEF IInv, CutsFit, OnceFit, Writing
    <2>2. /\ \A l \in Conns : l # c => queue'[l] = queue[l]
          /\ DOMAIN queue'[c] = DOMAIN queue[c] \cup {Len(queue[c]) + 1}
          /\ queue'[c][Len(queue[c]) + 1] = tpkt[t]
          /\ \A i \in DOMAIN queue[c] : queue'[c][i] = queue[c][i]
      BY <1>1, <1>2, <1>3, Pushed
    <2>3. ASSUME NEW k \in Conns, NEW i \in DOMAIN queue'[k]
          PROVE  index[queue'[k][i]] < Size
      <3>1. CASE k # c
        BY <2>2, <2>3, <3>1 DEF QInv, Unsent
      <3>2. CASE k = c /\ i \in DOMAIN queue[c]
        BY <1>3, <2>2, <3>2 DEF QInv, Unsent
      <3>3. CASE k = c /\ i = Len(queue[c]) + 1
        BY <2>1, <2>2, <3>3, Sizes
      <3>4. QED
        BY <2>2, <2>3, <3>1, <3>2, <3>3
    <2>4. QED
      BY <1>2, <2>3 DEF Unsent
  <1>7. Notified'
    BY <1>2, <1>4, NotifiedOn DEF QInv
  <1>8. ASSUME NEW k \in Conns, queue'[k] # <<>>
        PROVE  Served(k)'
    <2>1. CASE queue[k] # <<>>
      <3>1. Served(k) /\ ~Notifies(t, k)
        BY <1>2, <2>1 DEF QInv, AllServed, Notifies
      <3>2. QED
        BY <1>2, <3>1, ServedOn
    <2>2. CASE queue[k] = <<>>
      <3>1. k = c
        BY <1>1, <1>2, <1>3, <1>8, <2>2, Pushed
      <3>2. Notifies(t, k)'
        BY <1>2, <1>3, <2>2, <3>1 DEF Notifies
      <3>3. QED
        BY <3>2 DEF Served
    <2>3. QED
      BY <2>1, <2>2
  <1>9. QED
    BY <1>5, <1>6, <1>7, <1>8 DEF QInv, AllServed

\* A thread that does not find its connection in the map: ADD_SKT is still in the
\* list, and will have the socket watched.
LEMMA LookupServed ==
  ASSUME Quiet, IInv, QInv, NEW t \in Threads, WriteConnection(t)
  PROVE  QInv'
  <1>1. TypeOK /\ ThreadsFit /\ ~Udp
    BY DEF IInv, Quiet
  <1> DEFINE c == tconn[t]
  <1>2. /\ pc[t] = "lookup"
        /\ IF Mapped(c) THEN pc'[t] = "post" /\ UNCHANGED <<tconn, tpkt, tmsg>> ELSE Leave(t)
        /\ UNCHANGED <<life, skt, state, queue, index, written, list, ctl, link>>
        /\ Apart(t)
    BY <1>1, LookupEffect
  <1>3. c \in Conns /\ tmsg[t] = "WRITE_SKT" /\ Known(c)
    BY <1>1, <1>2, HasPacket
  <1>4. pc'[t] \in {"idle", "post"} /\ tmsg'[t] = "WRITE_SKT"
    BY <1>1, <1>2, <1>3, LeaveEffect
  <1>5. Managed'
    <2>1. \A k \in Conns : Posting(k, t)' <=> Posting(k, t)
      BY <1>2, <1>4 DEF Posting
    <2>2. QED
      BY <1>2, <1>4, <2>1, ManagedOn DEF QInv
  <1>6. Unsent'
    BY <1>1, <1>2, UnsentOn DEF QInv
  <1>7. Notified'
    <2>1. pc'[t] = "post" => Mapped(tconn'[t])
      BY <1>1, <1>2, LeaveEffect
    <2>2. QED
      BY <1>2, <1>4, <2>1, NotifiedOn DEF QInv
  <1>8. ASSUME NEW k \in Conns, queue'[k] # <<>>
        PROVE  Served(k)'
    <2>1. Served(k)
      BY <1>2, <1>8 DEF QInv, AllServed
    <2>2. CASE k # c
      BY <1>2, <2>1, <2>2, ServedOn DEF Notifies
    <2>3. CASE k = c /\ Mapped(c)
      <3>1. Notifies(t, k)'
        BY <1>2, <1>3, <2>3 DEF Notifies
      <3>2. QED
        BY <3>1 DEF Served
    <2>4. CASE k = c /\ ~Mapped(c)
      <3>1. Unadded(c) /\ state[c] = "connecting"
        BY <1>3, <2>4 DEF QInv, Managed, Known
      <3>2. \A u \in Threads : ~Posting(c, u)
        BY <1>1, <1>3 DEF Posting, ThreadsFit, ThreadFits, Known
      <3>3. \E i \in DOMAIN list : list[i] = <<"ADD_SKT", c>>
        BY <3>1, <3>2 DEF Unadded
      <3>4. QED
        BY <1>2, <2>4, <3>1, <3>3 DEF Served
    <2>5. QED
      BY <2>2, <2>3, <2>4
  <1>9. QED
    BY <1>5, <1>6, <1>7, <1>8 DEF QInv, AllServed

\* What a thread is to tell the manager is then in the list.
LEMMA PostServed ==
  ASSUME Quiet, IInv, QInv, NEW t \in Threads, PostMessage(t)
  PROVE  QInv'
  <1>1. TypeOK /\ ThreadsFit
    BY DEF IInv
  <1> DEFINE n == Len(list) + 1
             c == tconn[t]
  <1>2. /\ pc[t] = "post" /\ pc'[t] = "byte" /\ list' = Append(list, <<tmsg[t], c>>)
        /\ UNCHANGED <<tconn, tpkt, tmsg, life, skt, state, queue, index, written, ctl, link>>
        /\ Apart(t)
    BY <1>1, PostEffect
  <1>3. c \in Conns /\ tmsg[t] \in Actions /\ <<tmsg[t], c>> \in Messages /\ list \in Seq(Messages)
    BY <1>1, <1>2, HasPacket DEF TypeOK, Messages
  <1>4. /\ DOMAIN list' = DOMAIN list \cup {n} /\ list'[n] = <<tmsg[t], c>>
        /\ \A i \in DOMAIN list : list'[i] = list[i]
    BY <1>2, <1>3, Appended
  <1> HIDE DEF n
  <1>5. \A k \in Conns : Unadded(k)' <=> Unadded(k)
    <2>1. ASSUME NEW k \in Conns, Unadded(k)
          PROVE  Unadded(k)'
      <3>1. CASE Posting(k, t)
        <4>1. list'[n] = <<"ADD_SKT", k>> /\ n \in DOMAIN list'
          BY <1>4, <3>1 DEF Posting
        <4>2. QED
          BY <4>1 DEF Unadded
      <3>2. ASSUME NEW u \in Threads, u # t, Posting(k, u)
            PROVE  Unadded(k)'
        BY <1>2, <3>2 DEF Posting, Apart, Unadded
      <3>3. ASSUME NEW i \in DOMAIN list, list[i] = <<"ADD_SKT", k>>
            PROVE  Unadded(k)'
        BY <1>4, <3>3 DEF Unadded
      <3>4. QED
        BY <2>1, <3>1, <3>2, <3>3 DEF Unadded
    <2>2. ASSUME NEW k \in Conns, Unadded(k)'
          PROVE  Unadded(k)
      <3>1. Thread(t) /\ ~(Create(t, k) /\ life[k] = "new")
        BY <1>2 DEF Thread, InWrite, Create
      <3>2. QED
        BY <1>1, <2>2, <3>1, ThreadUnadded
    <2>3. QED
      BY <2>1, <2>2
  <1>6. \A k : Mapped(k)' <=> Mapped(k)
    BY <1>2 DEF Mapped, Apart
  <1>7. Managed'
    BY <1>2, <1>4, <1>5, <1>6 DEF QInv, Managed, Apart
  <1>8. Unsent'
    BY <1>1, <1>2, UnsentOn DEF QInv
  <1>9. Notified'
    <2>1. \A u \in Threads : pc'[u] \in {"post", "byte"} /\ tmsg'[u] = "WRITE_SKT" =>
                               Mapped(tconn'[u])
      BY <1>2 DEF QInv, Notified, Apart
    <2>2. \A i \in DOMAIN list' : list'[i][1] = "WRITE_SKT" => Mapped(list'[i][2])
      <3>1. tmsg[t] = "WRITE_SKT" => Mapped(c)
        BY <1>2 DEF QInv, Notified
      <3>2. list'[n][1] = tmsg[t] /\ list'[n][2] = c
        BY <1>4
      <3>3. \A i \in DOMAIN list : list'[i][1] = "WRITE_SKT" => Mapped(list'[i][2])
        BY <1>4 DEF QInv, Notified
      <3>4. QED
        BY <1>4, <3>1, <3>2, <3>3
    <2>3. /\ \A u \in Threads : pc'[u] \in {"post", "byte"} /\ tmsg'[u] = "WRITE_SKT" =>
                                  \E f \in Fds : sktMap'[f] = tconn'[u]
          /\ \A i \in DOMAIN list' : list'[i][1] = "WRITE_SKT" =>
                                       \E f \in Fds : sktMap'[f] = list'[i][2]
      BY <1>2, <2>1, <2>2 DEF Mapped, Apart
    <2>4. QED
      BY <1>2, <2>3 DEF QInv, Notified, Apart, Mapped
  <1>10. ASSUME NEW k \in Conns, queue'[k] # <<>>
         PROVE  Served(k)'
    <2>1. Served(k)
      BY <1>2, <1>10 DEF QInv, AllServed
    <2>2. CASE Notifies(t, k)
      BY <1>4, <2>2 DEF Notifies, Served
    <2>3. ASSUME NEW u \in Threads, u # t, Notifies(u, k)
          PROVE  Served(k)'
      BY <1>2, <2>3 DEF Notifies, Served, Apart
    <2>4. CASE ~(\E u \in Threads : Notifies(u, k))
      BY <1>2, <1>4, <2>1, <2>4 DEF Served, Apart
    <2>5. QED
      BY <2>2, <2>3, <2>4
  <1>11. QED
    BY <1>7, <1>8, <1>9, <1>10 DEF QInv, AllServed

LEMMA ByteServed ==
  ASSUME Quiet, IInv, QInv, NEW t \in Threads, SendByte(t)
  PROVE  QInv'
  <1>1. TypeOK /\ ThreadsFit /\ ThreadFits(t)
    BY DEF IInv, ThreadsFit
  <1>2. /\ pc[t] = "byte" /\ Leave(t)
        /\ life' = IF tmsg[t] = "ADD_SKT" THEN [life EXCEPT ![tconn[t]] = "shared"] ELSE life
        /\ UNCHANGED <<skt, state, queue, index, written, list, link>>
        /\ Apart(t)
    BY <1>1, ByteEffect
  <1>3. pc'[t] = "idle" /\ tmsg'[t] = "WRITE_SKT"
    BY <1>1, <1>2, LeaveEffect
  <1>4. \A k \in Conns : life'[k] = "new" <=> life[k] = "new"
    <2>1. CASE tmsg[t] = "ADD_SKT"
      <3>1. life[tconn[t]] = "made" /\ life' = [life EXCEPT ![tconn[t]] = "shared"]
        BY <1>1, <1>2, <2>1 DEF ThreadFits
      <3>2. QED
        BY <1>1, <3>1 DEF TypeOK
    <2>2. QED
      BY <1>2, <2>1
  <1>5. Managed'
    <2>1. \A k \in Conns : Posting(k, t)' <=> Posting(k, t)
      BY <1>2, <1>3 DEF Posting
    <2>2. QED
      BY <1>2, <1>3, <1>4, <2>1, ManagedOn DEF QInv
  <1>6. Unsent'
    BY <1>1, <1>2, UnsentOn DEF QInv
  <1>7. Notified'
    BY <1>2, <1>3, NotifiedOn DEF QInv
  <1>8. ASSUME NEW k \in Conns, queue'[k] # <<>>
        PROVE  Served(k)'
    <2>1. Served(k) /\ ~Notifies(t, k)
      BY <1>2, <1>8 DEF QInv, AllServed, Notifies
    <2>2. QED
      BY <1>2, <2>1, ServedOn
  <1>9. QED
    BY <1>5, <1>6, <1>7, <1>8 DEF QInv, AllServed

LEMMA ThreadServed ==
  ASSUME Quiet, IInv, QInv, NEW t \in Threads, Thread(t)
  PROVE  QInv'
  <1>1. \A k \in Conns : ~CreateFails(t, k) /\ ~Clear(t, k)
    BY DEF CreateFails, Clear, Quiet
  <1>2. ~ReconnectFails(t)
    BY DEF ReconnectFails, Quiet
  <1>3. QED
    BY <1>1, <1>2, CreateServed, BeforePush, PushServed, LookupServed, PostServed, ByteServed
    DEF Thread, InWrite

-----------------------------------------------------------------------------
(***************************************************************************)
(* The steps of the manager and of the kernel.                             *)
(***************************************************************************)
\* The manager leaves the threads alone; the list loses its first message or none.
ManagerFrames == /\ UNCHANGED <<life, skt, link, pc, tconn, tmsg>>
                 /\ list' = list \/ (list # <<>> /\ list' = Tail(list))

LEMMA ListOn ==
  ASSUME TypeOK, ManagerFrames, NEW i \in DOMAIN list
  PROVE  (\E j \in DOMAIN list' : list'[j] = list[i]) \/ (list' # list /\ list[i] = Head(list))
  <1>1. CASE list' = list
    BY <1>1
  <1>2. CASE list # <<>> /\ list' = Tail(list)
    <2>1. list \in Seq(Messages) /\ list' # list
      BY <1>2, TailDiffers DEF TypeOK
    <2>2. /\ Len(list) \in Nat /\ DOMAIN list = 1..Len(list) /\ Head(list) = list[1]
          /\ Len(Tail(list)) = Len(list) - 1 /\ Tail(list) \in Seq(Messages)
      BY <1>2, <2>1, HeadTailProperties, LenProperties
    <2>3. CASE i = 1
      BY <2>1, <2>2, <2>3
    <2>4. CASE i # 1
      <3>1. i - 1 \in 1..(Len(list) - 1) /\ (i - 1) + 1 = i
        BY <2>2, <2>4
      <3>2. DOMAIN Tail(list) = 1..(Len(list) - 1)
        BY <2>2, LenProperties
      <3>3. Tail(list)[i - 1] = list[(i - 1) + 1]
        BY <1>2, <2>1, <3>1, <3>2, Shifted
      <3>4. QED
        BY <1>2, <3>1, <3>2, <3>3
    <2>5. QED
      BY <2>3, <2>4
  <1>3. QED
    BY <1>1, <1>2 DEF ManagerFrames

LEMMA ListFrom ==
  ASSUME TypeOK, ManagerFrames, NEW j \in DOMAIN list'
  PROVE  \E i \in DOMAIN list : list[i] = list'[j]
  <1>1. CASE list' = list
    BY <1>1
  <1>2. CASE list # <<>> /\ list' = Tail(list)
    <2>1. list \in Seq(Messages)
      BY DEF TypeOK
    <2>2. j + 1 \in DOMAIN list /\ list'[j] = list[j + 1]
      BY <1>2, <2>1, Shifted
    <2>3. QED
      BY <2>2
  <1>3. QED
    BY <1>1, <1>2 DEF ManagerFrames

LEMMA ManagedStays ==
  ASSUME IInv, Managed, ManagerFrames, mpc' # "close",
         \A k \in Conns : Mapped(k) => Mapped(k)',
         list' # list => \/ Head(list)[1] # "ADD_SKT"
                         \/ \E f \in Fds : sktMap'[f] = Head(list)[2],
         \A k \in Conns : Unadded(k) => state'[k] = state[k]
  PROVE  Managed'
  <1>1. TypeOK /\ MessagesFit
    BY DEF IInv
  <1>2. \A k \in Conns : Unadded(k)' => Unadded(k)
    BY <1>1, ManagerUnadded DEF ManagerFrames
  <1>3. ASSUME NEW k \in Conns, Unadded(k)
        PROVE  Unadded(k)' \/ Mapped(k)'
    <2>1. ASSUME NEW u \in Threads, Posting(k, u)
          PROVE  Unadded(k)'
      BY <2>1 DEF Posting, Unadded, ManagerFrames
    <2>2. ASSUME NEW i \in DOMAIN list, list[i] = <<"ADD_SKT", k>>
          PROVE  Unadded(k)' \/ Mapped(k)'
      <3>1. CASE \E j \in DOMAIN list' : list'[j] = list[i]
        BY <2>2, <3>1 DEF Unadded
      <3>2. CASE list' # list /\ list[i] = Head(list)
        <4>1. Head(list)[1] = "ADD_SKT" /\ Head(list)[2] = k
          BY <2>2, <3>2
        <4>2. \E f \in Fds : sktMap'[f] = Head(list)[2]
          BY <3>2, <4>1
        <4>3. QED
          BY <4>1, <4>2 DEF Mapped
      <3>3. QED
        BY <1>1, <3>1, <3>2, ListOn
    <2>3. QED
      BY <1>3, <2>1, <2>2 DEF Unadded
  <1>4. \A k \in Conns : life'[k] # "new" => skt'[k] # None /\ (Mapped(k)' \/ Unadded(k)')
    BY <1>3 DEF Managed, ManagerFrames
  <1>5. \A k \in Conns : Unadded(k)' => state'[k] = "connecting"
    BY <1>2 DEF Managed
  <1>6. \A i \in DOMAIN list' : list'[i][1] # "DEL_SKT"
    BY <1>1, ListFrom DEF Managed
  <1>7. QED
    BY <1>4, <1>5, <1>6 DEF Managed, ManagerFrames

\* Of Notified, the part about the threads and the list.
Told == /\ \A t \in Threads : pc[t] \in {"post", "byte"} /\ tmsg[t] = "WRITE_SKT" =>
                                Mapped(tconn[t])
        /\ \A i \in DOMAIN list : list[i][1] = "WRITE_SKT" => Mapped(list[i][2])
Watched == /\ mconn # None => Mapped(mconn)
           /\ \A e \in batch : e[2] = "out" /\ "out" \in interest[e[1]]
           /\ mskt # None => "out" \in interest[mskt] /\ <<mskt, "out">> \notin batch
LEMMA NotifiedParts == Notified <=> Told /\ Watched
  BY DEF Notified, Told, Watched

LEMMA ToldStays ==
  ASSUME TypeOK, ThreadsFit, Told, ManagerFrames, \A k \in Conns : Mapped(k) => Mapped(k)'
  PROVE  Told'
  <1>1. \A k \in Conns : Mapped(k) => \E f \in Fds : sktMap'[f] = k
    BY DEF Mapped
  <1>2. ASSUME NEW t \in Threads, pc'[t] \in {"post", "byte"}, tmsg'[t] = "WRITE_SKT"
        PROVE  \E f \in Fds : sktMap'[f] = tconn'[t]
    <2>1. tconn[t] \in Conns /\ Mapped(tconn[t]) /\ tconn'[t] = tconn[t]
      BY <1>2, HasPacket DEF ManagerFrames, Told
    <2>2. QED
      BY <1>1, <2>1
  <1>3. ASSUME NEW j \in DOMAIN list', list'[j][1] = "WRITE_SKT"
        PROVE  \E f \in Fds : sktMap'[f] = list'[j][2]
    <2>1. PICK i \in DOMAIN list : list[i] = list'[j]
      BY ListFrom
    <2>2. list[i][2] \in Conns /\ Mapped(list[i][2])
      BY <1>3, <2>1, AMessage DEF Told
    <2>3. QED
      BY <1>1, <2>1, <2>2
  <1>4. QED
    BY <1>2, <1>3 DEF Told, Mapped

\* A connection stays served when the manager does not take its message, does not
\* stop watching it, and is not the one dealing with it.
LEMMA ServedStays ==
  ASSUME TypeOK, ManagerFrames, NEW k \in Conns, Served(k),
         list' # list => Head(list)[2] # k,
         Unadded(k) => state'[k] = state[k],
         skt[k] # None /\ "out" \in interest[skt[k]] => "out" \in interest'[skt[k]],
         mconn # k \/ (mpc' \in {"send", "sending"} /\ mconn' = k)
  PROVE  Served(k)'
  <1>1. ASSUME NEW t \in Threads, Notifies(t, k)
        PROVE  Served(k)'
    BY <1>1 DEF Notifies, Served, ManagerFrames
  <1>2. ASSUME NEW i \in DOMAIN list, list[i] = <<"WRITE_SKT", k>>
        PROVE  Served(k)'
    <2>1. ~(list' # list /\ list[i] = Head(list))
      BY <1>2
    <2>2. \E j \in DOMAIN list' : list'[j] = <<"WRITE_SKT", k>>
      BY <1>2, <2>1, ListOn
    <2>3. QED
      BY <2>2 DEF Served
  <1>3. ASSUME NEW i \in DOMAIN list, list[i] = <<"ADD_SKT", k>>, state[k] = "connecting"
        PROVE  Served(k)'
    <2>1. ~(list' # list /\ list[i] = Head(list))
      BY <1>3
    <2>2. \E j \in DOMAIN list' : list'[j] = <<"ADD_SKT", k>>
      BY <1>3, <2>1, ListOn
    <2>3. state'[k] = "connecting"
      BY <1>3 DEF Unadded
    <2>4. QED
      BY <2>2, <2>3 DEF Served
  <1>4. CASE skt[k] # None /\ "out" \in interest[skt[k]]
    BY <1>4 DEF Served, ManagerFrames
  <1>5. CASE mpc \in {"send", "sending", "close"} /\ mconn = k
    BY <1>5 DEF Served
  <1>6. QED
    BY <1>1, <1>2, <1>3, <1>4, <1>5 DEF Served

LEMMA WaitServed ==
  ASSUME Quiet, IInv, QInv, EpollWait \/ BatchDone \/ DrainControl \/ ControlDone
  PROVE  QInv'
  <1>1. TypeOK /\ ThreadsFit /\ ManagerFits
    BY DEF IInv
  <1>2. /\ UNCHANGED <<life, skt, state, link, queue, index, sktMap, interest, list, mconn, mskt,
                       pc, tconn, tmsg>>
        /\ mpc \in {"poll", "batch", "control"} /\ mpc' \in {"poll", "batch", "control"}
    BY DEF EpollWait, BatchDone, DrainControl, ControlDone, connVars, packetVars, kernelVars,
           epollVars, msgVars, threadVars
  <1>3. mconn = None /\ mskt = None /\ ManagerFrames
    BY <1>1, <1>2 DEF ManagerFits, ManagerFrames
  <1>4. \A k \in Conns : Mapped(k) => Mapped(k)'
    BY <1>2 DEF Mapped
  <1>5. Managed'
    BY <1>2, <1>3, <1>4, ManagedStays DEF QInv
  <1>6. Unsent'
    BY <1>2 DEF QInv, Unsent
  <1>7. Notified'
    <2>1. Told'
      BY <1>1, <1>3, <1>4, ToldStays, NotifiedParts DEF QInv
    <2>2. \A e \in batch' : e[2] = "out" /\ "out" \in interest[e[1]]
      <3>1. CASE EpollWait
        <4>1. \A f \in Fds : \A x \in Events(f) : x = "out" /\ "out" \in interest[f]
          BY DEF Events, QInv, Managed
        <4>2. \A e \in batch' : e \in Fds \X {"ended", "out"} /\ e[2] \in Events(e[1])
          BY <3>1 DEF EpollWait
        <4>3. QED
          BY <4>1, <4>2
      <3>2. CASE BatchDone \/ DrainControl \/ ControlDone
        BY <3>2 DEF BatchDone, DrainControl, ControlDone, QInv, Notified
      <3>3. QED
        BY <3>1, <3>2
    <2>3. Watched'
      BY <1>2, <1>3, <2>2 DEF Watched
    <2>4. QED
      BY <2>1, <2>3, NotifiedParts DEF Notified, Told, Watched
  <1>8. ASSUME NEW k \in Conns, queue'[k] # <<>>
        PROVE  Served(k)'
    <2>1. Served(k) /\ mconn # k
      BY <1>2, <1>3, <1>8, NoneIsNone DEF QInv, AllServed
    <2>2. QED
      BY <1>1, <1>2, <1>3, <2>1, ServedStays
  <1>9. QED
    BY <1>5, <1>6, <1>7, <1>8 DEF QInv, AllServed

\* ADD_SKT of a connection that is not connected yet has its socket watched.
LEMMA AddServed ==
  ASSUME Quiet, IInv, QInv, NEW k \in Conns, AddSocket(k)
  PROVE  QInv'
  <1>1. TypeOK /\ ThreadsFit /\ MessagesFit /\ ManagerFits /\ SocketsFit /\ UnaddedFit /\ MapIsSound
    BY DEF IInv
  <1>2. /\ mpc = "control" /\ list # <<>> /\ Head(list) = <<"ADD_SKT", k>> /\ list' = Tail(list)
        /\ UNCHANGED <<life, skt, state, link, queue, index, mpc, mconn, mskt, batch, pc, tconn,
                       tmsg>>
    BY DEF AddSocket, connVars, packetVars, kernelVars, mgrVars, threadVars
  <1>3. mconn = None /\ mskt = None /\ ManagerFrames
    BY <1>1, <1>2 DEF ManagerFits, ManagerFrames
  <1>4. Unadded(k) /\ skt[k] \in Fds /\ \A f \in Fds : sktMap[f] # k
    <2>1. 1 \in DOMAIN list /\ list[1] = <<"ADD_SKT", k>>
      BY <1>1, <1>2, Shifted DEF TypeOK
    <2>2. QED
      BY <1>1, <2>1 DEF Unadded, UnaddedFit, TypeOK
  <1>5. sktMap[skt[k]] = None /\ interest[skt[k]] = {} /\ state[k] = "connecting"
    <2>1. sktMap[skt[k]] = None /\ interest[skt[k]] = {}
      BY <1>1, <1>4, NoneIsNone DEF MapIsSound, SocketsFit, TypeOK
    <2>2. QED
      BY <1>4, <2>1 DEF QInv, Managed
  <1>6. /\ sktMap' = [sktMap EXCEPT ![skt[k]] = k]
        /\ interest' = [interest EXCEPT ![skt[k]] = {"in", "out"}]
    BY <1>1, <1>4, <1>5, NoneIsNone DEF AddSocket, EpollAdd, TypeOK
  <1>7. /\ sktMap'[skt[k]] = k /\ \A f \in Fds : f # skt[k] => sktMap'[f] = sktMap[f]
        /\ \A f \in Fds : "out" \in interest[f] => "out" \in interest'[f]
        /\ "out" \in interest'[skt[k]]
    BY <1>1, <1>4, <1>5, <1>6 DEF TypeOK
  <1>8. Mapped(k)' /\ \A l \in Conns : Mapped(l) => Mapped(l)'
    BY <1>4, <1>5, <1>7, NoneIsNone DEF Mapped
  <1>9. Managed'
    <2>1. Head(list)[2] = k
      BY <1>2
    <2>2. \E f \in Fds : sktMap'[f] = Head(list)[2]
      BY <1>8, <2>1 DEF Mapped
    <2>3. Managed /\ mpc' # "close" /\ \A l \in Conns : Unadded(l) => state'[l] = state[l]
      BY <1>2 DEF QInv
    <2>4. QED
      BY <1>3, <1>8, <2>2, <2>3, ManagedStays
  <1>10. Unsent'
    BY <1>2 DEF QInv, Unsent
  <1>11. Notified'
    <2>1. Told'
      BY <1>1, <1>3, <1>8, ToldStays, NotifiedParts DEF QInv
    <2>2. \A e \in batch : e \in Fds \X {"ended", "out"}
      BY <1>1 DEF TypeOK
    <2>3. Watched'
      BY <1>2, <1>3, <1>7, <2>2 DEF Watched, QInv, Notified
    <2>4. QED
      BY <2>1, <2>3 DEF Notified, Told, Watched
  <1>12. ASSUME NEW l \in Conns, queue'[l] # <<>>
         PROVE  Served(l)'
    <2>1. Served(l) /\ mconn # l
      BY <1>2, <1>3, <1>12, NoneIsNone DEF QInv, AllServed
    <2>2. CASE l = k
      BY <1>2, <1>4, <1>7, <2>2, NoneIsNone DEF Served
    <2>3. CASE l # k
      <3>1. skt[l] # None => skt[l] \in Fds
        BY <1>1 DEF TypeOK
      <3>2. QED
        BY <1>1, <1>2, <1>3, <1>7, <2>1, <2>3, <3>1, ServedStays
    <2>4. QED
      BY <2>2, <2>3
  <1>13. QED
    BY <1>9, <1>10, <1>11, <1>12 DEF QInv, AllServed

\* WRITE_SKT, and the manager is at it.
LEMMA WriteServed ==
  ASSUME Quiet, IInv, QInv, NEW k \in Conns, WriteSocket(k)
  PROVE  QInv'
  <1>1. TypeOK /\ ThreadsFit /\ ManagerFits
    BY DEF IInv
  <1>2. /\ mpc = "control" /\ list # <<>> /\ Head(list) = <<"WRITE_SKT", k>> /\ list' = Tail(list)
        /\ mpc' = "send" /\ mconn' = k
        /\ UNCHANGED <<life, skt, state, link, queue, index, sktMap, interest, mskt, batch, pc,
                       tconn, tmsg>>
    BY DEF WriteSocket, connVars, packetVars, kernelVars, epollVars, threadVars
  <1>3. mconn = None /\ mskt = None /\ ManagerFrames
    BY <1>1, <1>2 DEF ManagerFits, ManagerFrames
  <1>4. \A l \in Conns : Mapped(l) => Mapped(l)'
    BY <1>2 DEF Mapped
  <1>5. Mapped(k)
    <2>1. 1 \in DOMAIN list /\ list[1] = <<"WRITE_SKT", k>>
      BY <1>1, <1>2, Shifted DEF TypeOK
    <2>2. QED
      BY <2>1 DEF QInv, Notified
  <1>6. Managed'
    BY <1>2, <1>3, <1>4, ManagedStays DEF QInv
  <1>7. Unsent'
    BY <1>2 DEF QInv, Unsent
  <1>8. Notified'
    <2>1. Told'
      BY <1>1, <1>3, <1>4, ToldStays, NotifiedParts DEF QInv
    <2>2. Watched'
      BY <1>2, <1>3, <1>5 DEF Watched, QInv, Notified, Mapped
    <2>3. QED
      BY <2>1, <2>2 DEF Notified, Told, Watched
  <1>9. ASSUME NEW l \in Conns, queue'[l] # <<>>
        PROVE  Served(l)'
    <2>1. Served(l) /\ mconn # l
      BY <1>2, <1>3, <1>9, NoneIsNone DEF QInv, AllServed
    <2>2. CASE l = k
      BY <1>2, <2>2 DEF Served
    <2>3. CASE l # k
      BY <1>1, <1>2, <1>3, <2>1, <2>3, ServedStays
    <2>4. QED
      BY <2>2, <2>3
  <1>10. QED
    BY <1>6, <1>7, <1>8, <1>9 DEF QInv, AllServed

\* An event of the batch is of a socket in the map, and no failure.
LEMMA EventServed ==
  ASSUME Quiet, IInv, QInv, NEW f \in Fds, NEW e \in {"ended", "out"}, HandleEvent(f, e)
  PROVE  QInv'
  <1>1. TypeOK /\ ThreadsFit /\ ManagerFits /\ MapIsSound /\ UnaddedFit
    BY DEF IInv
  <1> DEFINE k == sktMap[f]
  <1>2. /\ mpc = "batch" /\ <<f, e>> \in batch /\ batch' = batch \ {<<f, e>>}
        /\ UNCHANGED <<life, skt, link, queue, index, list, pc, tconn, tmsg>>
    BY DEF HandleEvent, packetVars, msgVars, kernelVars, threadVars
  <1>3. e = "out" /\ "out" \in interest[f]
    BY <1>2 DEF QInv, Notified
  <1>4. k \in Conns /\ k # None /\ skt[k] = f /\ link[f] # "down"
    BY <1>1, <1>3 DEF MapIsSound, TypeOK, QInv, Managed
  <1>5. /\ state' = [state EXCEPT ![k] = IF @ = "connecting" THEN "connected" ELSE @]
        /\ mpc' = "send" /\ mconn' = k /\ mskt' = f /\ UNCHANGED <<sktMap, interest>>
    BY <1>3, <1>4 DEF HandleEvent, epollVars
  <1>6. mconn = None /\ mskt = None /\ ManagerFrames
    BY <1>1, <1>2 DEF ManagerFits, ManagerFrames
  <1>7. Mapped(k) /\ \A l \in Conns : Mapped(l) => Mapped(l)'
    BY <1>5 DEF Mapped
  <1>8. ~Unadded(k) /\ \A l \in Conns : Unadded(l) => state'[l] = state[l]
    <2>1. ~Unadded(k)
      BY <1>1, <1>4 DEF UnaddedFit
    <2>2. \A l \in Conns : l # k => state'[l] = state[l]
      BY <1>1, <1>5 DEF TypeOK
    <2>3. QED
      BY <2>1, <2>2
  <1>9. Managed'
    BY <1>2, <1>5, <1>6, <1>7, <1>8, ManagedStays DEF QInv
  <1>10. Unsent'
    BY <1>2 DEF QInv, Unsent
  <1>11. Notified'
    <2>1. Told'
      BY <1>1, <1>6, <1>7, ToldStays, NotifiedParts DEF QInv
    <2>2. \E g \in Fds : sktMap[g] = k
      BY <1>7 DEF Mapped
    <2>3. Watched'
      BY <1>2, <1>3, <1>5, <2>2 DEF Watched, QInv, Notified, Mapped
    <2>4. QED
      BY <2>1, <2>3 DEF Notified, Told, Watched
  <1>12. ASSUME NEW l \in Conns, queue'[l] # <<>>
         PROVE  Served(l)'
    <2>1. Served(l) /\ mconn # l
      BY <1>2, <1>6, <1>12, NoneIsNone DEF QInv, AllServed
    <2>2. CASE l = k
      BY <1>5, <2>2 DEF Served
    <2>3. CASE l # k
      BY <1>1, <1>2, <1>5, <1>6, <1>8, <2>1, <2>3, ServedStays
    <2>4. QED
      BY <2>2, <2>3
  <1>13. QED
    BY <1>9, <1>10, <1>11, <1>12 DEF QInv, AllServed

\* The connection the manager sends on has a socket, which is the one of the event if
\* it deals with one.
LEMMA Sender ==
  ASSUME IInv, QInv, mpc \in {"send", "sending"}
  PROVE  /\ mconn \in Conns /\ mconn # None /\ skt[mconn] \in Fds
         /\ sktMap[skt[mconn]] = mconn /\ interest[skt[mconn]] # {}
         /\ mskt # None => mskt = skt[mconn]
         /\ \A k \in Conns : k # mconn => skt[k] # skt[mconn]
  <1>1. TypeOK /\ ManagerFits /\ MapIsSound /\ SocketsFit
    BY DEF IInv
  <1>2. mconn \in Conns /\ mconn # None
    BY <1>1, NoneIsNone DEF ManagerFits
  <1>3. PICK f \in Fds : sktMap[f] = mconn
    BY <1>2 DEF QInv, Notified, Mapped
  <1>4. skt[mconn] = f /\ interest[f] # {}
    BY <1>1, <1>2, <1>3 DEF MapIsSound
  <1>5. mskt # None => mskt = f
    <2>1. mskt # None => mskt \in Fds /\ sktMap[mskt] = mconn
      BY <1>1 DEF ManagerFits, TypeOK
    <2>2. QED
      BY <1>1, <1>2, <1>4, <2>1 DEF MapIsSound
  <1>6. f # None
    BY NoneIsNone
  <1>7. QED
    BY <1>1, <1>2, <1>3, <1>4, <1>5, <1>6 DEF SocketsFit

\* The manager goes back to its batch or its list: the connection it leaves has nothing
\* to send or is watched.
LEMMA ResumeServed ==
  ASSUME IInv, QInv, mpc \in {"send", "sending"}, Resume, ManagerFrames,
         UNCHANGED <<state, queue, index, sktMap, list, batch>>,
         \A f \in Fds : f # skt[mconn] => interest'[f] = interest[f],
         \/ "out" \in interest'[skt[mconn]]
         \/ queue[mconn] = <<>> /\ mskt # None
         \/ queue[mconn] = <<>> /\ interest' = interest
  PROVE  QInv'
  <1>1. TypeOK /\ ThreadsFit
    BY DEF IInv
  <1>2. /\ mconn \in Conns /\ mconn # None /\ skt[mconn] \in Fds
        /\ mskt # None => mskt = skt[mconn]
        /\ \A k \in Conns : k # mconn => skt[k] # skt[mconn]
    BY Sender
  <1>3. mpc' \in {"batch", "control"} /\ mconn' = None /\ mskt' = None
    BY DEF Resume
  <1>4. \A k \in Conns : Mapped(k) => Mapped(k)'
    BY DEF Mapped
  <1>5. Managed'
    BY <1>3, <1>4, ManagedStays DEF QInv
  <1>6. Unsent'
    BY DEF QInv, Unsent
  <1>7. Notified'
    <2>1. Told'
      BY <1>1, <1>4, ToldStays, NotifiedParts DEF QInv
    <2>2. \A e \in batch : e \in Fds \X {"ended", "out"}
      BY <1>1 DEF TypeOK
    <2>3. ASSUME NEW e \in batch
          PROVE  e[2] = "out" /\ "out" \in interest'[e[1]]
      <3>1. e[2] = "out" /\ "out" \in interest[e[1]] /\ e[1] \in Fds /\ e = <<e[1], e[2]>>
        BY <2>2 DEF QInv, Notified
      <3>2. CASE e[1] # skt[mconn]
        BY <3>1, <3>2
      <3>3. CASE e[1] = skt[mconn] /\ mskt = None
        BY <3>1, <3>3
      <3>4. CASE e[1] = skt[mconn] /\ mskt # None
        <4>1. e = <<mskt, "out">>
          BY <1>2, <3>1, <3>4
        <4>2. QED
          BY <3>4, <4>1 DEF QInv, Notified
      <3>5. QED
        BY <3>2, <3>3, <3>4
    <2>4. Watched'
      BY <1>3, <2>3 DEF Watched
    <2>5. QED
      BY <2>1, <2>4 DEF Notified, Told, Watched
  <1>8. ASSUME NEW k \in Conns, queue'[k] # <<>>
        PROVE  Served(k)'
    <2>1. Served(k)
      BY <1>8 DEF QInv, AllServed
    <2>2. CASE k # mconn
      <3>1. skt[k] # None => skt[k] \in Fds
        BY <1>1 DEF TypeOK
      <3>2. QED
        BY <1>1, <1>2, <2>1, <2>2, <3>1, ServedStays
    <2>3. CASE k = mconn
      <3>1. "out" \in interest'[skt[k]] /\ skt[k] # None
        BY <1>2, <1>8, <2>3, NoneIsNone
      <3>2. QED
        BY <3>1 DEF Served, ManagerFrames
    <2>4. QED
      BY <2>2, <2>3
  <1>9. QED
    BY <1>5, <1>6, <1>7, <1>8 DEF QInv, AllServed

\* The socket is busy: epoll tells when it no longer is, whoever asked for the write.
LEMMA BusyServed ==
  ASSUME IInv, QInv, mpc \in {"send", "sending"}, Busy, ManagerFrames,
         UNCHANGED <<state, queue, index, list, batch>>
  PROVE  QInv'
  <1>1. Resume /\ sktMap' = sktMap
    BY DEF Busy
  <1>2. /\ skt[mconn] \in Fds /\ skt[mconn] # None /\ interest[skt[mconn]] # {}
        /\ mskt # None => mskt = skt[mconn]
    BY Sender, NoneIsNone
  <1>3. CASE FromEvent
    <2>1. interest' = interest /\ "out" \in interest[skt[mconn]]
      BY <1>2, <1>3 DEF Busy, FromEvent, QInv, Notified
    <2>2. QED
      BY <1>1, <2>1, ResumeServed
  <1>4. CASE ~FromEvent
    <2>1. interest' = [interest EXCEPT ![skt[mconn]] = {"in", "out"}]
      BY <1>2, <1>4 DEF Busy, EpollMod
    <2>2. /\ "out" \in interest'[skt[mconn]]
          /\ \A f \in Fds : f # skt[mconn] => interest'[f] = interest[f]
      BY <1>2, <2>1 DEF IInv, TypeOK
    <2>3. QED
      BY <1>1, <2>2, ResumeServed
  <1>5. QED
    BY <1>3, <1>4

\* The manager goes on sending.
LEMMA GoOnServed ==
  ASSUME IInv, QInv, mpc \in {"send", "sending"}, mpc' = "sending", ManagerFrames, Unsent',
         UNCHANGED <<state, sktMap, interest, list, batch, mconn, mskt>>,
         \A k \in Conns : k # mconn => queue'[k] = queue[k]
  PROVE  QInv'
  <1>1. TypeOK /\ ThreadsFit
    BY DEF IInv
  <1>2. \A k \in Conns : Mapped(k) => Mapped(k)'
    BY DEF Mapped
  <1>3. Managed'
    BY <1>2, ManagedStays DEF QInv
  <1>4. Notified'
    <2>1. Told'
      BY <1>1, <1>2, ToldStays, NotifiedParts DEF QInv
    <2>2. Watched'
      BY DEF Watched, QInv, Notified, Mapped
    <2>3. QED
      BY <2>1, <2>2 DEF Notified, Told, Watched
  <1>5. ASSUME NEW k \in Conns, queue'[k] # <<>>
        PROVE  Served(k)'
    <2>1. CASE k = mconn
      BY <2>1 DEF Served
    <2>2. CASE k # mconn
      <3>1. Served(k)
        BY <1>5, <2>2 DEF QInv, AllServed
      <3>2. QED
        BY <1>1, <2>2, <3>1, ServedStays
    <2>3. QED
      BY <2>1, <2>2
  <1>6. QED
    BY <1>3, <1>4, <1>5 DEF QInv, AllServed

\* A packet leaves the queue when it is sent, and only then.
LEMMA SendSomeUnsent ==
  ASSUME Quiet, IInv, QInv, SendSome
  PROVE  Unsent' /\ \A k \in Conns : k # mconn => queue'[k] = queue[k]
  <1> DEFINE p == queue[mconn][1]
  <1>1. TypeOK /\ ManagerFits /\ OnceFit
    BY DEF IInv, CutsFit, Quiet
  <1>2. /\ mconn \in Conns /\ p \in Packets /\ 1 \in DOMAIN queue[mconn]
        /\ \A q \in Packets : q # p => index'[q] = index[q]
        /\ \A l \in Conns : l # mconn => queue'[l] = queue[l]
        /\ \/ queue' = queue /\ index'[p] < Size
           \/ \A i \in DOMAIN queue'[mconn] :
                i + 1 \in DOMAIN queue[mconn] /\ queue'[mconn][i] = queue[mconn][i + 1] /\ i + 1 # 1
    <2>1. /\ mconn \in Conns /\ p \in Packets /\ 1 \in DOMAIN queue[mconn]
          /\ \A q \in Packets : q # p => index'[q] = index[q]
          /\ \A l \in Conns : l # mconn => queue'[l] = queue[l]
      BY <1>1, SendSomeQueues
    <2>2. \/ queue' = queue /\ index'[p] < Size
          \/ queue' = [queue EXCEPT ![mconn] = Tail(@)]
      BY <1>1, SendSomeQueues
    <2>3. CASE queue' = [queue EXCEPT ![mconn] = Tail(@)]
      <3>1. queue'[mconn] = Tail(queue[mconn]) /\ queue[mconn] \in Seq(Packets)
        BY <1>1, <2>1, <2>3 DEF TypeOK
      <3>2. queue[mconn] # <<>>
        BY DEF SendSome
      <3>3. \A i \in DOMAIN queue'[mconn] :
              /\ i + 1 \in DOMAIN queue[mconn] /\ queue'[mconn][i] = queue[mconn][i + 1]
              /\ i \in Nat \ {0}
        BY <3>1, <3>2, Shifted
      <3>4. \A i \in Nat \ {0} : i + 1 # 1
        OBVIOUS
      <3>5. QED
        BY <2>1, <3>3, <3>4
    <2>4. QED
      BY <2>1, <2>2, <2>3
  <1>3. ASSUME NEW k \in Conns, NEW i \in DOMAIN queue[k], k # mconn \/ i # 1
        PROVE  index'[queue[k][i]] < Size
    <2>1. queue[k][i] \in Packets /\ queue[k][i] # p
      BY <1>1, <1>2, <1>3, InQueue DEF OnceFit
    <2>2. QED
      BY <1>2, <2>1 DEF QInv, Unsent
  <1>4. CASE queue' = queue /\ index'[p] < Size
    BY <1>2, <1>3, <1>4 DEF Unsent
  <1>5. CASE \A i \in DOMAIN queue'[mconn] :
               i + 1 \in DOMAIN queue[mconn] /\ queue'[mconn][i] = queue[mconn][i + 1] /\ i + 1 # 1
    <2>1. ASSUME NEW k \in Conns, NEW i \in DOMAIN queue'[k]
          PROVE  index'[queue'[k][i]] < Size
      <3>1. CASE k = mconn
        BY <1>2, <1>3, <1>5, <2>1, <3>1
      <3>2. CASE k # mconn
        BY <1>2, <1>3, <2>1, <3>2
      <3>3. QED
        BY <3>1, <3>2
    <2>2. QED
      BY <1>2, <2>1 DEF Unsent
  <1>6. QED
    BY <1>2, <1>4, <1>5

LEMMA SendServed ==
  ASSUME Quiet, IInv, QInv, SendPacket \/ SendSome \/ SendWouldBlock \/ SendError \/ SendDone
  PROVE  QInv'
  <1>1. TypeOK /\ ManagerFits
    BY DEF IInv
  <1>2. mpc \in {"send", "sending"} /\ ManagerFrames /\ UNCHANGED <<state, list, batch>>
    BY DEF SendPacket, SendSome, SendWouldBlock, SendError, SendDone, ManagerFrames, connVars,
           packetVars, kernelVars, epollVars, msgVars, threadVars, mgrVars
  <1>3. /\ mconn \in Conns /\ skt[mconn] \in Fds /\ skt[mconn] # None
        /\ interest[skt[mconn]] # {} /\ (mskt # None => mskt = skt[mconn])
    BY <1>2, Sender, NoneIsNone
  <1>4. CASE SendPacket
    <2>1. UNCHANGED <<queue, index>> \/ SendFails
      BY <1>4 DEF SendPacket
    <2>2. index' = index /\ queue' = queue
      BY <1>3, <1>4 DEF SendPacket
    <2>3. CASE Busy
      BY <1>2, <2>2, <2>3, BusyServed
    <2>4. CASE mpc' = "sending" /\ UNCHANGED <<queue, epollVars, mconn, mskt>>
      <3>1. Unsent' /\ UNCHANGED <<sktMap, interest>>
        BY <2>2, <2>4 DEF QInv, Unsent, epollVars
      <3>2. QED
        BY <1>2, <2>2, <2>4, <3>1, GoOnServed
    <2>5. QED
      BY <1>3, <1>4, <2>3, <2>4 DEF SendPacket
  <1>5. CASE SendSome
    <2>1. mpc' = "sending" /\ UNCHANGED <<sktMap, interest, mconn, mskt>>
      BY <1>5 DEF SendSome, epollVars, mgrVars
    <2>2. QED
      BY <1>2, <1>5, <2>1, SendSomeUnsent, GoOnServed
  <1>6. CASE SendWouldBlock
    BY <1>2, <1>6, BusyServed DEF SendWouldBlock, packetVars
  <1>7. CASE SendError
    <2>1. queue[mconn] # <<>> /\ (link[skt[mconn]] = "down" \/ index[Head(queue[mconn])] = Size)
      BY <1>7 DEF SendError
    <2>2. Head(queue[mconn]) = queue[mconn][1] /\ 1 \in DOMAIN queue[mconn]
      BY <1>1, <1>3, <2>1, InQueue, Shifted
    <2>3. index[queue[mconn][1]] < Size /\ queue[mconn][1] \in Packets
      BY <1>1, <1>3, <2>2, InQueue DEF QInv, Unsent
    <2>4. index[queue[mconn][1]] # Size
      BY <1>1, <2>3, Sizes
    <2>5. QED
      BY <1>3, <2>1, <2>2, <2>4 DEF QInv, Managed
  <1>8. CASE SendDone
    <2>1. queue[mconn] = <<>> /\ Resume /\ UNCHANGED <<queue, index, sktMap>>
      BY <1>8 DEF SendDone, packetVars
    <2>2. CASE FromEvent
      <3>1. mskt # None /\ mskt = skt[mconn] /\ interest' = [interest EXCEPT ![mskt] = {"in"}]
        BY <1>3, <1>8, <2>2 DEF SendDone, FromEvent, EpollMod
      <3>2. \A f \in Fds : f # skt[mconn] => interest'[f] = interest[f]
        BY <1>1, <3>1 DEF TypeOK
      <3>3. QED
        BY <1>2, <2>1, <3>1, <3>2, ResumeServed
    <2>3. CASE ~FromEvent
      <3>1. interest' = interest
        BY <1>8, <2>3 DEF SendDone
      <3>2. QED
        BY <1>2, <2>1, <3>1, ResumeServed
    <2>4. QED
      BY <2>2, <2>3
  <1>9. QED
    BY <1>4, <1>5, <1>6, <1>7, <1>8

LEMMA ManagerServed ==
  ASSUME Quiet, IInv, QInv, Manager
  PROVE  QInv'
  <1>1. ~CloseConnection
    BY DEF CloseConnection, QInv, Managed
  <1>2. \A k \in Conns : ~DelSocket(k)
    <2>1. ASSUME NEW k \in Conns, DelSocket(k)
          PROVE  FALSE
      <3>1. list # <<>> /\ Head(list) = <<"DEL_SKT", k>> /\ list \in Seq(Messages)
        BY <2>1 DEF DelSocket, IInv, TypeOK
      <3>2. 1 \in DOMAIN list /\ list[1] = <<"DEL_SKT", k>>
        BY <3>1, Shifted
      <3>3. QED
        BY <3>2 DEF QInv, Managed
    <2>2. QED
      BY <2>1
  <1>3. QED
    BY <1>1, <1>2, WaitServed, AddServed, WriteServed, EventServed, SendServed DEF Manager

LEMMA KernelServed ==
  ASSUME Quiet, IInv, QInv, NEW f \in Fds, Establish(f) \/ PeerEnds(f) \/ Drain(f)
  PROVE  QInv'
  <1>1. ~PeerEnds(f)
    BY DEF PeerEnds, Quiet
  <1>2. /\ UNCHANGED <<life, skt, state, queue, index, sktMap, interest, list, pc, tconn, tmsg,
                       mpc, mconn, mskt, batch>>
        /\ \A g \in Fds : link'[g] \in {link[g], "up"}
    BY <1>1 DEF Establish, Drain, connVars, packetVars, epollVars, msgVars, threadVars, mgrVars,
                IInv, TypeOK
  <1>3. Managed' /\ Unsent'
    BY <1>2 DEF QInv, Managed, Unsent, Mapped, Unadded, Posting
  <1>4. Notified' /\ AllServed'
    BY <1>2 DEF QInv, Notified, AllServed, Served, Notifies, Mapped
  <1>5. QED
    BY <1>3, <1>4 DEF QInv

-----------------------------------------------------------------------------
LEMMA InitServed == Init => QInv
  <1> SUFFICES ASSUME Init
               PROVE  QInv
    OBVIOUS
  <1>1. list = <<>> /\ DOMAIN list = {}
    BY DEF Init
  <1>2. \A k \in Conns : queue[k] = <<>>
    BY DEF Init
  <1>3. \A k \in Conns : DOMAIN queue[k] = {}
    <2>1. DOMAIN <<>> = {}
      OBVIOUS
    <2>2. QED
      BY <1>2, <2>1
  <1>4. Managed
    BY <1>1 DEF Init, Managed, Unadded, Posting
  <1>5. Unsent /\ AllServed
    BY <1>2, <1>3 DEF Unsent, AllServed
  <1>6. Notified
    BY <1>1 DEF Init, Notified
  <1>7. QED
    BY <1>4, <1>5, <1>6 DEF QInv

LEMMA NextServed == Quiet /\ IInv /\ QInv /\ [Next]_vars => QInv'
  <1> SUFFICES ASSUME Quiet, IInv, QInv, [Next]_vars
               PROVE  QInv'
    OBVIOUS
  <1>1. CASE Next
    BY <1>1, ThreadServed, ManagerServed, KernelServed DEF Next
  <1>2. CASE UNCHANGED vars
    <2>1. UNCHANGED <<life, skt, state, queue, index, sktMap, interest, list, pc, tconn, tmsg,
                      mpc, mconn, mskt, batch, link>>
      BY <1>2 DEF vars, connVars, packetVars, epollVars, msgVars, kernelVars, threadVars, mgrVars
    <2>2. Managed' /\ Unsent'
      BY <2>1 DEF QInv, Managed, Unsent, Mapped, Unadded, Posting
    <2>3. Notified' /\ AllServed'
      BY <2>1 DEF QInv, Notified, AllServed, Served, Notifies, Mapped
    <2>4. QED
      BY <2>2, <2>3 DEF QInv
  <1>3. QED
    BY <1>1, <1>2

\* Over TCP, as long as no connection fails, is closed or is cleared, a packet that
\* addPendingWrite puts in a queue has somebody who will have it sent: the notification
\* that is given for the first packet only is enough, whatever the interleaving with
\* the manager's sends, its waiting for a busy socket, and the ADD_SKT that is still to come.
THEOREM QueuesAreServed == Quiet => (Spec => []QueueIsServed)
  <1> SUFFICES ASSUME Quiet
               PROVE  Spec => []QueueIsServed
    OBVIOUS
  <1>1. IInv /\ QInv /\ [Next]_vars => QInv'
    BY NextServed
  <1>2. QInv => QueueIsServed
    BY ServedIsServed DEF QInv
  <1>3. QED
    BY <1>1, <1>2, InitServed, IInvAlways, PTL DEF Spec
=============================================================================
