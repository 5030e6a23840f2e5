----------------------------- MODULE RpcChannel -----------------------------
(***************************************************************************)
(* One RpcConnection: the threads that call sendAndWait on it, the table   *)
(* of pending requests, the Responder each call blocks on, and the         *)
(* connection-manager thread that delivers replies and closes the          *)
(* connection (src/src/RpcConnection.cpp, src/src/Responder.cpp).          *)
(*                                                                         *)
(* One action is one critical section of m_xidTableLock or of a            *)
(* Responder's m_condMutex, so every interleaving the locks allow is a     *)
(* behaviour.  The bytes between writePacket and recvPacket are abstracted *)
(* to two sets of xids in flight; module ConnManager has their detail.     *)
(***************************************************************************)
EXTENDS Integers, FiniteSets

CONSTANTS
  Callers,      \* threads that issue RPCs on this connection
  Addrs,        \* addresses the allocator may give to a Responder
  Null,         \* the null Responder pointer
  Udp,          \* TRUE for TRANSP_UDP, FALSE for TRANSP_TCP
  UdpRetries,   \* NFS_UDP_RETRIES
  Concurrency,  \* initial value of m_concurrency
  MaxXid,       \* bound: how many requests are created in all
  Faults        \* what the environment may do, a subset of FaultKinds

FaultKinds ==
  { "timeout",    \* a condition wait ends with no signal: timed out or spurious
    "loss",       \* a request or a reply is lost
    "duplicate",  \* a reply datagram arrives again
    "close",      \* the manager closes the connection, whatever the reason
    "connect" }   \* connecting again fails at once

ASSUME ChannelAssumption ==
  /\ Null \notin Addrs
  /\ Udp \in BOOLEAN
  /\ UdpRetries \in Nat
  /\ Concurrency \in Nat \ {0}
  /\ MaxXid \in Nat
  /\ Faults \subseteq FaultKinds

NoReply == 0            \* the empty RpcPacketPtr; an xid stands for its packet
Xids    == 1..MaxXid

\* A Responder: notified is the state of its condition variable, live whether
\* the memory at that address is allocated.
Responders == [live : BOOLEAN, done : BOOLEAN, wait : BOOLEAN,
               notified : BOOLEAN, response : Xids \cup {NoReply}]
Free == [live |-> FALSE, done |-> FALSE, wait |-> FALSE,
         notified |-> FALSE, response |-> NoReply]

Positions == {"idle", "acquire", "register", "write", "wait", "blocked", "read",
              "remove", "return"}

VARIABLES
  permits,   \* value of the semaphore m_concurrency
  issued,    \* m_nextXid, counted from its initial value
  table,     \* m_xidTable
  heap,      \* the Responders, by address
  pc, xid, resp, retries, got,  \* each caller's position and its locals
  open,      \* m_socketId # -1
  requests, replies,            \* xids on their way to and from the server
  mpc,       \* what the manager thread is doing
  mreply,    \* the reply it is handing over, NoReply when closing
  targets,   \* the <<xid, Responder>> pairs it has still to signal
  dangled    \* history: it signalled a Responder already deleted

callerVars  == <<pc, xid, resp, retries, got>>
networkVars == <<open, requests, replies>>
managerVars == <<mpc, mreply, targets, dangled>>
vars == <<permits, issued, table, heap, callerVars, networkVars, managerVars>>

TypeOK ==
  /\ permits \in Nat
  /\ issued \in 0..MaxXid
  /\ table \in [Xids -> Addrs \cup {Null}]
  /\ heap \in [Addrs -> Responders]
  /\ pc \in [Callers -> Positions]
  /\ xid \in [Callers -> Xids \cup {NoReply}]
  /\ resp \in [Callers -> Addrs \cup {Null}]
  /\ retries \in [Callers -> Int]
  /\ got \in [Callers -> Xids \cup {NoReply}]
  /\ open \in BOOLEAN
  /\ requests \in SUBSET Xids
  /\ replies \in SUBSET Xids
  /\ mpc \in {"idle", "cleanup", "signal"}
  /\ mreply \in Xids \cup {NoReply}
  /\ targets \in SUBSET (Xids \X Addrs)
  /\ dangled \in BOOLEAN

Init ==
  /\ permits = Concurrency
  /\ issued = 0
  /\ table = [x \in Xids |-> Null]
  /\ heap = [a \in Addrs |-> Free]
  /\ pc = [c \in Callers |-> "idle"]
  /\ xid = [c \in Callers |-> NoReply]
  /\ resp = [c \in Callers |-> Null]
  /\ retries = [c \in Callers |-> 0]
  /\ got = [c \in Callers |-> NoReply]
  /\ open \in {TRUE} \cup (IF "connect" \in Faults THEN {FALSE} ELSE {})
  /\ requests = {} /\ replies = {}
  /\ mpc = "idle" /\ mreply = NoReply /\ targets = {} /\ dangled = FALSE

Goto(c, to) == pc' = [pc EXCEPT ![c] = to]

-----------------------------------------------------------------------------
(* A calling thread.                                                       *)

\* RemoteCall::call creates the request, which takes the next xid.
CreateRequest(c) ==
  /\ pc[c] = "idle" /\ issued < MaxXid
  /\ Goto(c, "acquire")
  /\ issued' = issued + 1
  /\ xid' = [xid EXCEPT ![c] = issued + 1]
  /\ got' = [got EXCEPT ![c] = NoReply]
  /\ UNCHANGED <<permits, table, heap, resp, retries, networkVars, managerVars>>

\* Mutant: the permit is not taken.
Acquire_NoPermit(c) ==
  /\ pc[c] = "acquire" /\ permits > 0
  /\ Goto(c, "register")
  /\ UNCHANGED <<permits, issued, table, heap, xid, resp, retries, got,
                 networkVars, managerVars>>

\* sendAndWait takes a permit and keeps it until doSendAndWait has returned.
Acquire(c) ==
  /\ pc[c] = "acquire" /\ permits > 0
  /\ Goto(c, "register")
  /\ permits' = permits - 1
  /\ UNCHANGED <<issued, table, heap, xid, resp, retries, got,
                 networkVars, managerVars>>

\* Mutant: the constructor leaves what the memory held.
Register_Uninitialised(c) ==
  /\ pc[c] = "register" /\ table[xid[c]] = Null
  /\ Goto(c, "write")
  /\ \E a \in {b \in Addrs : ~heap[b].live} :
       /\ heap' = [heap EXCEPT ![a].live = TRUE]
       /\ resp' = [resp EXCEPT ![c] = a]
       /\ table' = [table EXCEPT ![xid[c]] = a]
  /\ retries' = [retries EXCEPT ![c] = IF Udp THEN UdpRetries ELSE 0]
  /\ UNCHANGED <<permits, issued, xid, got, networkVars, managerVars>>

\* The Responder is allocated at any address not in use and enters the table;
\* a request whose xid is pending already is refused.  The lookup and the
\* insertion are two critical sections of m_xidTableLock, one step here: only
\* this thread ever uses this xid (XidsAreUnique).
Register(c) ==
  /\ pc[c] = "register"
  /\ IF table[xid[c]] # Null
     THEN Goto(c, "return") /\ UNCHANGED <<table, heap, resp, retries>>
     ELSE /\ Goto(c, "write")
          /\ \E a \in {b \in Addrs : ~heap[b].live} :
               /\ heap' = [heap EXCEPT ![a] = [Free EXCEPT !.live = TRUE]]
               /\ resp' = [resp EXCEPT ![c] = a]
               /\ table' = [table EXCEPT ![xid[c]] = a]
          /\ retries' = [retries EXCEPT ![c] = IF Udp THEN UdpRetries ELSE 0]
  /\ UNCHANGED <<permits, issued, xid, got, networkVars, managerVars>>

\* writePacket reconnects a closed socket and queues the packet.
Write(c) ==
  /\ pc[c] = "write" /\ Goto(c, "wait")
  /\ open' = TRUE
  /\ requests' = requests \cup {xid[c]}
  /\ UNCHANGED <<permits, issued, table, heap, xid, resp, retries, got,
                 replies, managerVars>>

\* Mutant: the attempts are not counted down.
NextAttempt_Uncounted(c) == Goto(c, "write") /\ UNCHANGED retries

\* The end of the loop body, --retries > 0, when the attempt got no reply.
NextAttempt(c) ==
  /\ retries' = [retries EXCEPT ![c] = @ - 1]
  /\ Goto(c, IF retries[c] - 1 > 0 THEN "write" ELSE "remove")

\* The reconnect fails: the failure is logged and the attempt is over.
WriteFails(c) ==
  /\ pc[c] = "write" /\ ~open /\ "connect" \in Faults
  /\ NextAttempt(c)
  /\ UNCHANGED <<permits, issued, table, heap, xid, resp, got,
                 networkVars, managerVars>>

\* Mutant: waits without looking at m_done.
BeginWait_IgnoresDone(c) ==
  /\ pc[c] = "wait"
  /\ Goto(c, "blocked")
  /\ heap' = [heap EXCEPT ![resp[c]].wait = TRUE, ![resp[c]].response = NoReply]
  /\ UNCHANGED <<permits, issued, table, xid, resp, retries, got,
                 networkVars, managerVars>>

\* Mutant: the last attempt's response is cleared before m_done is tested.
BeginWait_ClearsFirst(c) ==
  /\ pc[c] = "wait"
  /\ Goto(c, IF heap[resp[c]].done THEN "read" ELSE "blocked")
  /\ heap' = [heap EXCEPT ![resp[c]].wait = ~heap[resp[c]].done,
                          ![resp[c]].response = NoReply]
  /\ UNCHANGED <<permits, issued, table, xid, resp, retries, got,
                 networkVars, managerVars>>

\* Responder::waitForResponse up to the condition wait, which m_done skips.
BeginWait(c) ==
  /\ pc[c] = "wait"
  /\ IF heap[resp[c]].done
     THEN Goto(c, "read") /\ UNCHANGED heap
     ELSE /\ Goto(c, "blocked")
          /\ heap' = [heap EXCEPT ![resp[c]].wait = TRUE,
                                  ![resp[c]].response = NoReply]
  /\ UNCHANGED <<permits, issued, table, xid, resp, retries, got,
                 networkVars, managerVars>>

\* waitAbs returns: signalled, timed out or spuriously; the rest is one if,
\* not a loop, so the three look the same.
Wake(c) ==
  /\ pc[c] = "blocked"
  /\ heap[resp[c]].notified \/ "timeout" \in Faults
  /\ Goto(c, "read")
  /\ heap' = [heap EXCEPT ![resp[c]].wait = FALSE, ![resp[c]].notified = FALSE]
  /\ UNCHANGED <<permits, issued, table, xid, resp, retries, got,
                 networkVars, managerVars>>

\* Responder::getReply, under a lock of its own; no reply means another try.
ReadReply(c) ==
  /\ pc[c] = "read"
  /\ got' = [got EXCEPT ![c] = heap[resp[c]].response]
  /\ IF heap[resp[c]].response = NoReply
     THEN NextAttempt(c)
     ELSE Goto(c, "remove") /\ UNCHANGED retries
  /\ UNCHANGED <<permits, issued, table, heap, xid, resp,
                 networkVars, managerVars>>

\* Mutant: the entry stays in the table when its Responder is deleted.
RemovePending_Forgotten(c) ==
  /\ pc[c] = "remove" /\ Goto(c, "return")
  /\ UNCHANGED <<permits, issued, table, heap, xid, resp, retries, got,
                 networkVars, managerVars>>

\* removePendingRequest erases the entry, which cleanup may have done before.
RemovePending(c) ==
  /\ pc[c] = "remove" /\ Goto(c, "return")
  /\ table' = [table EXCEPT ![xid[c]] = Null]
  /\ UNCHANGED <<permits, issued, heap, xid, resp, retries, got,
                 networkVars, managerVars>>

\* Mutant: the permit is not given back.
Return_KeepsPermit(c) ==
  /\ pc[c] = "return" /\ Goto(c, "idle")
  /\ heap' = [a \in Addrs |-> IF a = resp[c] THEN [heap[a] EXCEPT !.live = FALSE]
                                             ELSE heap[a]]
  /\ resp' = [resp EXCEPT ![c] = Null]
  /\ UNCHANGED <<permits, issued, table, xid, retries, got,
                 networkVars, managerVars>>

\* delete responder, and the SemaphoreGuard gives the permit back.
Return(c) ==
  /\ pc[c] = "return" /\ Goto(c, "idle")
  /\ heap' = [a \in Addrs |-> IF a = resp[c] THEN [heap[a] EXCEPT !.live = FALSE]
                                             ELSE heap[a]]
  /\ resp' = [resp EXCEPT ![c] = Null]
  /\ permits' = permits + 1
  /\ UNCHANGED <<issued, table, xid, retries, got, networkVars, managerVars>>

-----------------------------------------------------------------------------
(* The connection-manager thread.                                          *)

\* Mutant: the reply goes to whichever request is pending.
Receive_AnyPending(x) ==
  /\ mpc = "idle" /\ x \in replies
  /\ replies' = replies \ {x}
  /\ \E y \in Xids : table[y] # Null /\ targets' = {<<y, table[y]>>}
  /\ mpc' = "signal" /\ mreply' = x
  /\ UNCHANGED <<permits, issued, table, heap, callerVars, open, requests, dangled>>

\* recvPacket decodes the reply x; matchPendingRequest looks it up, keeps the
\* raw pointer and drops the table lock.  A reply nobody waits for is dropped.
Receive(x) ==
  /\ mpc = "idle" /\ x \in replies
  /\ \/ replies' = replies \ {x}
     \/ "duplicate" \in Faults /\ UNCHANGED replies
  /\ IF table[x] = Null
     THEN UNCHANGED <<mpc, mreply, targets>>
     ELSE mpc' = "signal" /\ mreply' = x /\ targets' = {<<x, table[x]>>}
  /\ UNCHANGED <<permits, issued, table, heap, callerVars, open, requests, dangled>>

\* disconnect: the socket goes, and everything in flight on it.
Close ==
  /\ "close" \in Faults /\ mpc = "idle"
  /\ mpc' = "cleanup"
  /\ open' = FALSE /\ requests' = {} /\ replies' = {}
  /\ UNCHANGED <<permits, issued, table, heap, callerVars, mreply, targets, dangled>>

\* Mutant: empty entries are copied too, their pointers unchecked.
Cleanup_TakesNull ==
  /\ mpc = "cleanup"
  /\ targets' = {<<x, table[x]>> : x \in Xids}
  /\ table' = [x \in Xids |-> Null]
  /\ mreply' = NoReply
  /\ mpc' = IF targets' = {} THEN "idle" ELSE "signal"
  /\ UNCHANGED <<permits, issued, heap, callerVars, networkVars, dangled>>

\* cleanup copies the Responders out of the table, empties it, drops the lock.
Cleanup ==
  /\ mpc = "cleanup"
  /\ targets' = {<<x, table[x]>> : x \in {y \in Xids : table[y] # Null}}
  /\ table' = [x \in Xids |-> Null]
  /\ mreply' = NoReply
  /\ mpc' = IF targets' = {} THEN "idle" ELSE "signal"
  /\ UNCHANGED <<permits, issued, heap, callerVars, networkVars, dangled>>

\* Mutant: m_wait is not looked at, and nobody is notified.
SignalReady_NoNotify(x, a) ==
  /\ mpc = "signal" /\ <<x, a>> \in targets
  /\ heap' = [heap EXCEPT ![a].done = TRUE, ![a].response = mreply]
  /\ targets' = targets \ {<<x, a>>}
  /\ mpc' = IF targets' = {} THEN "idle" ELSE "signal"
  /\ dangled' = (dangled \/ ~ \E c \in Callers : xid[c] = x /\ resp[c] = a)
  /\ UNCHANGED <<permits, issued, table, callerVars, networkVars, mreply>>

\* Responder::signalReady through a pointer read under a lock since dropped.
\* On a deleted Responder it writes to freed memory: harmless here unless the
\* allocator has handed the address to a newer call's Responder.
SignalReady(x, a) ==
  /\ mpc = "signal" /\ <<x, a>> \in targets
  /\ heap' = [heap EXCEPT ![a].done = TRUE, ![a].response = mreply,
                          ![a].notified = @ \/ heap[a].wait]
  /\ targets' = targets \ {<<x, a>>}
  /\ mpc' = IF targets' = {} THEN "idle" ELSE "signal"
  /\ dangled' = (dangled \/ ~ \E c \in Callers : xid[c] = x /\ resp[c] = a)
  /\ UNCHANGED <<permits, issued, table, callerVars, networkVars, mreply>>

-----------------------------------------------------------------------------
(* The server and the network.                                             *)

Answer(x) ==
  /\ x \in requests
  /\ requests' = requests \ {x} /\ replies' = replies \cup {x}
  /\ UNCHANGED <<permits, issued, table, heap, callerVars, open, managerVars>>

Lose(x) ==
  /\ "loss" \in Faults
  /\ \/ x \in requests /\ requests' = requests \ {x} /\ UNCHANGED replies
     \/ x \in replies /\ replies' = replies \ {x} /\ UNCHANGED requests
  /\ UNCHANGED <<permits, issued, table, heap, callerVars, open, managerVars>>

-----------------------------------------------------------------------------
InCall(c) ==
  \/ Acquire(c) \/ Register(c) \/ Write(c) \/ WriteFails(c) \/ BeginWait(c)
  \/ Wake(c) \/ ReadReply(c) \/ RemovePending(c) \/ Return(c)

Manager ==
  \/ \E x \in Xids : Receive(x)
  \/ Cleanup
  \/ \E x \in Xids, a \in Addrs : SignalReady(x, a)

Next ==
  \/ \E c \in Callers : CreateRequest(c) \/ InCall(c)
  \/ Manager
  \/ Close
  \/ \E x \in Xids : Answer(x) \/ Lose(x)

Spec == Init /\ [][Next]_vars

\* A thread inside a call keeps running, a timed wait ends, the manager thread
\* serves its events and the server answers.  New calls, closes and losses are
\* never forced.
Fairness ==
  /\ \A c \in Callers : WF_vars(InCall(c))
  /\ WF_vars(Manager)
  /\ \A x \in Xids : WF_vars(Answer(x))

FairSpec == Spec /\ Fairness

-----------------------------------------------------------------------------
\* The xid of a reply that is being signalled or is held by a Responder, the
\* positions where a call owns a Responder, and those where it holds a permit.
Registered(c) == pc[c] \in {"write", "wait", "blocked", "read", "remove"}
Inside(c)     == Registered(c) \/ pc[c] \in {"register", "return"}

\* Every pointer in m_xidTable leads to the live Responder of the one call
\* whose xid is its key, so a lookup under the lock never yields a dangling
\* pointer (removePendingRequest comes before delete, RpcConnection.cpp:439).
TableIsSound ==
  \A x \in Xids : table[x] # Null =>
    /\ heap[table[x]].live
    /\ \E c \in Callers : Registered(c) /\ xid[c] = x /\ resp[c] = table[x]

\* A caller blocked on its Responder can still be reached: it is in the table,
\* where a reply or a close finds it, or it has been notified, or the manager
\* is about to notify it (the handshake m_done / m_wait of Responder.cpp).
NoStrandedCaller ==
  \A c \in Callers : pc[c] = "blocked" =>
    \/ table[xid[c]] = resp[c]
    \/ heap[resp[c]].notified
    \/ <<xid[c], resp[c]>> \in targets

\* A call is given the reply to another request only after the manager has
\* signalled a Responder through a dangling pointer: no other step mixes
\* calls up, whatever is lost, late, repeated or closed.
MixupOnlyByDangling ==
  dangled \/ \A c \in Callers : got[c] \in {NoReply, xid[c]}

\* Every permit of m_concurrency is in the semaphore or with a call under way: a call
\* that ends by a reply, a time-out, a write that failed, a close or a refusal has
\* given its own back, and none is given back twice (RpcConnection.cpp:359).
PermitHolders == {c \in Callers : Inside(c)}
PermitsAreKept == permits + Cardinality(PermitHolders) = Concurrency

\* m_concurrency bounds the requests pending at a time (RpcConnection.h:111).
PendingIsBounded ==
  Cardinality({x \in Xids : table[x] # Null}) <= Concurrency

\* matchPendingRequest matches a reply with its pending request
\* (RpcConnection.h:67): what a call is given answers that call.
ReplyIsForRequest == \A c \in Callers : got[c] \in {NoReply, xid[c]}

\* A call's reply, handed to its Responder, stays there until the call has read it,
\* whatever times out and is tried again in between.  Only two signals take it out:
\* that of a close, which has no reply, and one meant for another call's Responder.
DeliveredReplyIsKept ==
  [][\A c \in Callers :
       /\ pc[c] \in {"write", "wait", "blocked", "read"}
       /\ heap[resp[c]].done /\ heap[resp[c]].response = xid[c]
       /\ heap'[resp[c]].response # xid[c]
       => \E x \in Xids : /\ <<x, resp[c]>> \in targets \ targets'
                          /\ mreply = NoReply \/ x # xid[c]]_vars

\* The calls on this connection, seen from outside.
Service == INSTANCE RpcService WITH
  busy   <- [c \in Callers |-> pc[c] # "idle"],
  call   <- xid,
  answer <- [c \in Callers |-> IF pc[c] = "idle" THEN got[c] ELSE 0]

\* Where nothing dangles (no timeout, duplicate or close) sendAndWait keeps
\* its promise: every call ends with its own reply or none.
ServiceSpec == Service!Spec

\* Every call returns: its waits are timed and its retries are counted.
EveryCallReturns == \A c \in Callers : pc[c] = "acquire" ~> pc[c] = "idle"

\* Over a transport that loses nothing every call returns with its own reply,
\* without the help of a timer.
EveryCallIsAnswered ==
  \A c \in Callers : pc[c] = "acquire" ~> (pc[c] = "idle" /\ got[c] = xid[c])

-----------------------------------------------------------------------------
(* The parts of the inductive invariant behind the theorems.               *)

\* Every call has an xid of its own, and the xid of the last call is kept.
XidsAreUnique ==
  /\ \A c \in Callers : /\ xid[c] <= issued
                        /\ pc[c] # "idle" => xid[c] # NoReply
  /\ \A c, d \in Callers : c # d /\ xid[c] = xid[d] => xid[c] = NoReply

\* A call owns one live Responder from Register to Return, and no other does.
RespondersAreOwned ==
  /\ \A c \in Callers :
       /\ pc[c] \in {"idle", "acquire", "register"} => resp[c] = Null
       /\ Registered(c) => resp[c] # Null
       /\ resp[c] # Null => heap[resp[c]].live
  /\ \A c, d \in Callers : c # d /\ resp[c] = resp[d] => resp[c] = Null

\* The handshake: a call that can still block is in the table, or its
\* Responder is done, or the manager has yet to signal it; a Responder done
\* while its call is blocked has notified it.
Handshake ==
  /\ mpc # "signal" => targets = {}
  /\ \A c \in Callers :
       /\ pc[c] \in {"write", "wait", "blocked", "read"} =>
            \/ table[xid[c]] = resp[c]
            \/ heap[resp[c]].done
            \/ <<xid[c], resp[c]>> \in targets
       /\ pc[c] = "blocked" => heap[resp[c]].wait
       /\ pc[c] = "blocked" /\ heap[resp[c]].done => heap[resp[c]].notified

\* Before any dangling signal a Responder holds its own call's reply or none.
OwnReplies ==
  /\ \A t \in targets : mreply \in {NoReply, t[1]}
  /\ dangled \/ \A c \in Callers :
       /\ got[c] \in {NoReply, xid[c]}
       /\ resp[c] # Null => heap[resp[c]].response \in {NoReply, xid[c]}

IndInv ==
  TypeOK /\ XidsAreUnique /\ RespondersAreOwned /\ TableIsSound /\ Handshake
         /\ OwnReplies

=============================================================================
