-------------------------- MODULE RpcChannel_proofs --------------------------
(***************************************************************************)
(* Theorems about RpcChannel, for every set of callers and addresses, any  *)
(* number of retries, permits and requests, and every set of faults: its   *)
(* inductive invariant and what follows from it; that the permits bound    *)
(* the requests pending at a time; and that over a transport on which      *)
(* nothing can dangle RpcChannel implements RpcService.                    *)
(***************************************************************************)
EXTENDS RpcChannel, FiniteSetTheorems, TLAPS

USE ChannelAssumption DEF ChannelAssumption

\* What the code writes into a Responder leaves it a Responder.
LEMMA ResponderUpdates ==
  ASSUME NEW r \in Responders, NEW b \in BOOLEAN, NEW p \in Xids \cup {NoReply}
  PROVE  /\ Free \in Responders
         /\ [Free EXCEPT !.live = TRUE] \in Responders
         /\ [r EXCEPT !.live = FALSE] \in Responders
         /\ [r EXCEPT !.wait = TRUE, !.response = NoReply] \in Responders
         /\ [r EXCEPT !.wait = FALSE, !.notified = FALSE] \in Responders
         /\ [r EXCEPT !.done = TRUE, !.response = p, !.notified = b] \in Responders
         /\ (r.notified \/ r.wait) \in BOOLEAN
         /\ r.response \in Xids \cup {NoReply}
  BY DEF Responders, Free

\* In the initial state nothing is pending and nobody is in a call.
LEMMA InitIndInv == Init => IndInv
  <1> SUFFICES ASSUME Init PROVE IndInv
    OBVIOUS
  <1>1. heap \in [Addrs -> Responders]
    BY ResponderUpdates DEF Init, Responders, Free
  <1>2. TypeOK
    <2>1. issued \in 0..MaxXid /\ permits \in Nat
      BY DEF Init
    <2>2. pc \in [Callers -> Positions]
      BY DEF Init, Positions
    <2>3. open \in BOOLEAN
      BY DEF Init
    <2>4. /\ requests \in SUBSET Xids /\ replies \in SUBSET Xids
          /\ targets \in SUBSET (Xids \X Addrs) /\ dangled \in BOOLEAN
          /\ mpc \in {"idle", "cleanup", "signal"}
      BY DEF Init
    <2>5. QED
      BY <1>1, <2>1, <2>2, <2>3, <2>4 DEF Init, TypeOK
  <1>3. XidsAreUnique /\ RespondersAreOwned
    BY DEF Init, XidsAreUnique, RespondersAreOwned, NoReply, Registered
  <1>4. TableIsSound /\ Handshake /\ OwnReplies
    BY DEF Init, TableIsSound, Handshake, OwnReplies, NoReply, Registered
  <1>5. QED
    BY <1>2, <1>3, <1>4 DEF IndInv

\* Every step keeps the types.
LEMMA TypeStep == IndInv /\ [Next]_vars => TypeOK'
  <1> SUFFICES ASSUME TypeOK, XidsAreUnique, RespondersAreOwned, [Next]_vars
               PROVE  TypeOK'
    BY DEF IndInv
  <1> USE DEF Goto, callerVars, networkVars, managerVars
  <1>a. /\ heap \in [Addrs -> Responders]
        /\ mreply \in Xids \cup {NoReply}
        /\ resp \in [Callers -> Addrs \cup {Null}]
    BY DEF TypeOK
  <1>b. \A c \in Callers : /\ pc[c] # "idle" => xid[c] \in Xids
                           /\ Registered(c) => resp[c] \in Addrs
    BY DEF TypeOK, XidsAreUnique, RespondersAreOwned
  <1>1. ASSUME NEW c \in Callers, CreateRequest(c) PROVE TypeOK'
    BY <1>1, <1>b DEF TypeOK, Positions, Xids, NoReply, CreateRequest, Registered
  <1>2. ASSUME NEW c \in Callers, Acquire(c) PROVE TypeOK'
    BY <1>2, <1>b DEF TypeOK, Positions, Xids, NoReply, Acquire, Registered
  <1>3. ASSUME NEW c \in Callers, Register(c) PROVE TypeOK'
    <2>1. heap' \in [Addrs -> Responders]
      BY <1>3, <1>a, ResponderUpdates DEF Register
    <2>2. table' \in [Xids -> Addrs \cup {Null}] /\ resp' \in [Callers -> Addrs \cup {Null}]
      BY <1>3, <1>a, <1>b DEF TypeOK, Register
    <2>3. retries' \in [Callers -> Int] /\ pc' \in [Callers -> Positions]
      BY <1>3 DEF TypeOK, Positions, Register
    <2>4. QED
      BY <1>3, <2>1, <2>2, <2>3 DEF TypeOK, Register
  <1>4. ASSUME NEW c \in Callers, Write(c) PROVE TypeOK'
    BY <1>4, <1>b DEF TypeOK, Positions, Xids, NoReply, Write, Registered
  <1>5. ASSUME NEW c \in Callers, WriteFails(c) PROVE TypeOK'
    BY <1>5, <1>b DEF TypeOK, Positions, Xids, NoReply, WriteFails, NextAttempt, Registered
  <1>6. ASSUME NEW c \in Callers, BeginWait(c) PROVE TypeOK'
    <2>1. heap' \in [Addrs -> Responders]
      <3>1. heap[resp[c]] \in Responders
        BY <1>6, <1>a, <1>b DEF BeginWait, Registered
      <3>2. \/ heap' = heap
            \/ heap' = [heap EXCEPT ![resp[c]] =
                         [heap[resp[c]] EXCEPT !.wait = TRUE, !.response = NoReply]]
        BY <1>6, <1>a DEF BeginWait
      <3>3. QED
        BY <3>1, <3>2, <1>a, ResponderUpdates
    <2>2. QED
      BY <1>6, <1>b, <2>1 DEF TypeOK, Positions, Xids, NoReply, BeginWait, Registered
  <1>7. ASSUME NEW c \in Callers, Wake(c) PROVE TypeOK'
    <2>1. heap' \in [Addrs -> Responders]
      BY <1>7, <1>a, <1>b, ResponderUpdates DEF Wake, Registered
    <2>2. QED
      BY <1>7, <1>b, <2>1 DEF TypeOK, Positions, Xids, NoReply, Wake, Registered
  <1>8. ASSUME NEW c \in Callers, ReadReply(c) PROVE TypeOK'
    <2>1. heap[resp[c]].response \in Xids \cup {NoReply}
      BY <1>8, <1>a, <1>b, ResponderUpdates DEF ReadReply, Registered
    <2>2. QED
      BY <1>8, <2>1 DEF TypeOK, Positions, ReadReply, NextAttempt
  <1>9. ASSUME NEW c \in Callers, RemovePending(c) PROVE TypeOK'
    BY <1>9, <1>b DEF TypeOK, Positions, Xids, NoReply, RemovePending, Registered
  <1>10. ASSUME NEW c \in Callers, Return(c) PROVE TypeOK'
    <2>1. heap' \in [Addrs -> Responders]
      BY <1>10, <1>a, ResponderUpdates DEF Return
    <2>2. QED
      BY <1>10, <1>b, <2>1 DEF TypeOK, Positions, Xids, NoReply, Return, Registered
  <1>11. ASSUME NEW x \in Xids, Receive(x) PROVE TypeOK'
    <2>1. table[x] # Null => <<x, table[x]>> \in Xids \X Addrs
      BY <1>11 DEF TypeOK
    <2>2. targets' \in SUBSET (Xids \X Addrs) /\ mreply' \in Xids \cup {NoReply}
      BY <1>11, <2>1 DEF TypeOK, Receive
    <2>3. QED
      BY <1>11, <2>2 DEF TypeOK, Receive
  <1>12. CASE Cleanup
    BY <1>12 DEF TypeOK, Positions, Xids, NoReply, Cleanup
  <1>13. ASSUME NEW x \in Xids, NEW a \in Addrs, SignalReady(x, a) PROVE TypeOK'
    <2>1. heap' \in [Addrs -> Responders]
      BY <1>13, <1>a, ResponderUpdates DEF SignalReady
    <2>2. QED
      BY <1>13, <1>b, <2>1 DEF TypeOK, Positions, Xids, NoReply, SignalReady, Registered
  <1>14. CASE Close
    BY <1>14 DEF TypeOK, Close
  <1>15. ASSUME NEW x \in Xids, Answer(x) \/ Lose(x) PROVE TypeOK'
    BY <1>15 DEF TypeOK, Answer, Lose
  <1>16. CASE UNCHANGED vars
    BY <1>16 DEF TypeOK, vars
  <1>17. QED
    BY <1>1, <1>2, <1>3, <1>4, <1>5, <1>6, <1>7, <1>8, <1>9, <1>10, <1>11, <1>12,
       <1>13, <1>14, <1>15, <1>16 DEF Next, InCall, Manager

\* A step of a thread inside a call moves that thread only, and keeps its xid.
LEMMA CallerStep ==
  ASSUME TypeOK, NEW c \in Callers, InCall(c)
  PROVE  /\ pc[c] # "idle"
         /\ UNCHANGED <<xid, issued>>
         /\ \A d \in Callers \ {c} : pc'[d] = pc[d] /\ resp'[d] = resp[d]
         /\ \A d \in Callers \ {c} : got'[d] = got[d]
  BY DEF TypeOK, InCall, Acquire, Register, Write, WriteFails, NextAttempt, BeginWait,
         Wake, ReadReply, RemovePending, Return, Goto, networkVars, managerVars

\* The manager, the server and the network leave the callers alone.
LEMMA OtherStep ==
  ASSUME Manager \/ Close \/ (\E x \in Xids : Answer(x) \/ Lose(x))
  PROVE  UNCHANGED <<permits, issued, callerVars>>
  BY DEF Manager, Receive, Cleanup, SignalReady, Close, Answer, Lose, callerVars

\* Only CreateRequest gives out an xid, and it gives out the next one.
LEMMA XidStep == TypeOK /\ XidsAreUnique /\ [Next]_vars => XidsAreUnique'
  <1> SUFFICES ASSUME TypeOK, XidsAreUnique, [Next]_vars PROVE XidsAreUnique'
    OBVIOUS
  <1>1. ASSUME NEW c \in Callers, CreateRequest(c) PROVE XidsAreUnique'
    <2>1. /\ issued' = issued + 1 /\ issued \in Nat
          /\ xid' = [xid EXCEPT ![c] = issued + 1]
          /\ xid \in [Callers -> Nat]
          /\ pc' = [pc EXCEPT ![c] = "acquire"] /\ pc \in [Callers -> Positions]
      BY <1>1 DEF CreateRequest, Goto, TypeOK, Xids, NoReply
    <2>2. QED
      BY <2>1 DEF XidsAreUnique, NoReply
  <1>2. ASSUME NEW c \in Callers, InCall(c) PROVE XidsAreUnique'
    BY <1>2, CallerStep DEF XidsAreUnique
  <1>3. CASE Manager \/ Close \/ (\E x \in Xids : Answer(x) \/ Lose(x))
    BY <1>3, OtherStep DEF XidsAreUnique, callerVars
  <1>4. CASE UNCHANGED vars
    BY <1>4 DEF XidsAreUnique, vars, callerVars
  <1>5. QED
    BY <1>1, <1>2, <1>3, <1>4 DEF Next

\* A request that is not registered yet is not in the table.
LEMMA NotYetPending ==
  ASSUME TypeOK, XidsAreUnique, TableIsSound, NEW c \in Callers, pc[c] # "idle",
         ~Registered(c)
  PROVE  table[xid[c]] = Null
  <1> SUFFICES ASSUME table[xid[c]] # Null PROVE FALSE
    OBVIOUS
  <1>1. xid[c] \in Xids /\ xid[c] # NoReply
    BY DEF TypeOK, XidsAreUnique
  <1>2. PICK d \in Callers : Registered(d) /\ xid[d] = xid[c]
    BY <1>1 DEF TableIsSound
  <1>3. QED
    BY <1>1, <1>2 DEF XidsAreUnique

\* What a signal leaves of the Responders: one is done and has the reply.
LEMMA SignalEffect ==
  ASSUME TypeOK, NEW x \in Xids, NEW a \in Addrs, SignalReady(x, a)
  PROVE  /\ \A b \in Addrs \ {a} : heap'[b] = heap[b]
         /\ heap'[a].live = heap[a].live /\ heap'[a].wait = heap[a].wait
         /\ heap'[a].done /\ heap'[a].response = mreply
         /\ heap[a].wait => heap'[a].notified
  <1>1. /\ heap' = [heap EXCEPT ![a] =
             [heap[a] EXCEPT !.done = TRUE, !.response = mreply,
                             !.notified = heap[a].notified \/ heap[a].wait]]
        /\ heap \in [Addrs -> Responders]
    BY DEF TypeOK, SignalReady
  <1>2. heap[a] \in Responders
    BY <1>1
  <1>3. QED
    BY <1>1, <1>2 DEF Responders

\* A Responder is allocated where no other call has one, and freed by its owner.
LEMMA OwnershipStep ==
  TypeOK /\ XidsAreUnique /\ RespondersAreOwned /\ TableIsSound /\ [Next]_vars
    => RespondersAreOwned'
  <1> SUFFICES ASSUME TypeOK, XidsAreUnique, RespondersAreOwned, TableIsSound,
                      [Next]_vars
               PROVE  RespondersAreOwned'
    OBVIOUS
  <1> USE DEF Goto, networkVars, managerVars
  <1>t. /\ heap \in [Addrs -> Responders]
        /\ pc \in [Callers -> Positions]
        /\ resp \in [Callers -> Addrs \cup {Null}]
    BY DEF TypeOK
  <1>1. ASSUME NEW c \in Callers, CreateRequest(c) PROVE RespondersAreOwned'
    BY <1>1, <1>t DEF CreateRequest, RespondersAreOwned, Registered
  <1>2. ASSUME NEW c \in Callers, Register(c) PROVE RespondersAreOwned'
    <2>1. table[xid[c]] = Null
      BY <1>2, NotYetPending DEF Register, Registered
    <2>2. PICK a \in Addrs : /\ ~heap[a].live
                             /\ heap' = [heap EXCEPT ![a] = [Free EXCEPT !.live = TRUE]]
                             /\ resp' = [resp EXCEPT ![c] = a]
      BY <1>2, <2>1 DEF Register
    <2>3. pc' = [pc EXCEPT ![c] = "write"]
      BY <1>2, <2>1 DEF Register
    <2>4. heap'[a].live /\ \A b \in Addrs \ {a} : heap'[b] = heap[b]
      BY <2>2, <1>t DEF Free
    <2>5. QED
      BY <2>2, <2>3, <2>4, <1>t DEF RespondersAreOwned, Registered
  <1>3. ASSUME NEW c \in Callers, Return(c) PROVE RespondersAreOwned'
    <2>1. \A b \in Addrs : b # resp[c] => heap'[b] = heap[b]
      BY <1>3 DEF Return
    <2>2. pc' = [pc EXCEPT ![c] = "idle"] /\ resp' = [resp EXCEPT ![c] = Null]
      BY <1>3 DEF Return
    <2>3. QED
      BY <2>1, <2>2, <1>t DEF RespondersAreOwned, Registered
  <1>4. ASSUME NEW c \in Callers,
               \/ Acquire(c) \/ Write(c) \/ WriteFails(c) \/ BeginWait(c)
               \/ Wake(c) \/ ReadReply(c) \/ RemovePending(c)
        PROVE RespondersAreOwned'
    <2>1. resp' = resp /\ \A b \in Addrs : heap'[b].live = heap[b].live
      BY <1>4, <1>t DEF Acquire, Write, WriteFails, BeginWait, Wake, ReadReply,
                        RemovePending, Responders
    <2>2. \A d \in Callers \ {c} : pc'[d] = pc[d]
      BY <1>4, CallerStep DEF InCall
    <2>3. /\ Registered(c) => resp[c] # Null
          /\ pc'[c] \in {"idle", "acquire", "register"} => ~Registered(c)
          /\ Registered(c)' => Registered(c)
      BY <1>4, <1>t DEF RespondersAreOwned, Acquire, Write, WriteFails, NextAttempt,
           BeginWait, Wake, ReadReply, RemovePending, Registered
    <2>4. pc'[c] \in {"idle", "acquire", "register"} => resp[c] = Null
      BY <1>4, <1>t DEF RespondersAreOwned, Acquire, Write, WriteFails, NextAttempt,
           BeginWait, Wake, ReadReply, RemovePending
    <2>5. QED
      BY <2>1, <2>2, <2>3, <2>4, <1>t DEF RespondersAreOwned, Registered
  <1>5. CASE Manager \/ Close \/ (\E x \in Xids : Answer(x) \/ Lose(x))
    <2>1. \A b \in Addrs : heap'[b].live = heap[b].live
      <3>1. ASSUME NEW x \in Xids, NEW a \in Addrs, SignalReady(x, a)
            PROVE  \A b \in Addrs : heap'[b].live = heap[b].live
        BY <3>1, SignalEffect
      <3>2. QED
        BY <1>5, <3>1 DEF Manager, Receive, Cleanup, Close, Answer, Lose
    <2>2. UNCHANGED <<pc, resp>>
      BY <1>5, OtherStep DEF callerVars
    <2>3. QED
      BY <2>1, <2>2, <1>t DEF RespondersAreOwned, Registered
  <1>6. CASE UNCHANGED vars
    BY <1>6 DEF RespondersAreOwned, Registered, vars, callerVars
  <1>7. QED
    BY <1>1, <1>2, <1>3, <1>4, <1>5, <1>6 DEF Next, InCall

\* A calling thread does not touch another call's Responder.
LEMMA HeapFrame ==
  ASSUME TypeOK, RespondersAreOwned, NEW c \in Callers, InCall(c),
         NEW d \in Callers \ {c}, resp[d] # Null
  PROVE  heap'[resp[d]] = heap[resp[d]]
  <1>1. /\ resp[d] \in Addrs /\ resp[d] # resp[c] /\ heap[resp[d]].live
        /\ heap \in [Addrs -> Responders]
    BY DEF TypeOK, RespondersAreOwned
  <1>2. CASE Register(c)
    BY <1>1, <1>2 DEF Register
  <1>3. CASE BeginWait(c) \/ Wake(c) \/ Return(c)
    BY <1>1, <1>3 DEF BeginWait, Wake, Return
  <1>4. CASE Acquire(c) \/ Write(c) \/ WriteFails(c) \/ ReadReply(c) \/ RemovePending(c)
    BY <1>4 DEF Acquire, Write, WriteFails, ReadReply, RemovePending
  <1>5. QED
    BY <1>2, <1>3, <1>4 DEF InCall

\* Entries are made for a new Responder and erased before it is deleted.
LEMMA TableStep ==
  TypeOK /\ XidsAreUnique /\ RespondersAreOwned /\ TableIsSound /\ [Next]_vars
    => TableIsSound'
  <1> SUFFICES ASSUME TypeOK, XidsAreUnique, RespondersAreOwned, TableIsSound,
                      [Next]_vars
               PROVE  TableIsSound'
    OBVIOUS
  <1> USE DEF Goto, networkVars, managerVars
  <1>t. /\ heap \in [Addrs -> Responders]
        /\ pc \in [Callers -> Positions]
        /\ resp \in [Callers -> Addrs \cup {Null}]
        /\ xid \in [Callers -> Xids \cup {NoReply}]
        /\ table \in [Xids -> Addrs \cup {Null}]
    BY DEF TypeOK
  <1>1. ASSUME NEW c \in Callers, CreateRequest(c) PROVE TableIsSound'
    BY <1>1, <1>t DEF CreateRequest, TableIsSound, Registered
  <1>2. ASSUME NEW c \in Callers, InCall(c) PROVE TableIsSound'
    <2>1. /\ xid' = xid
          /\ \A d \in Callers \ {c} : pc'[d] = pc[d] /\ resp'[d] = resp[d]
      BY <1>2, CallerStep
    <2>2. \A d \in Callers \ {c} : resp[d] # Null => heap'[resp[d]] = heap[resp[d]]
      BY <1>2, HeapFrame
    <2>3. ASSUME NEW x \in Xids, table[x] # Null, table'[x] = table[x],
                 xid[c] = x => Registered(c) /\ Registered(c)' /\ resp'[c] = resp[c]
                               /\ heap'[resp[c]].live
          PROVE  /\ heap'[table'[x]].live
                 /\ \E d \in Callers : Registered(d)' /\ xid'[d] = x /\ resp'[d] = table'[x]
      <3>1. PICK d \in Callers : Registered(d) /\ xid[d] = x /\ resp[d] = table[x]
                                 /\ heap[table[x]].live
        BY <2>3 DEF TableIsSound
      <3>2. QED
        BY <2>1, <2>2, <2>3, <3>1 DEF Registered
    <2>4. CASE Register(c)
      <3>1. table[xid[c]] = Null /\ xid[c] \in Xids
        BY <2>4, NotYetPending DEF Register, Registered, TypeOK, XidsAreUnique
      <3>2. PICK a \in Addrs : /\ heap' = [heap EXCEPT ![a] = [Free EXCEPT !.live = TRUE]]
                               /\ resp' = [resp EXCEPT ![c] = a]
                               /\ table' = [table EXCEPT ![xid[c]] = a]
        BY <2>4, <3>1 DEF Register
      <3>3. pc' = [pc EXCEPT ![c] = "write"] /\ heap'[a].live
        BY <2>4, <3>1, <3>2, <1>t DEF Register, Free
      <3>4. \A x \in Xids \ {xid[c]} : table'[x] = table[x]
        BY <3>2, <1>t
      <3>5. Registered(c)' /\ resp'[c] = a /\ table'[xid[c]] = a
        BY <3>1, <3>2, <3>3, <1>t DEF Registered
      <3>6. QED
        BY <2>1, <2>3, <3>3, <3>4, <3>5 DEF TableIsSound
    <2>5. CASE RemovePending(c)
      <3>1. \A x \in Xids : table'[x] = IF x = xid[c] THEN Null ELSE table[x]
        BY <2>5, <1>t DEF RemovePending
      <3>2. QED
        BY <2>3, <3>1 DEF TableIsSound
    <2>6. CASE Return(c)
      <3>1. table' = table /\ ~Registered(c)
        BY <2>6 DEF Return, Registered
      <3>2. \A x \in Xids : table[x] # Null => xid[c] # x
        BY <2>6, <3>1, NotYetPending DEF Return
      <3>3. QED
        BY <2>3, <3>1, <3>2 DEF TableIsSound
    <2>7. CASE Acquire(c)
      <3>1. table' = table /\ ~Registered(c) /\ pc[c] # "idle"
        BY <2>7 DEF Acquire, Registered
      <3>2. \A x \in Xids : table[x] # Null => xid[c] # x
        BY <3>1, NotYetPending
      <3>3. QED
        BY <2>3, <3>1, <3>2 DEF TableIsSound
    <2>8. CASE \/ Write(c) \/ WriteFails(c) \/ BeginWait(c) \/ Wake(c) \/ ReadReply(c)
      <3>1. Registered(c) /\ table' = table /\ resp' = resp
        BY <2>8 DEF Write, WriteFails, BeginWait, Wake, ReadReply, Registered
      <3>2. Registered(c)'
        BY <2>8, <1>t DEF Write, WriteFails, NextAttempt, BeginWait, Wake, ReadReply,
                          Registered
      <3>3. resp[c] \in Addrs /\ heap[resp[c]].live
        BY <3>1, <1>t DEF RespondersAreOwned
      <3>4. heap'[resp[c]].live
        BY <2>8, <3>3, <1>t DEF Write, WriteFails, BeginWait, Wake, ReadReply, Responders
      <3>5. QED
        BY <2>3, <3>1, <3>2, <3>4 DEF TableIsSound
    <2>9. QED
      BY <1>2, <2>4, <2>5, <2>6, <2>7, <2>8 DEF InCall
  <1>3. ASSUME NEW x \in Xids, NEW a \in Addrs, SignalReady(x, a) PROVE TableIsSound'
    <2>1. \A b \in Addrs : heap'[b].live = heap[b].live
      BY <1>3, SignalEffect
    <2>2. QED
      BY <1>3, <2>1, <1>t DEF SignalReady, TableIsSound, Registered, callerVars
  <1>4. CASE Cleanup
    BY <1>4 DEF Cleanup, TableIsSound
  <1>5. CASE Close \/ (\E x \in Xids : Receive(x) \/ Answer(x) \/ Lose(x))
    BY <1>5 DEF Close, Receive, Answer, Lose, TableIsSound, Registered, callerVars
  <1>6. CASE UNCHANGED vars
    BY <1>6 DEF TableIsSound, Registered, vars, callerVars
  <1>7. QED
    BY <1>1, <1>2, <1>3, <1>4, <1>5, <1>6 DEF Next, Manager

\* A calling thread changes its own entry of the table only.
LEMMA TableFrame ==
  ASSUME TypeOK, NEW c \in Callers, InCall(c)
  PROVE  \A y \in Xids \ {xid[c]} : table'[y] = table[y]
  BY DEF TypeOK, InCall, Acquire, Register, Write, WriteFails, BeginWait, Wake,
         ReadReply, RemovePending, Return

\* No step leaves a call that can block out of everybody's reach.
LEMMA HandshakeStep == IndInv /\ [Next]_vars => Handshake'
  <1> SUFFICES ASSUME IndInv, [Next]_vars PROVE Handshake'
    OBVIOUS
  <1> DEFINE Waiting(c) == pc[c] \in {"write", "wait", "blocked", "read"}
             Reachable(c) == \/ table[xid[c]] = resp[c]
                             \/ heap[resp[c]].done
                             \/ <<xid[c], resp[c]>> \in targets
             Blocked(c) == pc[c] = "blocked" =>
                             /\ heap[resp[c]].wait
                             /\ heap[resp[c]].done => heap[resp[c]].notified
  <1>t. /\ heap \in [Addrs -> Responders]
        /\ pc \in [Callers -> Positions]
        /\ resp \in [Callers -> Addrs \cup {Null}]
        /\ xid \in [Callers -> Xids \cup {NoReply}]
        /\ table \in [Xids -> Addrs \cup {Null}]
        /\ TypeOK
    BY DEF TypeOK, IndInv
  <1>i. XidsAreUnique /\ RespondersAreOwned /\ TableIsSound /\ Handshake
    BY DEF IndInv
  <1>h. ASSUME NEW c \in Callers
        PROVE  (Waiting(c) => Reachable(c)) /\ Blocked(c)
    BY <1>i DEF Handshake
  <1>w. ASSUME NEW c \in Callers, Waiting(c)
        PROVE  /\ resp[c] \in Addrs /\ resp[c] # Null
               /\ xid[c] \in Xids /\ xid[c] # NoReply
    BY <1>w, <1>t, <1>i DEF RespondersAreOwned, XidsAreUnique, Registered
  <1>q. ASSUME mpc' # "signal" => targets' = {},
               \A c \in Callers : (Waiting(c) => Reachable(c))' /\ Blocked(c)'
        PROVE  Handshake'
    BY <1>q DEF Handshake
  <1>m. ASSUME UNCHANGED <<mpc, targets>> PROVE mpc' # "signal" => targets' = {}
    BY <1>m, <1>i DEF Handshake
  <1> HIDE DEF Waiting, Reachable, Blocked
  <1>1. ASSUME NEW c \in Callers, CreateRequest(c) PROVE Handshake'
    <2>1. /\ UNCHANGED <<table, heap, resp, targets, mpc>>
          /\ pc' = [pc EXCEPT ![c] = "acquire"]
          /\ \A d \in Callers \ {c} : xid'[d] = xid[d]
      BY <1>1, <1>t DEF CreateRequest, Goto, managerVars
    <2>2. \A d \in Callers : (Waiting(d) => Reachable(d))' /\ Blocked(d)'
      BY <2>1, <1>h, <1>t DEF Waiting, Reachable, Blocked
    <2>3. QED
      BY <2>1, <2>2, <1>m, <1>q
  <1>2. ASSUME NEW c \in Callers, InCall(c) PROVE Handshake'
    <2>1. /\ xid' = xid /\ pc[c] # "idle"
          /\ \A d \in Callers \ {c} : pc'[d] = pc[d] /\ resp'[d] = resp[d]
      BY <1>2, <1>t, CallerStep
    <2>2. UNCHANGED <<mpc, targets>>
      BY <1>2 DEF InCall, Acquire, Register, Write, WriteFails, BeginWait, Wake,
                  ReadReply, RemovePending, Return, managerVars
    <2>3. ASSUME NEW d \in Callers \ {c}
          PROVE  (Waiting(d) => Reachable(d))' /\ Blocked(d)'
      <3>1. CASE Waiting(d)
        <4>1. heap'[resp[d]] = heap[resp[d]]
          BY <1>2, <1>t, <1>i, <1>w, <3>1, HeapFrame
        <4>2. xid[d] # xid[c]
          BY <1>i, <1>w, <3>1 DEF XidsAreUnique
        <4>3. table'[xid[d]] = table[xid[d]]
          BY <1>2, <1>t, <1>w, <3>1, <4>2, TableFrame
        <4>4. QED
          BY <1>h, <3>1, <4>1, <4>3, <2>1, <2>2 DEF Waiting, Reachable, Blocked
      <3>2. CASE ~Waiting(d)
        BY <2>1, <3>2 DEF Waiting, Blocked
      <3>3. QED
        BY <3>1, <3>2
    <2>4. (Waiting(c) => Reachable(c))' /\ Blocked(c)'
      <3>1. CASE Register(c)
        <4>1. table[xid[c]] = Null /\ xid[c] \in Xids
          BY <1>t, <1>i, <3>1, NotYetPending DEF Register, Registered, XidsAreUnique
        <4>2. PICK a \in Addrs : /\ resp' = [resp EXCEPT ![c] = a]
                                 /\ table' = [table EXCEPT ![xid[c]] = a]
          BY <3>1, <4>1 DEF Register
        <4>3. pc' = [pc EXCEPT ![c] = "write"]
          BY <3>1, <4>1 DEF Register, Goto
        <4>4. QED
          BY <4>1, <4>2, <4>3, <2>1, <1>t DEF Waiting, Reachable, Blocked
      <3>2. CASE Write(c) \/ WriteFails(c) \/ ReadReply(c)
        <4>1. UNCHANGED <<table, heap, resp>> /\ Waiting(c) /\ pc'[c] # "blocked"
          BY <3>2, <1>t DEF Write, WriteFails, ReadReply, NextAttempt, Goto, Waiting
        <4>2. QED
          BY <4>1, <2>1, <2>2, <1>h DEF Reachable, Blocked
      <3>3. CASE BeginWait(c)
        <4>1. UNCHANGED <<table, resp>> /\ Waiting(c)
          BY <3>3 DEF BeginWait, Waiting
        <4>2. heap[resp[c]] \in Responders /\ resp[c] \in Addrs
          BY <4>1, <1>w, <1>t
        <4>3. CASE heap[resp[c]].done
          BY <3>3, <4>1, <4>3, <2>1, <2>2, <1>h, <1>t
             DEF BeginWait, Goto, Reachable, Blocked
        <4>4. CASE ~heap[resp[c]].done
          <5>1. heap' = [heap EXCEPT ![resp[c]] =
                  [heap[resp[c]] EXCEPT !.wait = TRUE, !.response = NoReply]]
            BY <3>3, <4>4, <1>t DEF BeginWait
          <5>2. heap'[resp[c]].wait /\ ~heap'[resp[c]].done
            BY <5>1, <4>2, <4>4, <1>t DEF Responders
          <5>3. QED
            BY <5>2, <4>1, <4>4, <2>1, <2>2, <1>h DEF Reachable, Blocked
        <4>5. QED
          BY <4>3, <4>4
      <3>4. CASE Wake(c)
        <4>1. UNCHANGED <<table, resp>> /\ Waiting(c) /\ pc'[c] = "read"
          BY <3>4, <1>t DEF Wake, Goto, Waiting
        <4>2. heap[resp[c]] \in Responders /\ resp[c] \in Addrs
          BY <4>1, <1>w, <1>t
        <4>3. heap' = [heap EXCEPT ![resp[c]] =
                [heap[resp[c]] EXCEPT !.wait = FALSE, !.notified = FALSE]]
          BY <3>4, <1>t DEF Wake
        <4>4. heap'[resp[c]].done = heap[resp[c]].done
          BY <4>2, <4>3, <1>t DEF Responders
        <4>5. QED
          BY <4>1, <4>4, <2>1, <2>2, <1>h DEF Reachable, Blocked
      <3>5. CASE Acquire(c) \/ RemovePending(c) \/ Return(c)
        BY <3>5, <1>t DEF Acquire, RemovePending, Return, Goto, Waiting, Blocked
      <3>6. QED
        BY <1>2, <3>1, <3>2, <3>3, <3>4, <3>5 DEF InCall
    <2>5. QED
      BY <2>2, <2>3, <2>4, <1>m, <1>q
  <1>3. ASSUME NEW x \in Xids, Receive(x) \/ Answer(x) \/ Lose(x) PROVE Handshake'
    <2>1. UNCHANGED <<table, heap, pc, xid, resp>>
      BY <1>3 DEF Receive, Answer, Lose, callerVars
    <2>2. (mpc' # "signal" => targets' = {}) /\ targets \subseteq targets'
      BY <1>3, <1>i DEF Receive, Answer, Lose, managerVars, Handshake
    <2>3. QED
      BY <2>1, <2>2, <1>h, <1>q DEF Waiting, Reachable, Blocked
  <1>4. CASE Close
    BY <1>4, <1>h, <1>i, <1>q DEF Close, callerVars, Handshake, Waiting, Reachable, Blocked
  <1>5. CASE Cleanup
    <2>1. UNCHANGED <<heap, pc, xid, resp>>
      BY <1>5 DEF Cleanup, callerVars
    <2>2. /\ mpc' # "signal" => targets' = {}
          /\ \A y \in Xids : table[y] # Null => <<y, table[y]>> \in targets'
          /\ targets = {}
      BY <1>5, <1>i DEF Cleanup, Handshake
    <2>3. QED
      BY <2>1, <2>2, <1>h, <1>w, <1>q DEF Waiting, Reachable, Blocked
  <1>6. ASSUME NEW x \in Xids, NEW a \in Addrs, SignalReady(x, a) PROVE Handshake'
    <2>1. UNCHANGED <<table, pc, xid, resp>>
      BY <1>6 DEF SignalReady, callerVars
    <2>2. /\ \A b \in Addrs \ {a} : heap'[b] = heap[b]
          /\ heap'[a].wait = heap[a].wait
          /\ heap'[a].done
          /\ heap[a].wait => heap'[a].notified
      BY <1>6, <1>t, SignalEffect
    <2>3. (mpc' # "signal" => targets' = {}) /\ targets' = targets \ {<<x, a>>}
      BY <1>6 DEF SignalReady
    <2>4. ASSUME NEW c \in Callers PROVE (Waiting(c) => Reachable(c))' /\ Blocked(c)'
      <3>1. CASE Waiting(c)
        BY <2>1, <2>2, <2>3, <3>1, <1>h, <1>w DEF Waiting, Reachable, Blocked
      <3>2. CASE ~Waiting(c)
        BY <2>1, <3>2 DEF Waiting, Blocked
      <3>3. QED
        BY <3>1, <3>2
    <2>5. QED
      BY <2>3, <2>4, <1>q
  <1>7. CASE UNCHANGED vars
    BY <1>7, <1>i DEF Handshake, vars, callerVars, managerVars
  <1>8. QED
    BY <1>1, <1>2, <1>3, <1>4, <1>5, <1>6, <1>7 DEF Next, Manager

\* As long as no dangling pointer has been signalled, a Responder and its call
\* hold that call's reply or none.
LEMMA OwnRepliesStep == IndInv /\ [Next]_vars => OwnReplies'
  <1> SUFFICES ASSUME IndInv, [Next]_vars PROVE OwnReplies'
    OBVIOUS
  <1> DEFINE Own(c) == /\ got[c] \in {NoReply, xid[c]}
                       /\ resp[c] # Null => heap[resp[c]].response \in {NoReply, xid[c]}
             Carried == \A t \in targets : mreply \in {NoReply, t[1]}
  <1>t. /\ heap \in [Addrs -> Responders]
        /\ resp \in [Callers -> Addrs \cup {Null}]
        /\ got \in [Callers -> Xids \cup {NoReply}]
        /\ xid \in [Callers -> Xids \cup {NoReply}]
        /\ TypeOK
    BY DEF TypeOK, IndInv
  <1>i. XidsAreUnique /\ RespondersAreOwned /\ TableIsSound /\ Carried
        /\ (dangled \/ \A c \in Callers : Own(c))
    BY DEF IndInv, OwnReplies
  <1>q. ASSUME Carried', dangled' \/ \A c \in Callers : Own(c)' PROVE OwnReplies'
    BY <1>q DEF OwnReplies
  <1>r. ASSUME NEW c \in Callers, resp[c] # Null
        PROVE  /\ resp[c] \in Addrs /\ heap[resp[c]] \in Responders
               /\ pc[c] # "idle" /\ xid[c] \in Xids /\ xid[c] # NoReply
    BY <1>r, <1>t, <1>i DEF RespondersAreOwned, XidsAreUnique
  <1> HIDE DEF Own, Carried
  <1>1. ASSUME NEW c \in Callers, CreateRequest(c) PROVE OwnReplies'
    <2>1. /\ UNCHANGED <<heap, resp, targets, mreply, dangled>>
          /\ got'[c] = NoReply /\ resp[c] = Null
          /\ \A d \in Callers \ {c} : xid'[d] = xid[d] /\ got'[d] = got[d]
      BY <1>1, <1>t, <1>i DEF CreateRequest, managerVars, RespondersAreOwned
    <2>2. QED
      BY <2>1, <1>i, <1>q DEF Own, Carried
  <1>2. ASSUME NEW c \in Callers, InCall(c) PROVE OwnReplies'
    <2>1. /\ xid' = xid
          /\ \A d \in Callers \ {c} : resp'[d] = resp[d] /\ got'[d] = got[d]
      BY <1>2, <1>t, CallerStep
    <2>2. UNCHANGED <<targets, mreply, dangled>>
      BY <1>2 DEF InCall, Acquire, Register, Write, WriteFails, BeginWait, Wake,
                  ReadReply, RemovePending, Return, managerVars
    <2>3. ASSUME NEW d \in Callers \ {c}, Own(d) PROVE Own(d)'
      <3>1. resp[d] # Null => heap'[resp[d]] = heap[resp[d]]
        BY <1>2, <1>t, <1>i, HeapFrame
      <3>2. QED
        BY <2>1, <2>3, <3>1 DEF Own
    <2>4. ASSUME Own(c) PROVE Own(c)'
      <3>1. CASE Register(c)
        <4>1. table[xid[c]] = Null
          BY <1>t, <1>i, <3>1, NotYetPending DEF Register, Registered
        <4>2. PICK a \in Addrs : /\ resp' = [resp EXCEPT ![c] = a]
                                 /\ heap' = [heap EXCEPT ![a] = [Free EXCEPT !.live = TRUE]]
          BY <3>1, <4>1 DEF Register
        <4>3. heap'[resp'[c]].response = NoReply /\ got' = got
          BY <3>1, <4>2, <1>t DEF Register, Free
        <4>4. QED
          BY <4>3, <2>1, <2>4 DEF Own
      <3>2. CASE ReadReply(c)
        <4>1. UNCHANGED <<heap, resp>> /\ got'[c] = heap[resp[c]].response
          BY <3>2, <1>t DEF ReadReply
        <4>2. resp[c] # Null
          BY <3>2, <1>i DEF ReadReply, RespondersAreOwned, Registered
        <4>3. QED
          BY <4>1, <4>2, <2>1, <2>4 DEF Own
      <3>3. CASE BeginWait(c) \/ Wake(c)
        <4>1. UNCHANGED <<got, resp>> /\ Registered(c)
          BY <3>3 DEF BeginWait, Wake, Registered
        <4>2. resp[c] \in Addrs /\ heap[resp[c]] \in Responders
          BY <4>1, <1>i, <1>r DEF RespondersAreOwned
        <4>3. heap' = heap \/ \E u \in Responders :
                /\ heap' = [heap EXCEPT ![resp[c]] = u]
                /\ u.response \in {NoReply, heap[resp[c]].response}
          <5>1. CASE BeginWait(c)
            <6> DEFINE u == [heap[resp[c]] EXCEPT !.wait = TRUE, !.response = NoReply]
            <6>1. u \in Responders /\ u.response = NoReply
              BY <4>2, ResponderUpdates DEF Responders
            <6>2. heap' = heap \/ heap' = [heap EXCEPT ![resp[c]] = u]
              BY <5>1, <1>t DEF BeginWait
            <6>3. QED
              BY <6>1, <6>2
          <5>2. CASE Wake(c)
            <6> DEFINE u == [heap[resp[c]] EXCEPT !.wait = FALSE, !.notified = FALSE]
            <6>1. u \in Responders /\ u.response = heap[resp[c]].response
              BY <4>2, ResponderUpdates DEF Responders
            <6>2. heap' = [heap EXCEPT ![resp[c]] = u]
              BY <5>2, <1>t DEF Wake
            <6>3. QED
              BY <6>1, <6>2
          <5>3. QED
            BY <3>3, <5>1, <5>2
        <4>4. QED
          BY <4>1, <4>2, <4>3, <2>1, <2>4, <1>t DEF Own
      <3>4. CASE Acquire(c) \/ Write(c) \/ WriteFails(c) \/ RemovePending(c)
        BY <3>4, <2>4 DEF Acquire, Write, WriteFails, RemovePending, Own
      <3>5. CASE Return(c)
        BY <3>5, <2>4, <1>t DEF Return, Own
      <3>6. QED
        BY <1>2, <3>1, <3>2, <3>3, <3>4, <3>5 DEF InCall
    <2>5. QED
      BY <2>2, <2>3, <2>4, <1>i, <1>q DEF Carried
  <1>3. ASSUME NEW x \in Xids, NEW a \in Addrs, SignalReady(x, a) PROVE OwnReplies'
    <2>1. UNCHANGED <<xid, resp, got, mreply>> /\ <<x, a>> \in targets
          /\ targets' = targets \ {<<x, a>>}
          /\ dangled' = (dangled \/ ~ \E c \in Callers : xid[c] = x /\ resp[c] = a)
      BY <1>3 DEF SignalReady, callerVars
    <2>2. mreply \in {NoReply, x}
      BY <2>1, <1>i DEF Carried
    <2>3. /\ \A b \in Addrs \ {a} : heap'[b] = heap[b]
          /\ heap'[a].response = mreply
      BY <1>3, <1>t, SignalEffect
    <2>4. ASSUME ~dangled' PROVE \A c \in Callers : Own(c)'
      <3>1. PICK c \in Callers : xid[c] = x /\ resp[c] = a
        BY <2>1, <2>4
      <3>2. \A d \in Callers : Own(d)
        BY <2>1, <2>4, <1>i
      <3>3. \A d \in Callers \ {c} : resp[d] # a
        BY <3>1, <1>t, <1>i DEF RespondersAreOwned
      <3>4. QED
        BY <2>1, <2>2, <2>3, <3>1, <3>2, <3>3, <1>t DEF Own
    <2>5. QED
      BY <2>1, <2>4, <1>i, <1>q DEF Carried
  <1>4. ASSUME NEW x \in Xids, Receive(x) PROVE OwnReplies'
    <2>1. UNCHANGED <<heap, xid, resp, got, dangled>> /\ Carried'
      BY <1>4, <1>i DEF Receive, callerVars, Carried
    <2>2. QED
      BY <2>1, <1>i, <1>q DEF Own
  <1>5. CASE Cleanup
    <2>1. UNCHANGED <<heap, xid, resp, got, dangled>> /\ mreply' = NoReply
      BY <1>5 DEF Cleanup, callerVars
    <2>2. QED
      BY <2>1, <1>i, <1>q DEF Own, Carried
  <1>6. CASE Close \/ (\E x \in Xids : Answer(x) \/ Lose(x)) \/ UNCHANGED vars
    <2>1. UNCHANGED <<heap, xid, resp, got, dangled, mreply, targets>>
      BY <1>6 DEF Close, Answer, Lose, vars, callerVars, managerVars
    <2>2. QED
      BY <2>1, <1>i, <1>q DEF Own, Carried
  <1>7. QED
    BY <1>1, <1>2, <1>3, <1>4, <1>5, <1>6 DEF Next, Manager

-----------------------------------------------------------------------------
LEMMA IndInvStep == IndInv /\ [Next]_vars => IndInv'
  BY TypeStep, XidStep, OwnershipStep, TableStep, HandshakeStep, OwnRepliesStep
     DEF IndInv

\* The strengthened invariant holds in every reachable state.
THEOREM Invariance == Spec => []IndInv
  BY InitIndInv, IndInvStep, PTL DEF Spec

\* Every variable keeps its type.
THEOREM TypeCorrect == Spec => []TypeOK
  <1>1. IndInv => TypeOK
    BY DEF IndInv
  <1>2. QED
    BY <1>1, Invariance, PTL

\* Every pointer in m_xidTable leads to the live Responder of the call whose
\* xid is its key, however calls, replies, timeouts and closes interleave.
THEOREM TableCorrect == Spec => []TableIsSound
  <1>1. IndInv => TableIsSound
    BY DEF IndInv
  <1>2. QED
    BY <1>1, Invariance, PTL

\* No call blocks on its Responder out of the reach of a reply and of a close.
THEOREM HandshakeCorrect == Spec => []NoStrandedCaller
  <1>1. IndInv => NoStrandedCaller
    BY DEF IndInv, Handshake, NoStrandedCaller
  <1>2. QED
    BY <1>1, Invariance, PTL

\* Only a signal through a dangling pointer gives a call another call's reply.
THEOREM MixupCorrect == Spec => []MixupOnlyByDangling
  <1>1. IndInv => MixupOnlyByDangling
    BY DEF IndInv, OwnReplies, MixupOnlyByDangling
  <1>2. QED
    BY <1>1, Invariance, PTL

-----------------------------------------------------------------------------
(***************************************************************************)
(* The permits.                                                            *)
(***************************************************************************)
\* The holders are finitely many, and every permit is kept.
PermitInv == IsFiniteSet(PermitHolders) /\ PermitsAreKept

\* The permits a step moves are those of the caller that takes the step.
LEMMA PermitStep == TypeOK /\ PermitInv /\ [Next]_vars => PermitInv'
  <1> SUFFICES ASSUME TypeOK, PermitInv, [Next]_vars
               PROVE  PermitInv'
    OBVIOUS
  <1> USE DEF Goto, callerVars, networkVars, managerVars
  <1>a. Cardinality(PermitHolders) \in Nat /\ permits \in Nat
    BY FS_CardinalityType DEF PermitInv, PermitsAreKept, TypeOK
  <1>b. ASSUME permits' = permits, PermitHolders' = PermitHolders
        PROVE  PermitInv'
    BY <1>b DEF PermitInv, PermitsAreKept
  <1>1. ASSUME NEW c \in Callers, Acquire(c) PROVE PermitInv'
    <2>1. c \notin PermitHolders /\ PermitHolders' = PermitHolders \cup {c}
      BY <1>1 DEF Acquire, TypeOK, PermitHolders, Inside, Registered
    <2>2. permits' = permits - 1
      BY <1>1 DEF Acquire
    <2>3. /\ IsFiniteSet(PermitHolders \cup {c})
          /\ Cardinality(PermitHolders \cup {c}) = Cardinality(PermitHolders) + 1
      BY <2>1, FS_AddElement DEF PermitInv, PermitsAreKept
    <2>4. QED
      BY <1>a, <2>1, <2>2, <2>3 DEF PermitInv, PermitsAreKept
  <1>2. ASSUME NEW c \in Callers, Return(c) PROVE PermitInv'
    <2>1. c \in PermitHolders /\ PermitHolders' = PermitHolders \ {c}
      BY <1>2 DEF Return, TypeOK, PermitHolders, Inside, Registered
    <2>2. permits' = permits + 1
      BY <1>2 DEF Return
    <2>3. /\ IsFiniteSet(PermitHolders \ {c})
          /\ Cardinality(PermitHolders \ {c}) = Cardinality(PermitHolders) - 1
      BY <2>1, FS_RemoveElement DEF PermitInv, PermitsAreKept
    <2>4. QED
      BY <1>a, <2>1, <2>2, <2>3 DEF PermitInv, PermitsAreKept
  <1>3. ASSUME NEW c \in Callers, CreateRequest(c) PROVE PermitInv'
    <2>1. PermitHolders' = PermitHolders
      BY <1>3 DEF CreateRequest, TypeOK, PermitHolders, Inside, Registered
    <2>2. QED
      BY <1>3, <1>b, <2>1 DEF CreateRequest
  <1>4. ASSUME NEW c \in Callers, \/ Register(c) \/ Write(c) \/ WriteFails(c)
                                  \/ BeginWait(c) \/ Wake(c) \/ ReadReply(c)
                                  \/ RemovePending(c)
        PROVE  PermitInv'
    <2>1. /\ permits' = permits
          /\ pc[c] \notin {"idle", "acquire"}
          /\ \E to \in Positions \ {"idle", "acquire"} : pc' = [pc EXCEPT ![c] = to]
      BY <1>4 DEF Register, Write, WriteFails, NextAttempt, BeginWait, Wake, ReadReply,
                  RemovePending, Positions
    <2>2. PermitHolders' = PermitHolders
      BY <2>1 DEF TypeOK, Positions, PermitHolders, Inside, Registered
    <2>3. QED
      BY <1>b, <2>1, <2>2
  <1>5. CASE Manager \/ Close \/ (\E x \in Xids : Answer(x) \/ Lose(x))
    BY <1>5, <1>b, OtherStep DEF PermitHolders, Inside, Registered
  <1>6. CASE UNCHANGED vars
    BY <1>6, <1>b DEF vars, PermitHolders, Inside, Registered
  <1>7. QED
    BY <1>1, <1>2, <1>3, <1>4, <1>5, <1>6 DEF Next, InCall

\* A pending request belongs to a call of its own, which holds a permit.
LEMMA PendingHoldPermits == IndInv /\ PermitInv => PendingIsBounded
  <1> SUFFICES ASSUME IndInv, PermitInv PROVE PendingIsBounded
    OBVIOUS
  <1> DEFINE Pending == {x \in Xids : table[x] # Null}
             caller == [x \in Pending |-> CHOOSE c \in Callers : Registered(c) /\ xid[c] = x]
  <1>1. \A x \in Pending : \E c \in Callers : Registered(c) /\ xid[c] = x
    BY DEF IndInv, TableIsSound
  <1>2. \A x \in Pending : caller[x] \in PermitHolders /\ xid[caller[x]] = x
    BY <1>1 DEF PermitHolders, Inside
  <1>3. caller \in Injection(Pending, PermitHolders)
    <2>1. caller \in [Pending -> PermitHolders]
      BY <1>2
    <2>2. \A x, y \in Pending : caller[x] = caller[y] => x = y
      BY <1>2
    <2>3. QED
      BY <2>1, <2>2 DEF Injection, IsInjective
  <1>4. IsFiniteSet(Pending) /\ Cardinality(Pending) <= Cardinality(PermitHolders)
    <2> HIDE DEF Pending, caller
    <2> QED
      BY <1>3, FS_Injection DEF PermitInv, PermitsAreKept
  <1>5. Cardinality(PermitHolders) <= Concurrency
    BY FS_CardinalityType DEF PermitInv, PermitsAreKept, IndInv, TypeOK
  <1>6. Cardinality(Pending) \in Nat /\ Cardinality(PermitHolders) \in Nat
    <2> HIDE DEF Pending
    <2> QED
      BY <1>4, FS_CardinalityType DEF PermitInv, PermitsAreKept
  <1>7. QED
    BY <1>4, <1>5, <1>6 DEF PendingIsBounded

LEMMA PermitInvAlways == Spec => []PermitInv
  <1>1. Init => PermitInv
    <2> SUFFICES ASSUME Init PROVE PermitInv
      OBVIOUS
    <2>1. PermitHolders = {}
      BY DEF Init, PermitHolders, Inside, Registered
    <2>2. QED
      BY <2>1, FS_EmptySet DEF Init, PermitInv, PermitsAreKept
  <1>2. IndInv /\ PermitInv /\ [Next]_vars => PermitInv'
    BY PermitStep DEF IndInv
  <1>3. QED
    BY <1>1, <1>2, Invariance, PTL DEF Spec

\* The SemaphoreGuard of sendAndWait gives back what it took, once, however a call
\* ends, for any number of callers and permits.
THEOREM PermitsKept == Spec => []PermitsAreKept
  <1>1. PermitInv => PermitsAreKept
    BY DEF PermitInv
  <1>2. QED
    BY <1>1, PermitInvAlways, PTL

\* m_concurrency bounds the requests pending at a time, however calls end:
\* by a reply, a time-out, a failed write or a close (RpcConnection.h:111).
THEOREM PendingBounded == Spec => []PendingIsBounded
  BY PermitInvAlways, Invariance, PendingHoldPermits, PTL

(***************************************************************************)
(* The refinement of RpcService.                                           *)
(***************************************************************************)
\* No call gives up before its reply, no reply comes twice, nothing is closed;
\* requests and replies may still be lost, and connecting may fail.
Reliable == Faults \cap {"timeout", "duplicate", "close"} = {}

Outstanding(x) == x \in requests \cup replies \/ \E a \in Addrs : <<x, a>> \in targets
Awaits(c, x) == xid[c] = x /\ pc[c] \in {"wait", "blocked"} /\ ~heap[resp[c]].done

\* Then a request is on its way once at most, and while it is, or its reply is, its
\* call waits for it; a Responder that is done has a reply, and nothing dangles.
OnItsWay ==
  /\ \A x \in Xids : Outstanding(x) => \E c \in Callers : Awaits(c, x)
  /\ \A x \in Xids, a \in Addrs : <<x, a>> \in targets =>
       /\ x \notin requests \cup replies
       /\ \E c \in Callers : xid[c] = x /\ resp[c] = a
  /\ requests \cap replies = {}

CallInOrder(c) ==
  /\ pc[c] = "write" => ~heap[resp[c]].done
  /\ pc[c] = "read" => heap[resp[c]].done
  /\ Registered(c) /\ heap[resp[c]].done => heap[resp[c]].response # NoReply
  /\ Registered(c) /\ heap[resp[c]].notified => heap[resp[c]].done

Orderly ==
  /\ ~dangled /\ mpc # "cleanup" /\ (mpc = "signal" => mreply # NoReply)
  /\ OnItsWay
  /\ \A c \in Callers : CallInOrder(c)

\* The caller that waits for an outstanding reply is the one with its xid.
LEMMA WaiterIsKnown ==
  ASSUME IndInv, Orderly, NEW x \in Xids, Outstanding(x),
         NEW c \in Callers, xid[c] = x
  PROVE  Awaits(c, x)
  <1>1. PICK d \in Callers : Awaits(d, x)
    BY DEF Orderly, OnItsWay
  <1>2. d = c
    BY <1>1 DEF Awaits, IndInv, XidsAreUnique, Xids, NoReply
  <1>3. QED
    BY <1>1, <1>2

\* A new call and one that is over are waited for by nobody.
LEMMA CreateKeepsOrder ==
  ASSUME IndInv, Orderly, NEW c \in Callers, CreateRequest(c)
  PROVE  Orderly'
  <1> USE DEF networkVars, managerVars
  <1>t. /\ pc \in [Callers -> Positions] /\ xid \in [Callers -> Xids \cup {NoReply}]
        /\ TypeOK /\ issued \in Nat
    BY DEF IndInv, TypeOK
  <1>1. /\ pc[c] = "idle" /\ pc'[c] = "acquire"
        /\ \A d \in Callers \ {c} : pc'[d] = pc[d] /\ xid'[d] = xid[d]
        /\ UNCHANGED <<resp, heap, requests, replies, targets, mpc, mreply, dangled>>
    BY <1>t DEF CreateRequest, Goto
  <1>2. \A x \in Xids : Outstanding(x) => \E d \in Callers \ {c} : Awaits(d, x)
    BY <1>1 DEF Orderly, OnItsWay, Awaits
  <1>3. \A x \in Xids : Outstanding(x)' => \E d \in Callers : Awaits(d, x)'
    BY <1>1, <1>2 DEF Outstanding, Awaits
  <1>4. ASSUME NEW x \in Xids, NEW a \in Addrs, <<x, a>> \in targets
        PROVE  \E d \in Callers : xid'[d] = x /\ resp'[d] = a
    <2>1. PICK d \in Callers : xid[d] = x /\ resp[d] = a
      BY <1>4 DEF Orderly, OnItsWay
    <2>2. d # c
      BY <2>1, <1>1, <1>4, WaiterIsKnown DEF Outstanding, Awaits
    <2>3. QED
      BY <2>1, <2>2, <1>1
  <1>5. OnItsWay'
    BY <1>1, <1>3, <1>4 DEF Orderly, OnItsWay
  <1>6. ASSUME NEW d \in Callers PROVE CallInOrder(d)'
    BY <1>1 DEF Orderly, CallInOrder, Registered
  <1>7. QED
    BY <1>1, <1>5, <1>6 DEF Orderly

\* A step inside a call keeps the order of the other calls.
LEMMA OthersStayInOrder ==
  ASSUME IndInv, Orderly, NEW c \in Callers, InCall(c), NEW d \in Callers \ {c}
  PROVE  /\ CallInOrder(d)'
         /\ \A x \in Xids : Awaits(d, x) => Awaits(d, x)'
         /\ xid'[d] = xid[d] /\ resp'[d] = resp[d]
  <1>1. /\ pc'[d] = pc[d] /\ resp'[d] = resp[d] /\ xid' = xid
        /\ resp[d] # Null => heap'[resp[d]] = heap[resp[d]]
        /\ Registered(d) => resp[d] # Null
    BY CallerStep, HeapFrame DEF IndInv, RespondersAreOwned
  <1>2. CallInOrder(d)
    BY DEF Orderly
  <1>3. CallInOrder(d)'
    BY <1>1, <1>2 DEF CallInOrder, Registered
  <1>4. \A x \in Xids : Awaits(d, x) => Awaits(d, x)'
    BY <1>1 DEF Awaits, Registered
  <1>5. QED
    BY <1>1, <1>3, <1>4

\* A step inside a call keeps the call's own order: a wait ends with a reply.
LEMMA CallStaysInOrder ==
  ASSUME IndInv, Orderly, Reliable, NEW c \in Callers, InCall(c)
  PROVE  /\ CallInOrder(c)'
         /\ \A x \in Xids : Awaits(c, x) => Awaits(c, x)' /\ resp'[c] = resp[c]
  <1> USE DEF Goto
  <1>t. /\ pc \in [Callers -> Positions] /\ heap \in [Addrs -> Responders]
        /\ resp \in [Callers -> Addrs \cup {Null}] /\ TypeOK
        /\ Registered(c) => resp[c] \in Addrs /\ heap[resp[c]] \in Responders
    BY DEF IndInv, TypeOK, RespondersAreOwned
  <1>o. CallInOrder(c)
    BY DEF Orderly
  <1>u. xid' = xid
    BY <1>t, CallerStep
  <1>1. CASE Acquire(c) \/ RemovePending(c) \/ Return(c)
    BY <1>1, <1>t DEF Acquire, RemovePending, Return, CallInOrder, Registered, Awaits
  <1>2. CASE Register(c)
    <2>1. table[xid[c]] = Null
      BY <1>2, NotYetPending DEF IndInv, Register, Registered
    <2>2. PICK a \in Addrs : /\ heap' = [heap EXCEPT ![a] = [Free EXCEPT !.live = TRUE]]
                             /\ resp' = [resp EXCEPT ![c] = a]
      BY <1>2, <2>1 DEF Register
    <2>3. ~heap'[resp'[c]].done /\ ~heap'[resp'[c]].notified
      BY <2>2, <1>t DEF Free
    <2>4. pc[c] = "register" /\ pc'[c] = "write"
      BY <1>2, <2>1, <1>t DEF Register
    <2>5. QED
      BY <2>3, <2>4 DEF CallInOrder, Awaits
  <1>3. CASE Write(c) \/ WriteFails(c)
    BY <1>3, <1>t, <1>o DEF Write, WriteFails, NextAttempt, CallInOrder, Registered, Awaits
  <1>4. CASE BeginWait(c)
    <2>1. CASE heap[resp[c]].done
      BY <1>4, <2>1, <1>t, <1>o DEF BeginWait, CallInOrder, Registered, Awaits
    <2>2. CASE ~heap[resp[c]].done
      <3> DEFINE r == [heap[resp[c]] EXCEPT !.wait = TRUE, !.response = NoReply]
      <3>1. /\ Registered(c) /\ heap' = [heap EXCEPT ![resp[c]] = r]
            /\ resp' = resp /\ pc'[c] = "blocked"
        BY <1>4, <2>2, <1>t DEF BeginWait, Registered
      <3>2. ~r.done /\ r.notified = heap[resp[c]].notified
        BY <2>2, <3>1, <1>t DEF Responders
      <3>3. heap'[resp'[c]] = r
        BY <3>1, <1>t
      <3> HIDE DEF r
      <3>4. QED
        BY <3>1, <3>2, <3>3, <1>o, <1>u, <2>2 DEF CallInOrder, Awaits
    <2>3. QED
      BY <2>1, <2>2
  <1>5. CASE Wake(c)
    <2>1. pc[c] = "blocked" /\ heap[resp[c]].notified /\ Registered(c)
      BY <1>5 DEF Wake, Reliable, Registered
    <2>2. heap[resp[c]].done /\ heap[resp[c]].response # NoReply
      BY <2>1, <1>o DEF CallInOrder
    <2> DEFINE r == [heap[resp[c]] EXCEPT !.wait = FALSE, !.notified = FALSE]
    <2>3. /\ heap' = [heap EXCEPT ![resp[c]] = r] /\ resp' = resp /\ pc'[c] = "read"
      BY <1>5, <1>t DEF Wake
    <2>4. r.done /\ r.response # NoReply /\ ~r.notified
      BY <2>1, <2>2, <1>t DEF Responders
    <2>5. heap'[resp'[c]] = r
      BY <2>1, <2>3, <1>t
    <2> HIDE DEF r
    <2>6. QED
      BY <2>2, <2>3, <2>4, <2>5 DEF CallInOrder, Awaits
  <1>6. CASE ReadReply(c)
    <2>1. heap[resp[c]].done /\ heap[resp[c]].response # NoReply
      BY <1>6, <1>o DEF ReadReply, CallInOrder, Registered
    <2>2. UNCHANGED <<heap, resp>> /\ pc'[c] = "remove" /\ pc[c] = "read"
      BY <1>6, <2>1, <1>t DEF ReadReply
    <2>3. QED
      BY <2>1, <2>2 DEF CallInOrder, Awaits
  <1>7. QED
    BY <1>1, <1>2, <1>3, <1>4, <1>5, <1>6 DEF InCall

\* A step inside a call: only Write puts something on its way, its own request,
\* of which nothing was on its way before.
LEMMA CallKeepsOrder ==
  ASSUME IndInv, Orderly, Reliable, NEW c \in Callers, InCall(c)
  PROVE  Orderly'
  <1>t. TypeOK /\ pc[c] # "idle" /\ xid[c] \in Xids /\ xid' = xid
    <2>1. TypeOK /\ XidsAreUnique
      BY DEF IndInv
    <2>2. pc[c] # "idle" /\ xid' = xid
      BY <2>1, CallerStep
    <2>3. QED
      BY <2>1, <2>2 DEF TypeOK, XidsAreUnique
  <1>1. /\ UNCHANGED <<replies, targets, mpc, mreply, dangled>>
        /\ ~Write(c) => requests' = requests
    BY DEF InCall, Acquire, Register, Write, WriteFails, BeginWait, Wake, ReadReply,
           RemovePending, Return, networkVars, managerVars
  <1>2. ASSUME NEW d \in Callers PROVE CallInOrder(d)'
    BY CallStaysInOrder, OthersStayInOrder
  <1>3. ASSUME NEW d \in Callers, NEW x \in Xids, Awaits(d, x)
        PROVE  Awaits(d, x)' /\ xid'[d] = x /\ resp'[d] = resp[d]
    BY <1>3, <1>t, CallStaysInOrder, OthersStayInOrder DEF Awaits
  <1>4. ASSUME Write(c)
        PROVE  /\ ~Outstanding(xid[c]) /\ requests' = requests \cup {xid[c]}
               /\ Awaits(c, xid[c])'
    <2>1. ~Outstanding(xid[c])
      BY <1>4, <1>t, WaiterIsKnown DEF Write, Awaits
    <2>2. ~heap[resp[c]].done
      BY <1>4 DEF Write, Orderly, CallInOrder
    <2>3. UNCHANGED <<heap, resp>> /\ pc'[c] = "wait" /\ requests' = requests \cup {xid[c]}
      BY <1>4, <1>t DEF Write, Goto, TypeOK
    <2>4. QED
      BY <2>1, <2>2, <2>3, <1>t DEF Awaits
  <1>5. ASSUME NEW x \in Xids, Outstanding(x)' PROVE \E d \in Callers : Awaits(d, x)'
    <2>1. CASE Outstanding(x)
      BY <2>1, <1>3 DEF Orderly, OnItsWay
    <2>2. CASE ~Outstanding(x)
      <3>1. x \in requests' \ requests
        BY <2>2, <1>1, <1>5 DEF Outstanding
      <3>2. Write(c)
        BY <3>1, <1>1
      <3>3. x = xid[c] /\ Awaits(c, xid[c])'
        BY <3>1, <3>2, <1>4
      <3>4. Awaits(c, x)'
        BY <3>3, <1>t DEF Awaits
      <3>5. QED
        BY <3>4
    <2>3. QED
      BY <2>1, <2>2
  <1>6. ASSUME NEW x \in Xids, NEW a \in Addrs, <<x, a>> \in targets
        PROVE  /\ x \notin requests' \cup replies'
               /\ \E d \in Callers : xid'[d] = x /\ resp'[d] = a
    <2>1. Outstanding(x) /\ x \notin requests \cup replies
      BY <1>6 DEF Outstanding, Orderly, OnItsWay
    <2>2. PICK d \in Callers : xid[d] = x /\ resp[d] = a
      BY <1>6 DEF Orderly, OnItsWay
    <2>3. Awaits(d, x)
      BY <2>1, <2>2, WaiterIsKnown
    <2>4. QED
      BY <2>1, <2>2, <2>3, <1>1, <1>3, <1>4
  <1>7. requests' \cap replies' = {}
    BY <1>1, <1>4 DEF Outstanding, Orderly, OnItsWay
  <1>8. OnItsWay'
    BY <1>1, <1>5, <1>6, <1>7 DEF OnItsWay
  <1>9. QED
    BY <1>1, <1>2, <1>8 DEF Orderly

\* The manager takes a reply to the call that waits for it, and signals it.
LEMMA ReceiveKeepsOrder ==
  ASSUME IndInv, Orderly, Reliable, NEW x \in Xids, Receive(x)
  PROVE  Orderly'
  <1>1. /\ x \in replies /\ replies' = replies \ {x} /\ x \notin requests
        /\ UNCHANGED <<requests, heap, pc, xid, resp, dangled>>
        /\ targets = {} /\ mpc = "idle"
    BY DEF Receive, Reliable, callerVars, Orderly, OnItsWay, IndInv, Handshake
  <1>2. PICK c \in Callers : Awaits(c, x)
    BY <1>1 DEF Orderly, OnItsWay, Outstanding
  <1>3. table[x] = resp[c] /\ resp[c] # Null
    BY <1>1, <1>2 DEF Awaits, IndInv, Handshake, RespondersAreOwned, Registered
  <1>4. targets' = {<<x, resp[c]>>} /\ mpc' = "signal" /\ mreply' = x
    BY <1>3 DEF Receive
  <1>5. \A y \in Xids : Outstanding(y)' => Outstanding(y)
    BY <1>1, <1>4 DEF Outstanding
  <1>6. \A y \in Xids, d \in Callers : Awaits(d, y)' = Awaits(d, y)
    BY <1>1 DEF Awaits
  <1>7. OnItsWay'
    <2>1. \A y \in Xids : Outstanding(y)' => \E d \in Callers : Awaits(d, y)'
      BY <1>5, <1>6 DEF Orderly, OnItsWay
    <2>2. xid'[c] = x /\ resp'[c] = resp[c]
      BY <1>1, <1>2 DEF Awaits
    <2>3. \A y \in Xids, a \in Addrs : <<y, a>> \in targets' =>
            /\ y \notin requests' \cup replies'
            /\ \E d \in Callers : xid'[d] = y /\ resp'[d] = a
      BY <1>1, <1>4, <2>2
    <2>4. requests' \cap replies' = {}
      BY <1>1 DEF Orderly, OnItsWay
    <2>5. QED
      BY <2>1, <2>3, <2>4 DEF OnItsWay
  <1>8. \A d \in Callers : CallInOrder(d)'
    BY <1>1 DEF Orderly, CallInOrder, Registered
  <1>9. QED
    BY <1>1, <1>4, <1>7, <1>8 DEF Orderly, Xids, NoReply

\* A signal gives the waiting call its reply, and nothing of it is left outstanding.
LEMMA SignalKeepsOrder ==
  ASSUME IndInv, Orderly, NEW x \in Xids, NEW a \in Addrs, SignalReady(x, a)
  PROVE  Orderly'
  <1>t. /\ TypeOK /\ RespondersAreOwned /\ OwnReplies
        /\ \A d \in Callers : Registered(d) => resp[d] \in Addrs
    BY DEF IndInv, TypeOK, RespondersAreOwned
  <1>1. /\ <<x, a>> \in targets /\ targets' = targets \ {<<x, a>>} /\ mpc = "signal"
        /\ mpc' \in {"idle", "signal"}
        /\ dangled' = (dangled \/ ~ \E c \in Callers : xid[c] = x /\ resp[c] = a)
        /\ UNCHANGED <<requests, replies, pc, xid, resp, mreply>>
    BY DEF SignalReady, callerVars, networkVars
  <1>2. PICK c \in Callers : xid[c] = x /\ resp[c] = a
    BY <1>1 DEF Orderly, OnItsWay
  <1>3. ~dangled'
    BY <1>1, <1>2 DEF Orderly
  <1>4. Awaits(c, x)
    BY <1>1, <1>2, WaiterIsKnown DEF Outstanding
  <1>5. /\ \A b \in Addrs \ {a} : heap'[b] = heap[b]
        /\ heap'[a].done /\ heap'[a].response = mreply /\ mreply # NoReply
    BY <1>1, <1>t, SignalEffect DEF Orderly
  <1>6. \A d \in Callers \ {c} : resp[d] # a
    BY <1>2, <1>t DEF RespondersAreOwned
  <1>7. ASSUME NEW y \in Xids, Outstanding(y)' PROVE \E d \in Callers : Awaits(d, y)'
    <2>1. Outstanding(y)
      BY <1>1, <1>7 DEF Outstanding
    <2>2. PICK d \in Callers : Awaits(d, y)
      BY <2>1 DEF Orderly, OnItsWay
    <2>3. d # c
      <3>1. SUFFICES ASSUME d = c PROVE FALSE
        OBVIOUS
      <3>2. y = x
        BY <2>2, <3>1, <1>2 DEF Awaits
      <3>3. x \notin requests \cup replies
        BY <1>1 DEF Orderly, OnItsWay
      <3>4. PICK b \in Addrs : <<x, b>> \in targets /\ b # a
        BY <3>2, <3>3, <1>1, <1>7 DEF Outstanding
      <3>5. PICK e \in Callers : xid[e] = x /\ resp[e] = b
        BY <3>4 DEF Orderly, OnItsWay
      <3>6. e = c
        BY <3>5, <1>2 DEF IndInv, XidsAreUnique, Xids, NoReply
      <3>7. QED
        BY <3>4, <3>5, <3>6, <1>2
    <2>4. Awaits(d, y)'
      <3>1. resp[d] \in Addrs \ {a}
        BY <2>2, <2>3, <1>6, <1>t DEF Awaits, Registered
      <3>2. QED
        BY <2>2, <3>1, <1>1, <1>5 DEF Awaits
    <2>5. QED
      BY <2>4
  <1>8. OnItsWay'
    BY <1>1, <1>7 DEF Orderly, OnItsWay
  <1>9. ASSUME NEW d \in Callers PROVE CallInOrder(d)'
    <2>1. CASE d = c
      BY <2>1, <1>1, <1>2, <1>4, <1>5 DEF CallInOrder, Awaits
    <2>2. CASE d # c
      <3>1. Registered(d) => heap'[resp[d]] = heap[resp[d]]
        BY <2>2, <1>5, <1>6, <1>t
      <3>2. QED
        BY <3>1, <1>1 DEF Orderly, CallInOrder, Registered
    <2>3. QED
      BY <2>1, <2>2
  <1>10. QED
    BY <1>1, <1>3, <1>5, <1>8, <1>9 DEF Orderly

\* Every step keeps the order; where nothing closes there is no cleanup.
LEMMA OrderlyStep ==
  ASSUME IndInv, Orderly, Reliable, [Next]_vars
  PROVE  Orderly'
  <1>1. ASSUME NEW x \in Xids, Answer(x) \/ Lose(x) PROVE Orderly'
    <2>1. /\ UNCHANGED <<heap, pc, xid, resp, mpc, mreply, targets, dangled>>
          /\ requests' \cup replies' \subseteq requests \cup replies
          /\ requests' \cap replies' = {}
      BY <1>1 DEF Answer, Lose, callerVars, managerVars, Orderly, OnItsWay
    <2>2. \A y \in Xids : Outstanding(y)' => Outstanding(y)
      BY <2>1 DEF Outstanding
    <2>3. \A y \in Xids, d \in Callers : Awaits(d, y)' = Awaits(d, y)
      BY <2>1 DEF Awaits
    <2>4. OnItsWay'
      BY <2>1, <2>2, <2>3 DEF Orderly, OnItsWay
    <2>5. QED
      BY <2>1, <2>4 DEF Orderly, CallInOrder, Registered
  <1>2. CASE UNCHANGED vars
    BY <1>2 DEF vars, callerVars, networkVars, managerVars, Orderly, OnItsWay, Awaits,
                Outstanding, CallInOrder, Registered
  <1>3. ~Close /\ ~Cleanup
    BY DEF Close, Cleanup, Reliable, Orderly
  <1>4. QED
    BY <1>1, <1>2, <1>3, CreateKeepsOrder, CallKeepsOrder, ReceiveKeepsOrder,
       SignalKeepsOrder DEF Next, Manager

LEMMA InitOrderly == Init => Orderly
  BY DEF Init, Orderly, OnItsWay, Outstanding, CallInOrder, Registered

\* Seen from outside, CreateRequest begins a call, Return ends it with the call's
\* own reply or none, and no other step shows.
LEMMA ServiceStep ==
  ASSUME IndInv, Orderly, [Next]_vars
  PROVE  [Service!Next]_Service!vars
  <1> USE DEF Goto
  <1> DEFINE Busy == [c \in Callers |-> pc[c] # "idle"]
             Given == [c \in Callers |-> IF pc[c] = "idle" THEN got[c] ELSE 0]
  <1>t. /\ pc \in [Callers -> Positions] /\ xid \in [Callers -> Xids \cup {NoReply}]
        /\ got \in [Callers -> Xids \cup {NoReply}]
    BY DEF IndInv, TypeOK
  <1>1. ASSUME NEW c \in Callers, CreateRequest(c) PROVE Service!Begin(c)
    <2>1. /\ pc[c] = "idle" /\ issued < MaxXid /\ issued' = issued + 1
          /\ xid' = [xid EXCEPT ![c] = issued + 1]
          /\ pc' = [pc EXCEPT ![c] = "acquire"] /\ got' = [got EXCEPT ![c] = NoReply]
      BY <1>1 DEF CreateRequest
    <2>2. Busy' = [Busy EXCEPT ![c] = TRUE] /\ ~Busy[c]
      BY <2>1, <1>t
    <2>3. Given' = [Given EXCEPT ![c] = 0]
      BY <2>1, <1>t DEF NoReply
    <2>4. QED
      BY <2>1, <2>2, <2>3 DEF Service!Begin
  <1>2. ASSUME NEW c \in Callers, Return(c) PROVE Service!End(c)
    <2>1. /\ pc[c] = "return" /\ pc' = [pc EXCEPT ![c] = "idle"]
          /\ UNCHANGED <<issued, xid, got>>
      BY <1>2 DEF Return
    <2>2. got[c] \in {0, xid[c]}
      BY DEF IndInv, OwnReplies, Orderly, NoReply
    <2>3. Busy' = [Busy EXCEPT ![c] = FALSE] /\ Busy[c]
      BY <2>1, <1>t
    <2>4. Given' = [Given EXCEPT ![c] = got[c]]
      BY <2>1, <1>t
    <2>5. QED
      BY <2>1, <2>2, <2>3, <2>4 DEF Service!End
  <1>3. ASSUME NEW c \in Callers,
               \/ Acquire(c) \/ Register(c) \/ Write(c) \/ WriteFails(c)
               \/ BeginWait(c) \/ Wake(c) \/ ReadReply(c) \/ RemovePending(c)
        PROVE  UNCHANGED Service!vars
    <2>1. /\ UNCHANGED <<issued, xid>> /\ pc[c] # "idle"
          /\ \E to \in Positions \ {"idle"} : pc' = [pc EXCEPT ![c] = to]
          /\ got' = [got EXCEPT ![c] = got'[c]]
      BY <1>3, <1>t DEF Acquire, Register, Write, WriteFails, NextAttempt, BeginWait, Wake,
                  ReadReply, RemovePending, Positions
    <2>2. Busy' = Busy /\ Given' = Given
      BY <2>1, <1>t
    <2>3. QED
      BY <2>1, <2>2 DEF Service!vars
  <1>4. CASE Manager \/ Close \/ (\E x \in Xids : Answer(x) \/ Lose(x))
    <2>1. UNCHANGED <<issued, pc, xid, got>>
      BY <1>4, OtherStep DEF callerVars
    <2>2. QED
      BY <2>1 DEF Service!vars
  <1>5. CASE UNCHANGED vars
    BY <1>5 DEF vars, callerVars, Service!vars
  <1>6. QED
    BY <1>1, <1>2, <1>3, <1>4, <1>5 DEF Next, InCall, Service!Next

\* Where no call gives up early, no reply comes twice and nothing is closed, sendAndWait
\* keeps its promise: every call ends with the reply to its own xid or none
\* (RpcConnection.cpp:404), whatever is lost and however often connecting fails.
THEOREM ServiceImplemented ==
  ASSUME Reliable
  PROVE  Spec => ServiceSpec
  <1>1. Init => Service!Init
    BY DEF Init, Service!Init, NoReply
  <1>2. Reliable /\ IndInv /\ Orderly /\ [Next]_vars => Orderly'
    BY OrderlyStep
  <1>3. IndInv /\ Orderly /\ [Next]_vars => [Service!Next]_Service!vars
    BY ServiceStep
  <1>4. Reliable
    OBVIOUS
  <1>5. IndInv /\ Orderly /\ [Next]_vars => Orderly'
    BY <1>2, <1>4
  <1>6. QED
    BY <1>1, <1>3, <1>5, InitOrderly, Invariance, PTL DEF Spec, ServiceSpec, Service!Spec

-----------------------------------------------------------------------------
(***************************************************************************)
(* A reply that has been handed over.                                       *)
(***************************************************************************)
\* No step of a call takes its own reply out of its Responder, none of another call
\* reaches it, and a signal brings what it is meant to.
LEMMA ReplyStays ==
  ASSUME IndInv, [Next]_vars, NEW c \in Callers,
         pc[c] \in {"write", "wait", "blocked", "read"}, heap[resp[c]].done,
         heap[resp[c]].response = xid[c], heap'[resp[c]].response # xid[c]
  PROVE  \E x \in Xids : /\ <<x, resp[c]>> \in targets \ targets'
                         /\ mreply = NoReply \/ x # xid[c]
  <1> DEFINE Moved == heap'[resp[c]].response # heap[resp[c]].response
  <1>1. /\ heap \in [Addrs -> Responders] /\ resp[c] \in Addrs /\ resp[c] # Null
        /\ TypeOK /\ RespondersAreOwned
    BY DEF IndInv, TypeOK, RespondersAreOwned, Registered
  <1>2. heap[resp[c]] \in Responders
    BY <1>1
  <1>3. ASSUME InCall(c)
        PROVE  ~Moved
    <2>1. CASE Wake(c)
      BY <1>1, <1>2, <2>1 DEF Wake, Responders
    <2>2. CASE Write(c) \/ WriteFails(c) \/ BeginWait(c) \/ ReadReply(c)
      BY <2>2 DEF Write, WriteFails, BeginWait, ReadReply, networkVars
    <2>3. ~(Acquire(c) \/ Register(c) \/ RemovePending(c) \/ Return(c))
      BY DEF Acquire, Register, RemovePending, Return
    <2>4. QED
      BY <1>3, <2>1, <2>2, <2>3 DEF InCall
  <1>4. ASSUME NEW d \in Callers \ {c}, InCall(d)
        PROVE  ~Moved
    BY <1>1, <1>4, HeapFrame
  <1>5. CASE \/ \E x \in Xids : Receive(x) \/ Answer(x) \/ Lose(x)
             \/ Cleanup \/ Close \/ (\E d \in Callers : CreateRequest(d))
             \/ UNCHANGED vars
    BY <1>5 DEF Receive, Answer, Lose, Cleanup, Close, CreateRequest, vars
  <1>6. ASSUME NEW x \in Xids, NEW a \in Addrs, SignalReady(x, a)
        PROVE  /\ <<x, resp[c]>> \in targets \ targets'
               /\ mreply = NoReply \/ x # xid[c]
    <2>1. a = resp[c] /\ heap'[a].response = mreply
      BY <1>1, <1>6, SignalEffect
    <2>2. <<x, a>> \in targets /\ targets' = targets \ {<<x, a>>}
      BY <1>6 DEF SignalReady
    <2>3. mreply \in {NoReply, x}
      BY <2>2 DEF IndInv, OwnReplies
    <2>4. QED
      BY <2>1, <2>2, <2>3
  <1>7. QED
    BY <1>3, <1>4, <1>5, <1>6 DEF Next, Manager

\* What Responder::signalReady has handed over stays until getReply has read it, with
\* any faults: waitForResponse clears m_response only where m_done says that nothing
\* has come, and only a close or a signal that dangles writes over it.
THEOREM RepliesAreKept == Spec => DeliveredReplyIsKept
  <1> DEFINE Kept ==
        \A c \in Callers :
          /\ pc[c] \in {"write", "wait", "blocked", "read"}
          /\ heap[resp[c]].done /\ heap[resp[c]].response = xid[c]
          /\ heap'[resp[c]].response # xid[c]
          => \E x \in Xids : /\ <<x, resp[c]>> \in targets \ targets'
                             /\ mreply = NoReply \/ x # xid[c]
  <1>1. IndInv /\ [Next]_vars => [Kept]_vars
    BY ReplyStays
  <1>2. QED
    BY <1>1, Invariance, PTL DEF Spec, DeliveredReplyIsKept
=============================================================================
