----------------------------- MODULE RpcService -----------------------------
(***************************************************************************)
(* What RpcConnection::sendAndWait promises the threads that share a       *)
(* connection, with no table, no Responder and no second thread: a call    *)
(* takes an xid of its own and ends with the reply to that xid or with no  *)
(* reply at all.  RpcChannel implements this (its property ServiceSpec).   *)
(***************************************************************************)
EXTENDS Naturals

CONSTANTS
  Callers,  \* threads that issue RPCs
  MaxXid    \* bound: how many calls are made in all

VARIABLES
  issued,  \* xids given out so far
  busy,    \* which callers are inside sendAndWait
  call,    \* the xid of each caller's last call
  answer   \* the xid whose reply that call returned, 0 for none

vars == <<issued, busy, call, answer>>

Init ==
  /\ issued = 0
  /\ busy = [c \in Callers |-> FALSE]
  /\ call = [c \in Callers |-> 0]
  /\ answer = [c \in Callers |-> 0]

Begin(c) ==
  /\ ~busy[c] /\ issued < MaxXid
  /\ issued' = issued + 1
  /\ busy' = [busy EXCEPT ![c] = TRUE]
  /\ call' = [call EXCEPT ![c] = issued + 1]
  /\ answer' = [answer EXCEPT ![c] = 0]

End(c) ==
  /\ busy[c]
  /\ busy' = [busy EXCEPT ![c] = FALSE]
  /\ \E r \in {0, call[c]} : answer' = [answer EXCEPT ![c] = r]
  /\ UNCHANGED <<issued, call>>

Next == \E c \in Callers : Begin(c) \/ End(c)

Spec == Init /\ [][Next]_vars

=============================================================================
