---------------------------- MODULE ReplyStream ----------------------------
(***************************************************************************)
(* What a TCP connection gives RpcConnection, seen from                    *)
(* matchPendingRequest: the server's replies one by one, in the order it   *)
(* sent them, until the connection is closed; one that is made again       *)
(* starts over with other replies.  How the bytes are cut into records,    *)
(* fragments and reads is not seen.                                        *)
(***************************************************************************)
EXTENDS Naturals, Sequences

CONSTANT Sendable    \* the sequences of replies a server may send

VARIABLES
  sent,        \* the replies the server sends on this connection
  delivered,   \* the replies handed to matchPendingRequest
  up           \* the connection has not been closed

vars == <<sent, delivered, up>>

Init == sent \in Sendable /\ delivered = <<>> /\ up = TRUE

\* recvPacket returns the next reply.
Deliver ==
  /\ up /\ Len(delivered) < Len(sent)
  /\ delivered' = Append(delivered, sent[Len(delivered) + 1])
  /\ UNCHANGED <<sent, up>>

\* closeConnection: the replies not delivered by then are lost.
Close == up /\ up' = FALSE /\ UNCHANGED <<sent, delivered>>

\* The connection is made again.
Connect == ~up /\ up' = TRUE /\ sent' \in Sendable /\ delivered' = <<>>

Next == Deliver \/ Close \/ Connect

Spec == Init /\ [][Next]_vars

=============================================================================
