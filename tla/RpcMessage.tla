------------------------------ MODULE RpcMessage ------------------------------
(***************************************************************************)
(* The header of an RPC call and of its reply: what the client writes and     *)
(* reads (RpcPacket), and what the protocol says they are (RFC 5531).          *)
(***************************************************************************)
EXTENDS XdrItem
LOCAL INSTANCE Naturals
LOCAL INSTANCE Sequences
LOCAL INSTANCE TLC

RPC_CALL == 0
RPC_REPLY == 1
AUTHTYPE_NULL == 0
AUTHTYPE_UNIX == 1

\* RpcPacket::encodeHeader; initDefaultUnixAuth makes the credential: a stamp, a
\* host name of 3 bytes, the user and the group 0, no other groups.
defaultUnixAuth == <<0, 3, Junk, 0, 0, 0>>
encodeHeader(xid, proc) ==
  <<xid, RPC_CALL, 2, proc.prog, proc.vers, proc.proc, AUTHTYPE_UNIX,
    4 * Len(defaultUnixAuth)>> \o defaultUnixAuth \o <<AUTHTYPE_NULL, 0>>

\* RpcPacket::decodeHeader and xdrSkipOpaqueAuth
decodeHeader ==
  <<U32("xid"), Sw("call", RPC_REPLY :>
      <<Sw("reply_stat", 0 :> <<U32("verf.flavor"), Str("verf.body"), U32("accept_stat")>>)>>)>>

(***************************************************************************)
(* call_body and reply_body of the protocol.                                *)
(***************************************************************************)
call_header == <<U32("xid"), U32("call"), U32("rpcvers"), U32("prog"), U32("vers"),
                 U32("proc"), U32("cred.flavor"), Str("cred.body"),
                 U32("verf.flavor"), Str("verf.body")>>

MSG_ACCEPTED == 0
MSG_DENIED   == 1
SUCCESS      == 0
SYSTEM_ERR   == 5
GARBAGE_ARGS == 4

accepted_reply == <<U32("verf.flavor"), Str("verf.body"), Num("accept_stat")>>
rejected_reply == <<Sw("reject_stat", (0 :> <<U32("low"), U32("high")>>) @@
                                      (1 :> <<U32("auth_stat")>>))>>
reply_header == <<U32("xid"), Num("call"),
                  Sw("reply_stat", (MSG_ACCEPTED :> accepted_reply) @@
                                   (MSG_DENIED :> rejected_reply))>>
=============================================================================
