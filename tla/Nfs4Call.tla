------------------------------- MODULE Nfs4Call -------------------------------
(***************************************************************************)
(* COMPOUNDCall: what encode_OP_X writes and what decode_OP_X reads, for      *)
(* each operation X of NFSv4, and the search for an operation's result.        *)
(* Every definition follows the calls its two functions make on the packet,   *)
(* in their order and under their conditions.                               *)
(***************************************************************************)
EXTENDS Fattr4
LOCAL INSTANCE Naturals
LOCAL INSTANCE Sequences
LOCAL INSTANCE TLC

\* "if (opSts != NFS4_OK) return 0;" after the status
OkThen(body) == <<Sw("status", NFS4_OK :> body)>>
StatusRead   == <<U32("status")>>

\* A mutant: the bits the server supports are not read.
OP_ACCESS_NoSupported == [enc |-> <<U32("access")>>, dec |-> OkThen(<<U32("access")>>)]
OP_ACCESS == [enc |-> <<U32("access")>>,
              dec |-> OkThen(<<U32("supported"), U32("access")>>)]
\* A mutant: the order of OPEN_CONFIRM.
OP_CLOSE_SeqidLast ==
  [enc |-> <<U32("open_stateid.seqid"), Fix("open_stateid.other", 12), U32("seqid")>>,
   dec |-> OkThen(<<U32("open_stateid.seqid"), Fix("open_stateid.other", 12)>>)]
OP_CLOSE == [enc |-> <<U32("seqid"), U32("open_stateid.seqid"), Fix("open_stateid.other", 12)>>,
             dec |-> OkThen(<<U32("open_stateid.seqid"), Fix("open_stateid.other", 12)>>)]
OP_COMMIT == [enc |-> <<U64("offset"), U32("count")>>,
              dec |-> OkThen(<<Fix("writeverf", 8)>>)]
\* The link's target and the device numbers are never written.
OP_CREATE == [enc |-> <<U32("type"), Str("objname")>> \o encode_fattr4("createattrs"),
              dec |-> OkThen(<<U32("cinfo.atomic"), U64("cinfo.before"),
                               U64("cinfo.after"), Bits("attrset")>>)]
OP_DELEGPURGE == [enc |-> <<U64("clientid")>>, dec |-> StatusRead]
OP_DELEGRETURN == [enc |-> <<U32("deleg_stateid.seqid"), Fix("deleg_stateid.other", 12)>>,
                   dec |-> StatusRead]
OP_GETATTR == [enc |-> <<Bits("attr_request")>>,
               dec |-> OkThen(<<Bits("obj_attributes.attrmask"),
                                Raw("obj_attributes.attr_vals")>>)]
OP_GETFH == [enc |-> << >>, dec |-> OkThen(<<Str("object")>>)]
OP_LINK == [enc |-> <<Str("newname")>>,
            dec |-> OkThen(<<U32("cinfo.atomic"), U64("cinfo.before"), U64("cinfo.after")>>)]

DeniedRead == <<U64("offset"), U64("length"), U32("locktype"), U64("owner.clientid"),
                Str("owner.owner")>>
OP_LOCK ==
  [enc |-> <<U32("locktype"), U32("reclaim"), U64("offset"), U64("length"),
             Sw("new_lock_owner",
                (1 :> <<U32("open_seqid"), U32("open_stateid.seqid"),
                        Fix("open_stateid.other", 12), U32("lock_seqid"),
                        U64("lock_owner.clientid"), Str("lock_owner.owner")>>) @@
                (0 :> <<U32("lock_stateid.seqid"), Fix("lock_stateid.other", 12),
                        U32("lock_seqid")>>))>>,
   dec |-> <<Sw("status",
                (NFS4_OK :> <<U32("lock_stateid.seqid"), Fix("lock_stateid.other", 12)>>) @@
                (NFS4ERR_DENIED :> DeniedRead))>>]
OP_LOCKT == [enc |-> <<U32("locktype"), U64("offset"), U64("length"),
                       U64("owner.clientid"), Str("owner.owner")>>,
             dec |-> <<Sw("status", NFS4ERR_DENIED :> DeniedRead)>>]
OP_LOCKU == [enc |-> <<U32("locktype"), U32("seqid"), U32("lock_stateid.seqid"),
                       Fix("lock_stateid.other", 12), U64("offset"), U64("length")>>,
             dec |-> OkThen(<<U32("lock_stateid.seqid"), Fix("lock_stateid.other", 12)>>)]
OP_LOOKUP == [enc |-> <<Str("objname")>>, dec |-> StatusRead]
OP_LOOKUPP == [enc |-> << >>, dec |-> StatusRead]
OP_NVERIFY == [enc |-> encode_fattr4("obj_attributes"), dec |-> StatusRead]

\* Only CLAIM_NULL writes anything after the claim, and only a name that is
\* not empty.  A delegation's body is left unread.
OP_OPEN ==
  [enc |-> <<U32("seqid"), U32("share_access"), U32("share_deny"),
             U64("owner.clientid"), Str("owner.owner"),
             Sw("opentype",
                OPEN4_CREATE :>
                  <<Sw("mode", (0 :> encode_fattr4("createattrs"))
                            @@ (1 :> encode_fattr4("createattrs"))
                            @@ (EXCLUSIVE4 :> <<Fix("createverf", 8)>>))>>),
             Sw("claim", 0 :> <<NonEmpty("file")>>)>>,
   dec |-> OkThen(<<U32("stateid.seqid"), Fix("stateid.other", 12), U32("cinfo.atomic"),
                    U64("cinfo.before"), U64("cinfo.after"), U32("rflags"),
                    Bits("attrset"), U32("delegation_type")>>)]
OP_OPENATTR == [enc |-> <<U32("createdir")>>, dec |-> StatusRead]
OP_OPEN_CONFIRM ==
  [enc |-> <<U32("open_stateid.seqid"), Fix("open_stateid.other", 12), U32("seqid")>>,
   dec |-> OkThen(<<U32("open_stateid.seqid"), Fix("open_stateid.other", 12)>>)]
OP_OPEN_DOWNGRADE ==
  [enc |-> <<U32("open_stateid.seqid"), Fix("open_stateid.other", 12), U32("seqid"),
             U32("share_access"), U32("share_deny")>>,
   dec |-> OkThen(<<U32("open_stateid.seqid"), Fix("open_stateid.other", 12)>>)]
OP_PUTFH == [enc |-> <<Str("object")>>, dec |-> StatusRead]
OP_PUTPUBFH == [enc |-> << >>, dec |-> StatusRead]
OP_PUTROOTFH == [enc |-> << >>, dec |-> StatusRead]
OP_READ == [enc |-> <<U32("stateid.seqid"), Fix("stateid.other", 12), U64("offset"),
                      U32("count")>>,
            dec |-> OkThen(<<U32("eof"), Str("data")>>)]
OP_READDIR ==
  [enc |-> <<U64("cookie"), Fix("cookieverf", 8), U32("dircount"), U32("maxcount"),
             Bits("attr_request")>>,
   dec |-> OkThen(<<Fix("cookieverf", 8),
                    List("entries", <<U64("cookie"), Str("name"), Bits("attrs.attrmask"),
                                      Raw("attrs.attr_vals")>>),
                    U32("eof")>>)]
OP_READLINK == [enc |-> << >>, dec |-> OkThen(<<Str("link")>>)]
OP_REMOVE == [enc |-> <<Str("target")>>,
              dec |-> OkThen(<<U32("cinfo.atomic"), U64("cinfo.before"), U64("cinfo.after")>>)]
OP_RENAME == [enc |-> <<Str("oldname"), Str("newname")>>,
              dec |-> OkThen(<<U32("source_cinfo.atomic"), U64("source_cinfo.before"),
                               U64("source_cinfo.after"), U32("target_cinfo.atomic"),
                               U64("target_cinfo.before"), U64("target_cinfo.after")>>)]
OP_RENEW == [enc |-> <<U64("clientid")>>, dec |-> StatusRead]
OP_RESTOREFH == [enc |-> << >>, dec |-> StatusRead]
OP_SAVEFH == [enc |-> << >>, dec |-> StatusRead]
\* Neither the name nor the result, its status included.
OP_SECINFO == [enc |-> << >>, dec |-> << >>]
OP_SETATTR == [enc |-> <<U32("stateid.seqid"), Fix("stateid.other", 12)>>
                         \o encode_fattr4("obj_attributes"),
               dec |-> <<U32("status"), Bits("attrsset")>>]
OP_SETCLIENTID ==
  [enc |-> <<Fix("verifier", 8), Str("id"), U32("cb_program"), Str("r_netid"),
             Str("r_addr"), U32("callback_ident")>>,
   dec |-> <<Sw("status",
                (NFS4_OK :> <<U64("clientid"), Fix("setclientid_confirm", 8)>>) @@
                (NFS4ERR_CLID_INUSE :> <<Str("r_netid"), Str("r_addr")>>))>>]
OP_SETCLIENTID_CONFIRM == [enc |-> <<U64("clientid"), Fix("setclientid_confirm", 8)>>,
                           dec |-> StatusRead]
\* The mask is written here and once more by encode_fattr4.
OP_VERIFY == [enc |-> <<Bits("obj_attributes.attrmask")>> \o encode_fattr4("obj_attributes"),
              dec |-> StatusRead]
OP_WRITE == [enc |-> <<U32("stateid.seqid"), Fix("stateid.other", 12), U64("offset"),
                       U32("stable"), Str("data")>>,
             dec |-> OkThen(<<U32("count"), U32("committed"), Fix("writeverf", 8)>>)]
OP_RELEASE_LOCKOWNER == [enc |-> <<U64("lock_owner.clientid"), Str("lock_owner.owner")>>,
                         dec |-> StatusRead]

\* The switches of encodeArguments and decodeResults.
Codec4 ==
  [OP_ACCESS |-> OP_ACCESS, OP_CLOSE |-> OP_CLOSE, OP_COMMIT |-> OP_COMMIT,
   OP_CREATE |-> OP_CREATE, OP_DELEGPURGE |-> OP_DELEGPURGE,
   OP_DELEGRETURN |-> OP_DELEGRETURN, OP_GETATTR |-> OP_GETATTR, OP_GETFH |-> OP_GETFH,
   OP_LINK |-> OP_LINK, OP_LOCK |-> OP_LOCK, OP_LOCKT |-> OP_LOCKT, OP_LOCKU |-> OP_LOCKU,
   OP_LOOKUP |-> OP_LOOKUP, OP_LOOKUPP |-> OP_LOOKUPP, OP_NVERIFY |-> OP_NVERIFY,
   OP_OPEN |-> OP_OPEN, OP_OPENATTR |-> OP_OPENATTR, OP_OPEN_CONFIRM |-> OP_OPEN_CONFIRM,
   OP_OPEN_DOWNGRADE |-> OP_OPEN_DOWNGRADE, OP_PUTFH |-> OP_PUTFH,
   OP_PUTPUBFH |-> OP_PUTPUBFH, OP_PUTROOTFH |-> OP_PUTROOTFH, OP_READ |-> OP_READ,
   OP_READDIR |-> OP_READDIR, OP_READLINK |-> OP_READLINK, OP_REMOVE |-> OP_REMOVE,
   OP_RENAME |-> OP_RENAME, OP_RENEW |-> OP_RENEW, OP_RESTOREFH |-> OP_RESTOREFH,
   OP_SAVEFH |-> OP_SAVEFH, OP_SECINFO |-> OP_SECINFO, OP_SETATTR |-> OP_SETATTR,
   OP_SETCLIENTID |-> OP_SETCLIENTID, OP_SETCLIENTID_CONFIRM |-> OP_SETCLIENTID_CONFIRM,
   OP_VERIFY |-> OP_VERIFY, OP_WRITE |-> OP_WRITE,
   OP_RELEASE_LOCKOWNER |-> OP_RELEASE_LOCKOWNER]

(***************************************************************************)
(* COMPOUNDCall::findOPIndex: the first result of the operation, 0 for -1.   *)
(***************************************************************************)
findOPIndex(results, op) ==
  LET is == {i \in 1..Len(results) : results[i].op = op}
  IN  IF is = {} THEN 0 ELSE CHOOSE i \in is : \A j \in is : i <= j
=============================================================================
