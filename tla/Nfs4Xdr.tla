------------------------------- MODULE Nfs4Xdr -------------------------------
(***************************************************************************)
(* The arguments and the results of the NFSv4 operations as nfs4.h declares  *)
(* them: the fields of each structure in order, and for each union the arm   *)
(* its discriminant selects.  This is what the peer of the client reads and  *)
(* writes; module Nfs4Call holds what the client itself encodes and decodes. *)
(***************************************************************************)
EXTENDS XdrLayout
LOCAL INSTANCE Naturals
LOCAL INSTANCE Sequences
LOCAL INSTANCE TLC

NFS4_OK             == 0
NFS4ERR_ACCESS      == 13
NFS4ERR_DENIED      == 10010
NFS4ERR_CLID_INUSE  == 10017
NF4DIR              == 2
NF4BLK              == 3
NF4CHR              == 4
NF4LNK              == 5
OPEN4_CREATE        == 1
EXCLUSIVE4          == 2

stateid4(n)     == <<U32(n \o ".seqid"), Fix(n \o ".other", 12)>>
change_info4(n) == <<U32(n \o ".atomic"), U64(n \o ".before"), U64(n \o ".after")>>
state_owner4(n) == <<U64(n \o ".clientid"), Str(n \o ".owner")>>
nfsace4(n)      == <<U32(n \o ".type"), U32(n \o ".flag"),
                     U32(n \o ".access_mask"), Str(n \o ".who")>>
nfstime4(n)     == <<U64(n \o ".seconds"), U32(n \o ".nseconds")>>
settime4(n)     == <<Sw(n \o ".set_it", 1 :> nfstime4(n))>>

(***************************************************************************)
(* The attributes the client asks for or sets, by number, and what each is.   *)
(***************************************************************************)
FATTR4_TYPE == 1
FATTR4_CHANGE == 3
FATTR4_SIZE == 4
FATTR4_FSID == 8
FATTR4_ACL == 12
FATTR4_FILEID == 20
FATTR4_FILES_AVAIL == 21
FATTR4_FILES_FREE == 22
FATTR4_FILES_TOTAL == 23
FATTR4_MAXNAME == 29
FATTR4_MODE == 33
FATTR4_NUMLINKS == 35
FATTR4_OWNER == 36
FATTR4_OWNER_GROUP == 37
FATTR4_RAWDEV == 41
FATTR4_SPACE_AVAIL == 42
FATTR4_SPACE_FREE == 43
FATTR4_SPACE_TOTAL == 44
FATTR4_SPACE_USED == 45
FATTR4_TIME_ACCESS == 47
FATTR4_TIME_ACCESS_SET == 48
FATTR4_TIME_METADATA == 52
FATTR4_TIME_MODIFY == 53
FATTR4_TIME_MODIFY_SET == 54
FATTR4_MOUNTED_ON_FILEID == 55

AttrValues ==
  (FATTR4_TYPE :> <<U32("fileType")>>) @@ (FATTR4_CHANGE :> <<U64("changeID")>>) @@
  (FATTR4_SIZE :> <<U64("size")>>) @@
  (FATTR4_FSID :> <<U64("fsid.major"), U64("fsid.minor")>>) @@
  (FATTR4_ACL :> <<Count("acl", nfsace4("ace"))>>) @@
  (FATTR4_FILEID :> <<U64("fid")>>) @@
  (FATTR4_FILES_AVAIL :> <<U64("files_avail")>>) @@
  (FATTR4_FILES_FREE :> <<U64("files_free")>>) @@
  (FATTR4_FILES_TOTAL :> <<U64("files_total")>>) @@
  (FATTR4_MAXNAME :> <<U32("name_max")>>) @@ (FATTR4_MODE :> <<U32("fmode")>>) @@
  (FATTR4_NUMLINKS :> <<U32("nlinks")>>) @@ (FATTR4_OWNER :> <<Str("owner")>>) @@
  (FATTR4_OWNER_GROUP :> <<Str("group")>>) @@
  (FATTR4_RAWDEV :> <<U64("rawDevice")>>) @@    \* specdata1 and specdata2
  (FATTR4_SPACE_AVAIL :> <<U64("bytes_avail")>>) @@
  (FATTR4_SPACE_FREE :> <<U64("bytes_free")>>) @@
  (FATTR4_SPACE_TOTAL :> <<U64("bytes_total")>>) @@
  (FATTR4_SPACE_USED :> <<U64("bytes_used")>>) @@
  (FATTR4_TIME_ACCESS :> nfstime4("time_access")) @@
  (FATTR4_TIME_ACCESS_SET :> settime4("time_access")) @@
  (FATTR4_TIME_METADATA :> nfstime4("time_metadata")) @@
  (FATTR4_TIME_MODIFY :> nfstime4("time_modify")) @@
  (FATTR4_TIME_MODIFY_SET :> settime4("time_modify")) @@
  (FATTR4_MOUNTED_ON_FILEID :> <<U64("mounted_on_fileid")>>)

fattr4(n) == <<Attrs(n, AttrValues)>>

\* The results that carry something only if the operation succeeded.
IfOk(body) == <<Sw("status", NFS4_OK :> body)>>
StatusOnly == <<Num("status")>>

ACCESS4 == [args |-> <<U32("access")>>,
            res  |-> IfOk(<<U32("supported"), U32("access")>>)]
CLOSE4 == [args |-> <<U32("seqid")>> \o stateid4("open_stateid"),
           res  |-> IfOk(stateid4("open_stateid"))]
COMMIT4 == [args |-> <<U64("offset"), U32("count")>>,
            res  |-> IfOk(<<Fix("writeverf", 8)>>)]
createtype4 == Sw("type", (NF4LNK :> <<Str("linkdata")>>)
                       @@ (NF4BLK :> <<U32("specdata1"), U32("specdata2")>>)
                       @@ (NF4CHR :> <<U32("specdata1"), U32("specdata2")>>))
CREATE4 == [args |-> <<createtype4, Str("objname")>> \o fattr4("createattrs"),
            res  |-> IfOk(change_info4("cinfo") \o <<Bits("attrset")>>)]
DELEGPURGE4 == [args |-> <<U64("clientid")>>, res |-> StatusOnly]
DELEGRETURN4 == [args |-> stateid4("deleg_stateid"), res |-> StatusOnly]
GETATTR4 == [args |-> <<Bits("attr_request")>>,
             res  |-> IfOk(fattr4("obj_attributes"))]
GETFH4 == [args |-> << >>, res |-> IfOk(<<Str("object")>>)]
LINK4 == [args |-> <<Str("newname")>>, res |-> IfOk(change_info4("cinfo"))]

open_to_lock_owner4 ==
  <<U32("open_seqid")>> \o stateid4("open_stateid") \o <<U32("lock_seqid")>>
    \o state_owner4("lock_owner")
exist_lock_owner4 == stateid4("lock_stateid") \o <<U32("lock_seqid")>>
locker4 == Sw("new_lock_owner", (1 :> open_to_lock_owner4) @@ (0 :> exist_lock_owner4))
LOCK4denied == <<U64("offset"), U64("length"), U32("locktype")>> \o state_owner4("owner")
LOCK4 == [args |-> <<U32("locktype"), U32("reclaim"), U64("offset"), U64("length"), locker4>>,
          res  |-> <<Sw("status", (NFS4_OK :> stateid4("lock_stateid"))
                               @@ (NFS4ERR_DENIED :> LOCK4denied))>>]
LOCKT4 == [args |-> <<U32("locktype"), U64("offset"), U64("length")>> \o state_owner4("owner"),
           res  |-> <<Sw("status", NFS4ERR_DENIED :> LOCK4denied)>>]
LOCKU4 == [args |-> <<U32("locktype"), U32("seqid")>> \o stateid4("lock_stateid")
                      \o <<U64("offset"), U64("length")>>,
           res  |-> IfOk(stateid4("lock_stateid"))]
LOOKUP4 == [args |-> <<Str("objname")>>, res |-> StatusOnly]
LOOKUPP4 == [args |-> << >>, res |-> StatusOnly]
NVERIFY4 == [args |-> fattr4("obj_attributes"), res |-> StatusOnly]

createhow4 == Sw("mode", (0 :> fattr4("createattrs")) @@ (1 :> fattr4("createattrs"))
                      @@ (EXCLUSIVE4 :> <<Fix("createverf", 8)>>))
open_claim4 == Sw("claim", (0 :> <<Str("file")>>) @@ (1 :> <<U32("delegate_type")>>)
                        @@ (2 :> stateid4("delegate_stateid") \o <<Str("file")>>)
                        @@ (3 :> <<Str("file_delegate_prev")>>))
nfs_space_limit4 == Sw("limitby", (1 :> <<U64("filesize")>>)
                               @@ (2 :> <<U32("num_blocks"), U32("bytes_per_block")>>))
open_delegation4 ==
  Sw("delegation_type",
     (1 :> stateid4("read") \o <<U32("recall")>> \o nfsace4("permissions")) @@
     (2 :> stateid4("write") \o <<U32("recall"), nfs_space_limit4>>
             \o nfsace4("permissions")))
OPEN4 == [args |-> <<U32("seqid"), U32("share_access"), U32("share_deny")>>
                     \o state_owner4("owner")
                     \o <<Sw("opentype", OPEN4_CREATE :> <<createhow4>>), open_claim4>>,
          res  |-> IfOk(stateid4("stateid") \o change_info4("cinfo")
                          \o <<U32("rflags"), Bits("attrset"), open_delegation4>>)]
OPENATTR4 == [args |-> <<U32("createdir")>>, res |-> StatusOnly]
OPEN_CONFIRM4 == [args |-> stateid4("open_stateid") \o <<U32("seqid")>>,
                  res  |-> IfOk(stateid4("open_stateid"))]
OPEN_DOWNGRADE4 == [args |-> stateid4("open_stateid")
                               \o <<U32("seqid"), U32("share_access"), U32("share_deny")>>,
                    res  |-> IfOk(stateid4("open_stateid"))]
PUTFH4 == [args |-> <<Str("object")>>, res |-> StatusOnly]
PUTPUBFH4 == [args |-> << >>, res |-> StatusOnly]
PUTROOTFH4 == [args |-> << >>, res |-> StatusOnly]
READ4 == [args |-> stateid4("stateid") \o <<U64("offset"), U32("count")>>,
          res  |-> IfOk(<<U32("eof"), Str("data")>>)]
entry4 == <<U64("cookie"), Str("name")>> \o fattr4("attrs")
READDIR4 == [args |-> <<U64("cookie"), Fix("cookieverf", 8), U32("dircount"),
                        U32("maxcount"), Bits("attr_request")>>,
             res  |-> IfOk(<<Fix("cookieverf", 8), List("entries", entry4), U32("eof")>>)]
READLINK4 == [args |-> << >>, res |-> IfOk(<<Str("link")>>)]
REMOVE4 == [args |-> <<Str("target")>>, res |-> IfOk(change_info4("cinfo"))]
RENAME4 == [args |-> <<Str("oldname"), Str("newname")>>,
            res  |-> IfOk(change_info4("source_cinfo") \o change_info4("target_cinfo"))]
RENEW4 == [args |-> <<U64("clientid")>>, res |-> StatusOnly]
RESTOREFH4 == [args |-> << >>, res |-> StatusOnly]
SAVEFH4 == [args |-> << >>, res |-> StatusOnly]
\* The flavours offered: none, or one that needs no further information.
SECINFO4 == [args |-> <<Str("name")>>,
             res  |-> IfOk(<<Sw("SECINFO4resok_len", 1 :> <<U32("flavor")>>)>>)]
SETATTR4 == [args |-> stateid4("stateid") \o fattr4("obj_attributes"),
             res  |-> <<Num("status"), Bits("attrsset")>>]
SETCLIENTID4 ==
  [args |-> <<Fix("verifier", 8), Str("id"), U32("cb_program"), Str("r_netid"),
              Str("r_addr"), U32("callback_ident")>>,
   res  |-> <<Sw("status",
                 (NFS4_OK :> <<U64("clientid"), Fix("setclientid_confirm", 8)>>) @@
                 (NFS4ERR_CLID_INUSE :> <<Str("r_netid"), Str("r_addr")>>))>>]
SETCLIENTID_CONFIRM4 == [args |-> <<U64("clientid"), Fix("setclientid_confirm", 8)>>,
                         res  |-> StatusOnly]
VERIFY4 == [args |-> fattr4("obj_attributes"), res |-> StatusOnly]
WRITE4 == [args |-> stateid4("stateid") \o <<U64("offset"), U32("stable"), Str("data")>>,
           res  |-> IfOk(<<U32("count"), U32("committed"), Fix("writeverf", 8)>>)]
RELEASE_LOCKOWNER4 == [args |-> state_owner4("lock_owner"), res |-> StatusOnly]

nfs_opnum4 ==
  [OP_ACCESS |-> 3, OP_CLOSE |-> 4, OP_COMMIT |-> 5, OP_CREATE |-> 6,
   OP_DELEGPURGE |-> 7, OP_DELEGRETURN |-> 8, OP_GETATTR |-> 9, OP_GETFH |-> 10,
   OP_LINK |-> 11, OP_LOCK |-> 12, OP_LOCKT |-> 13, OP_LOCKU |-> 14,
   OP_LOOKUP |-> 15, OP_LOOKUPP |-> 16, OP_NVERIFY |-> 17, OP_OPEN |-> 18,
   OP_OPENATTR |-> 19, OP_OPEN_CONFIRM |-> 20, OP_OPEN_DOWNGRADE |-> 21,
   OP_PUTFH |-> 22, OP_PUTPUBFH |-> 23, OP_PUTROOTFH |-> 24, OP_READ |-> 25,
   OP_READDIR |-> 26, OP_READLINK |-> 27, OP_REMOVE |-> 28, OP_RENAME |-> 29,
   OP_RENEW |-> 30, OP_RESTOREFH |-> 31, OP_SAVEFH |-> 32, OP_SECINFO |-> 33,
   OP_SETATTR |-> 34, OP_SETCLIENTID |-> 35, OP_SETCLIENTID_CONFIRM |-> 36,
   OP_VERIFY |-> 37, OP_WRITE |-> 38, OP_RELEASE_LOCKOWNER |-> 39]

\* nfs_argop4 and nfs_resop4: the declared layout of each operation.
Declared4 ==
  [OP_ACCESS |-> ACCESS4, OP_CLOSE |-> CLOSE4, OP_COMMIT |-> COMMIT4,
   OP_CREATE |-> CREATE4, OP_DELEGPURGE |-> DELEGPURGE4,
   OP_DELEGRETURN |-> DELEGRETURN4, OP_GETATTR |-> GETATTR4, OP_GETFH |-> GETFH4,
   OP_LINK |-> LINK4, OP_LOCK |-> LOCK4, OP_LOCKT |-> LOCKT4, OP_LOCKU |-> LOCKU4,
   OP_LOOKUP |-> LOOKUP4, OP_LOOKUPP |-> LOOKUPP4, OP_NVERIFY |-> NVERIFY4,
   OP_OPEN |-> OPEN4, OP_OPENATTR |-> OPENATTR4, OP_OPEN_CONFIRM |-> OPEN_CONFIRM4,
   OP_OPEN_DOWNGRADE |-> OPEN_DOWNGRADE4, OP_PUTFH |-> PUTFH4,
   OP_PUTPUBFH |-> PUTPUBFH4, OP_PUTROOTFH |-> PUTROOTFH4, OP_READ |-> READ4,
   OP_READDIR |-> READDIR4, OP_READLINK |-> READLINK4, OP_REMOVE |-> REMOVE4,
   OP_RENAME |-> RENAME4, OP_RENEW |-> RENEW4, OP_RESTOREFH |-> RESTOREFH4,
   OP_SAVEFH |-> SAVEFH4, OP_SECINFO |-> SECINFO4, OP_SETATTR |-> SETATTR4,
   OP_SETCLIENTID |-> SETCLIENTID4, OP_SETCLIENTID_CONFIRM |-> SETCLIENTID_CONFIRM4,
   OP_VERIFY |-> VERIFY4, OP_WRITE |-> WRITE4,
   OP_RELEASE_LOCKOWNER |-> RELEASE_LOCKOWNER4]
=============================================================================
