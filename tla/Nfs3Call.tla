-------------------------------- MODULE Nfs3Call --------------------------------
(***************************************************************************)
(* What encodeArguments writes and decodeResults reads in each call of          *)
(* NfsCall.cpp, MountCall.cpp, NlmCall.cpp and Portmap.cpp, with the helpers     *)
(* of NfsUtil.cpp they share.  Every definition follows the calls its two        *)
(* functions make on the packet, in their order and under their conditions.     *)
(***************************************************************************)
EXTENDS Nfs3Xdr
LOCAL INSTANCE Naturals
LOCAL INSTANCE Sequences
LOCAL INSTANCE TLC

decodeFH3(n) == <<Str(n)>>
decodeFattr3 == <<U32("type"), U32("mode"), U32("nlink"), U32("uid"), U32("gid"),
                  U64("size"), U64("used"), U32("rdev.specdata1"), U32("rdev.specdata2"),
                  U64("fsid"), U64("fileid"), U32("atime.seconds"), U32("atime.nseconds"),
                  U32("mtime.seconds"), U32("mtime.nseconds"), U32("ctime.seconds"),
                  U32("ctime.nseconds")>>
decodePostOpAttr == <<Sw("attributes_follow", Otherwise :> decodeFattr3 @@ 0 :> << >>)>>
decodePreOpAttr ==
  <<Sw("before_follows", Otherwise :> <<U64("wcc_size"), U32("wcc_mtime.seconds"),
       U32("wcc_mtime.nseconds"), U32("wcc_ctime.seconds"), U32("wcc_ctime.nseconds")>>
       @@ 0 :> << >>)>>
\* A mutant: the attributes after the operation come first.
decodeWccData_PostFirst == decodePostOpAttr \o decodePreOpAttr
decodeWccData == decodePreOpAttr \o decodePostOpAttr
decodePostOpFH3 == <<Sw("handle_follows", Otherwise :> decodeFH3("handle") @@ 0 :> << >>)>>

setIt(n, item) == Sw(n \o ".set_it", Otherwise :> <<item>> @@ 0 :> << >>)
setItTime(n) == Sw(n \o ".set_it",
  TIME_SET_TO_CLIENT_TIME :> <<U32(n \o ".seconds"), U32(n \o ".nseconds")>>)
encodeSattr3 == <<setIt("mode", U32("mode")), setIt("uid", U32("uid")),
                  setIt("gid", U32("gid")), setIt("size", U64("size")),
                  setItTime("atime"), setItTime("mtime")>>

\* "if (status == 0) { ... } else { ... }", or, without the else, a failure.
Either(ok, fail) == <<Sw("status", NFS3_OK :> ok @@ Otherwise :> fail)>>
OrMinusOne(ok)   == Either(ok, <<Fail>>)
Always(body)     == <<U32("status")>> \o body
WithAttr(ok)     == Either(decodePostOpAttr \o ok, decodePostOpAttr)
NewObject        == Either(decodePostOpFH3 \o decodePostOpAttr \o decodeWccData, decodeWccData)
Called(proc, enc, dec) == [proc |-> proc, enc |-> enc, dec |-> dec]
DirOp == <<Str("dir"), Str("name")>>

GetAttrCall == Called(NFS(1), <<Str("object")>>, OrMinusOne(decodeFattr3))
\* Only the status is read.  A guard's time goes out as it lies in memory.
SetAttrCall == Called(NFS(2),
  <<Str("object")>> \o encodeSattr3 \o
  <<Sw("check", Otherwise :> <<Fix("obj_ctime", 8)>> @@ 0 :> << >>)>>, Always(<< >>))
LookUpCall == Called(NFS(3), DirOp,
  Either(decodeFH3("object") \o decodePostOpAttr \o decodePostOpAttr, decodePostOpAttr))
AccessCall == Called(NFS(4), <<Str("object"), U32("access")>>, WithAttr(<<U32("access")>>))
ReadLinkCall == Called(NFS(5), <<Str("symlink")>>, WithAttr(<<Str("data")>>))
ReadCall == Called(NFS(6), <<Str("file"), U64("offset"), U32("count")>>,
  WithAttr(<<U32("count"), U32("eof"), Counted("data", "count")>>))
WriteCall == Called(NFS(7),
  <<Str("file"), U64("offset"), U32("count"), U32("stable"), Str("data")>>,
  Either(decodeWccData \o <<U32("count"), U32("committed"), Fix("verf", 8)>>, decodeWccData))
CreateCall == Called(NFS(8),
  DirOp \o <<Sw("how", CREATE_UNCHECKED :> encodeSattr3 @@ CREATE_GUARDED :> encodeSattr3
                       @@ CREATE_EXCLUSIVE :> <<Fix("verf", 8)>>)>>, NewObject)
MkdirCall == Called(NFS(9), DirOp \o encodeSattr3, NewObject)
SymLinkCall == Called(NFS(10), DirOp \o encodeSattr3 \o <<Str("data")>>, NewObject)
encodeDevice == encodeSattr3 \o <<U32("specdata1"), U32("specdata2")>>
MknodCall == Called(NFS(11),
  DirOp \o <<Sw("type", NF3CHR :> encodeDevice @@ NF3BLK :> encodeDevice
                        @@ NF3SOCK :> encodeSattr3 @@ NF3FIFO :> encodeSattr3)>>, NewObject)
RemoveCall == Called(NFS(12), DirOp, Always(decodeWccData))
RmdirCall == Called(NFS(13), DirOp, Always(decodeWccData))
RenameCall == Called(NFS(14), <<Str("from_dir"), Str("from_name"), Str("to_dir"), Str("to_name")>>,
                     Always(decodeWccData \o decodeWccData))
LinkCall == Called(NFS(15), <<Str("file"), Str("dir"), Str("name")>>,
                   Always(decodePostOpAttr \o decodeWccData))
\* "if (count > 32768) count = 32768": the most a listing asks for.
MostAsked == 32768

\* dirlist3_eof is set to (listEOF == 0), the opposite of what was sent.
ReaddirCall == Called(NFS(16),
  <<Str("dir"), U64("cookie"), Fix("cookieverf", 8), Capped("count", MostAsked)>>,
  OrMinusOne(decodePostOpAttr \o
    <<Fix("cookieverf", 8),
      List("entries", <<U64("fileid"), Str("name"), U64("cookie")>>), Negated("eof")>>))
ReaddirPlusCall == Called(NFS(17),
  <<Str("dir"), U64("cookie"), Fix("cookieverf", 8), U32("dircount"),
    Capped("maxcount", MostAsked)>>,
  OrMinusOne(decodePostOpAttr \o
    <<Fix("cookieverf", 8),
      List("entries", <<U64("fileid"), Str("name"), U64("cookie")>>
                        \o decodePostOpAttr \o decodePostOpFH3), U32("eof")>>))
FsstatCall == Called(NFS(18), <<Str("fsroot")>>,
  WithAttr(<<U64("tbytes"), U64("fbytes"), U64("abytes"), U64("tfiles"), U64("ffiles"),
             U64("afiles"), U32("invarsec")>>))
FsinfoCall == Called(NFS(19), <<Str("fsroot")>>,
  WithAttr(<<U32("rtmax"), U32("rtpref"), U32("rtmult"), U32("wtmax"), U32("wtpref"),
             U32("wtmult"), U32("dtpref"), U64("maxfilesize"), U32("time_delta.seconds"),
             U32("time_delta.nseconds"), U32("properties")>>))
CommitCall == Called(NFS(21), <<Str("file"), U64("offset"), U32("count")>>,
  Either(decodeWccData \o <<Fix("verf", 8)>>, decodeWccData))

\* The flavours of authentication that follow the handle are not read.
MntCall == Called(MOUNT(1), <<Str("dirpath")>>, Either(decodeFH3("fhandle"), << >>))
UMountCall == Called(MOUNT(3), <<Str("dirpath")>>, << >>)
MountDumpCall == Called(MOUNT(2), << >>, <<List("mounts", <<Str("hostname"), Str("directory")>>)>>)
ExportCall == Called(MOUNT(5), << >>,
  <<List("exports", <<Str("dir"), List("groups", <<Str("group")>>)>>)>>)

encodeNlmLock == <<Str("caller_name"), Str("fh"), Str("oh"), U32("svid"), U64("l_offset"),
                   U64("l_len")>>
decodeNlmHolder == <<U32("exclusive"), U32("svid"), Str("oh"), U64("l_offset"), U64("l_len")>>
decodeNlmRes == <<Str("cookie"), U32("status")>>
TestCall == Called(NLM(1), <<Str("cookie"), U32("exclusive")>> \o encodeNlmLock,
                   <<Str("cookie"), Sw("status", NLMSTAT4_DENIED :> decodeNlmHolder)>>)
LockCall == Called(NLM(2), <<Str("cookie"), U32("block"), U32("exclusive")>> \o encodeNlmLock
                             \o <<U32("reclaim"), U32("state")>>, decodeNlmRes)
CancelCall == Called(NLM(3), <<Str("cookie"), U32("block"), U32("exclusive")>> \o encodeNlmLock,
                     decodeNlmRes)
UnlockCall == Called(NLM(4), <<Str("cookie")>> \o encodeNlmLock, decodeNlmRes)

\* The loop also stops where 20 bytes for each turn are not left.
PortmapDumpCall == Called(PORTMAP(4), << >>,
  <<List("maps", <<U32("prog"), U32("vers"), U32("prot"), U32("port")>>)>>)

Codec3 ==
  [NFS_V3_GETATTR |-> GetAttrCall, NFS_V3_SETATTR |-> SetAttrCall,
   NFS_V3_LOOKUP |-> LookUpCall, NFS_V3_ACCESS |-> AccessCall,
   NFS_V3_READLINK |-> ReadLinkCall, NFS_V3_READ |-> ReadCall, NFS_V3_WRITE |-> WriteCall,
   NFS_V3_CREATE |-> CreateCall, NFS_V3_MKDIR |-> MkdirCall, NFS_V3_SYMLINK |-> SymLinkCall,
   NFS_V3_MKNOD |-> MknodCall, NFS_V3_REMOVE |-> RemoveCall, NFS_V3_RMDIR |-> RmdirCall,
   NFS_V3_RENAME |-> RenameCall, NFS_V3_LINK |-> LinkCall, NFS_V3_READDIR |-> ReaddirCall,
   NFS_V3_READDIRPLUS |-> ReaddirPlusCall, NFS_V3_FSSTAT |-> FsstatCall,
   NFS_V3_FSINFO |-> FsinfoCall, NFS_V3_COMMIT |-> CommitCall, MOUNT_V3_MNT |-> MntCall,
   MOUNT_V3_DUMP |-> MountDumpCall, MOUNT_V3_UMNT |-> UMountCall,
   MOUNT_V3_EXPORT |-> ExportCall, NLM_V4_TEST |-> TestCall, NLM_V4_LOCK |-> LockCall,
   NLM_V4_CANCEL |-> CancelCall, NLM_V4_UNLOCK |-> UnlockCall, PMAP_V2_DUMP |-> PortmapDumpCall]
=============================================================================
