-------------------------------- MODULE Nfs3Xdr --------------------------------
(***************************************************************************)
(* The arguments and the results of the procedures of NFSv3, MOUNT, NLM and     *)
(* the port mapper as nfs.h, mount.h, nlm.h and pmap.h declare them, and the      *)
(* number of each procedure.  This is what the peer of the client reads and       *)
(* writes; module Nfs3Call holds what the client itself encodes and decodes.      *)
(***************************************************************************)
EXTENDS XdrLayout
LOCAL INSTANCE Naturals
LOCAL INSTANCE Sequences
LOCAL INSTANCE TLC

NFS3_OK                 == 0
NFS3ERR_NOENT           == 2
NF3BLK                  == 3
NF3CHR                  == 4
NF3SOCK                 == 6
NF3FIFO                 == 7
TIME_SET_TO_CLIENT_TIME == 2
CREATE_UNCHECKED        == 0
CREATE_GUARDED          == 1
CREATE_EXCLUSIVE        == 2
NLMSTAT4_DENIED         == 1

NFS(p)     == [prog |-> 100003, vers |-> 3, proc |-> p]
MOUNT(p)   == [prog |-> 100005, vers |-> 3, proc |-> p]
NLM(p)     == [prog |-> 100021, vers |-> 4, proc |-> p]
PORTMAP(p) == [prog |-> 100000, vers |-> 2, proc |-> p]

nfstime3(n) == <<U32(n \o ".seconds"), U32(n \o ".nseconds")>>
fattr3 == <<U32("type"), U32("mode"), U32("nlink"), U32("uid"), U32("gid"), U64("size"),
            U64("used"), U32("rdev.specdata1"), U32("rdev.specdata2"), U64("fsid"),
            U64("fileid")>>
            \o nfstime3("atime") \o nfstime3("mtime") \o nfstime3("ctime")
post_op_attr == <<Sw("attributes_follow", 1 :> fattr3)>>
wcc_attr == <<U64("wcc_size")>> \o nfstime3("wcc_mtime") \o nfstime3("wcc_ctime")
wcc_data == <<Sw("before_follows", 1 :> wcc_attr)>> \o post_op_attr
post_op_fh3 == <<Sw("handle_follows", 1 :> <<Str("handle")>>)>>

\* sattr3, with its time_how
set3(n, item) == Sw(n \o ".set_it", 1 :> <<item>>)
setTime3(n)   == Sw(n \o ".set_it", TIME_SET_TO_CLIENT_TIME :> nfstime3(n))
sattr3 == <<set3("mode", U32("mode")), set3("uid", U32("uid")), set3("gid", U32("gid")),
            set3("size", U64("size")), setTime3("atime"), setTime3("mtime")>>
sattrguard3 == <<Sw("check", 1 :> nfstime3("obj_ctime"))>>
diropargs3(n) == <<Str(n \o "dir"), Str(n \o "name")>>

Proc(proc, args, res) == [proc |-> proc, args |-> args, res |-> res]
OrElse(ok, fail) == <<Sw("status", (NFS3_OK :> ok) @@ (Otherwise :> fail))>>
Made3 == OrElse(post_op_fh3 \o post_op_attr \o wcc_data, wcc_data)

GETATTR3 == Proc(NFS(1), <<Str("object")>>, OrElse(fattr3, << >>))
SETATTR3 == Proc(NFS(2), <<Str("object")>> \o sattr3 \o sattrguard3,
                 OrElse(wcc_data, wcc_data))
LOOKUP3 == Proc(NFS(3), diropargs3(""),
                OrElse(<<Str("object")>> \o post_op_attr \o post_op_attr, post_op_attr))
ACCESS3 == Proc(NFS(4), <<Str("object"), U32("access")>>,
                OrElse(post_op_attr \o <<U32("access")>>, post_op_attr))
READLINK3 == Proc(NFS(5), <<Str("symlink")>>,
                  OrElse(post_op_attr \o <<Str("data")>>, post_op_attr))
READ3 == Proc(NFS(6), <<Str("file"), U64("offset"), U32("count")>>,
              OrElse(post_op_attr \o <<Num("count"), U32("eof"), Str("data")>>, post_op_attr))
WRITE3 == Proc(NFS(7), <<Str("file"), U64("offset"), U32("count"), U32("stable"), Str("data")>>,
               OrElse(wcc_data \o <<U32("count"), U32("committed"), Fix("verf", 8)>>, wcc_data))
createhow3 == <<Sw("how", (CREATE_UNCHECKED :> sattr3) @@ (CREATE_GUARDED :> sattr3) @@
                          (CREATE_EXCLUSIVE :> <<Fix("verf", 8)>>))>>
CREATE3 == Proc(NFS(8), diropargs3("") \o createhow3, Made3)
MKDIR3 == Proc(NFS(9), diropargs3("") \o sattr3, Made3)
SYMLINK3 == Proc(NFS(10), diropargs3("") \o sattr3 \o <<Str("data")>>, Made3)
devicedata3 == sattr3 \o <<U32("specdata1"), U32("specdata2")>>
mknoddata3 == <<Sw("type", (NF3CHR :> devicedata3) @@ (NF3BLK :> devicedata3) @@
                           (NF3SOCK :> sattr3) @@ (NF3FIFO :> sattr3))>>
MKNOD3 == Proc(NFS(11), diropargs3("") \o mknoddata3, Made3)
REMOVE3 == Proc(NFS(12), diropargs3(""), OrElse(wcc_data, wcc_data))
RMDIR3 == Proc(NFS(13), diropargs3(""), OrElse(wcc_data, wcc_data))
RENAME3 == Proc(NFS(14), diropargs3("from_") \o diropargs3("to_"),
                OrElse(wcc_data \o wcc_data, wcc_data \o wcc_data))
LINK3 == Proc(NFS(15), <<Str("file")>> \o diropargs3(""),
              OrElse(post_op_attr \o wcc_data, post_op_attr \o wcc_data))
entry3 == <<U64("fileid"), Str("name"), U64("cookie")>>
READDIR3 == Proc(NFS(16), <<Str("dir"), U64("cookie"), Fix("cookieverf", 8), Num("count")>>,
                 OrElse(post_op_attr \o <<Fix("cookieverf", 8), List("entries", entry3),
                                          Num("eof")>>, post_op_attr))
entryplus3 == entry3 \o post_op_attr \o post_op_fh3
READDIRPLUS3 ==
  Proc(NFS(17), <<Str("dir"), U64("cookie"), Fix("cookieverf", 8), U32("dircount"),
                  Num("maxcount")>>,
       OrElse(post_op_attr \o <<Fix("cookieverf", 8), List("entries", entryplus3),
                                Num("eof")>>, post_op_attr))
FSSTAT3 == Proc(NFS(18), <<Str("fsroot")>>,
                OrElse(post_op_attr \o
                       <<U64("tbytes"), U64("fbytes"), U64("abytes"), U64("tfiles"),
                         U64("ffiles"), U64("afiles"), U32("invarsec")>>, post_op_attr))
FSINFO3 == Proc(NFS(19), <<Str("fsroot")>>,
                OrElse(post_op_attr \o
                       <<U32("rtmax"), U32("rtpref"), U32("rtmult"), U32("wtmax"),
                         U32("wtpref"), U32("wtmult"), U32("dtpref"), U64("maxfilesize")>>
                       \o nfstime3("time_delta") \o <<U32("properties")>>, post_op_attr))
COMMIT3 == Proc(NFS(21), <<Str("file"), U64("offset"), U32("count")>>,
                OrElse(wcc_data \o <<Fix("verf", 8)>>, wcc_data))

MOUNT3_MNT == Proc(MOUNT(1), <<Str("dirpath")>>,
                   OrElse(<<Str("fhandle"), Count("auth_flavors", <<U32("flavor")>>)>>, << >>))
MOUNT3_DUMP == Proc(MOUNT(2), << >>, <<List("mounts", <<Str("hostname"), Str("directory")>>)>>)
MOUNT3_UMNT == Proc(MOUNT(3), <<Str("dirpath")>>, << >>)
MOUNT3_EXPORT == Proc(MOUNT(5), << >>,
  <<List("exports", <<Str("dir"), List("groups", <<Str("group")>>)>>)>>)

nlm4_lock == <<Str("caller_name"), Str("fh"), Str("oh"), U32("svid"), U64("l_offset"),
               U64("l_len")>>
nlm4_holder == <<U32("exclusive"), U32("svid"), Str("oh"), U64("l_offset"), U64("l_len")>>
nlm4_res == <<Str("cookie"), Num("status")>>
NLM4_TEST == Proc(NLM(1), <<Str("cookie"), U32("exclusive")>> \o nlm4_lock,
                  <<Str("cookie"), Sw("status", NLMSTAT4_DENIED :> nlm4_holder)>>)
NLM4_LOCK == Proc(NLM(2), <<Str("cookie"), U32("block"), U32("exclusive")>> \o nlm4_lock
                            \o <<U32("reclaim"), U32("state")>>, nlm4_res)
NLM4_CANCEL == Proc(NLM(3), <<Str("cookie"), U32("block"), U32("exclusive")>> \o nlm4_lock,
                    nlm4_res)
NLM4_UNLOCK == Proc(NLM(4), <<Str("cookie")>> \o nlm4_lock, nlm4_res)

PMAP_DUMP == Proc(PORTMAP(4), << >>,
  <<List("maps", <<U32("prog"), U32("vers"), U32("prot"), U32("port")>>)>>)

Declared3 ==
  [NFS_V3_GETATTR |-> GETATTR3, NFS_V3_SETATTR |-> SETATTR3, NFS_V3_LOOKUP |-> LOOKUP3,
   NFS_V3_ACCESS |-> ACCESS3, NFS_V3_READLINK |-> READLINK3, NFS_V3_READ |-> READ3,
   NFS_V3_WRITE |-> WRITE3, NFS_V3_CREATE |-> CREATE3, NFS_V3_MKDIR |-> MKDIR3,
   NFS_V3_SYMLINK |-> SYMLINK3, NFS_V3_MKNOD |-> MKNOD3, NFS_V3_REMOVE |-> REMOVE3,
   NFS_V3_RMDIR |-> RMDIR3, NFS_V3_RENAME |-> RENAME3, NFS_V3_LINK |-> LINK3,
   NFS_V3_READDIR |-> READDIR3, NFS_V3_READDIRPLUS |-> READDIRPLUS3,
   NFS_V3_FSSTAT |-> FSSTAT3, NFS_V3_FSINFO |-> FSINFO3, NFS_V3_COMMIT |-> COMMIT3,
   MOUNT_V3_MNT |-> MOUNT3_MNT, MOUNT_V3_DUMP |-> MOUNT3_DUMP, MOUNT_V3_UMNT |-> MOUNT3_UMNT,
   MOUNT_V3_EXPORT |-> MOUNT3_EXPORT, NLM_V4_TEST |-> NLM4_TEST, NLM_V4_LOCK |-> NLM4_LOCK,
   NLM_V4_CANCEL |-> NLM4_CANCEL, NLM_V4_UNLOCK |-> NLM4_UNLOCK,
   PMAP_V2_DUMP |-> PMAP_DUMP]
=============================================================================
