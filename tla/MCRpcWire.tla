------------------------------- MODULE MCRpcWire -------------------------------
EXTENDS RpcWire, TLC
V4 == INSTANCE Nfs4Api
V3 == INSTANCE Nfs3Api

\* Every call Nfs4ApiHandle makes; paths of up to two components.
Calls4 ==
  [connect_id |-> V4!connect_id, connect_confirm |-> V4!connect_confirm,
   renewCid |-> V4!renewCid, getRootFH |-> V4!getRootFH(1), readDirV4 |-> V4!readDirV4,
   getDirFh |-> V4!getDirFh(2), getDirFhOfPath |-> V4!getDirFhOfPath(1),
   rename |-> V4!rename, commit |-> V4!commit, access |-> V4!access(1),
   create |-> V4!create({}), createSized |-> V4!create({FATTR4_SIZE, FATTR4_OWNER}),
   confirm |-> V4!confirm, open |-> V4!open, openPath |-> V4!openPath, read |-> V4!read,
   write |-> V4!write, write_unstable |-> V4!write_unstable, close |-> V4!close,
   remove |-> V4!remove,
   setattr |-> V4!setattr({FATTR4_SIZE, FATTR4_MODE, FATTR4_OWNER, FATTR4_OWNER_GROUP,
                           FATTR4_TIME_ACCESS_SET, FATTR4_TIME_MODIFY_SET}),
   setAcl |-> V4!setattr({FATTR4_ACL}),
   truncate |-> V4!truncate, mkdir |-> V4!mkdir, mkdirOfPath |-> V4!mkdirOfPath,
   lock |-> V4!lock, unlock |-> V4!unlock, lookup |-> V4!lookup,
   lookupOfPath |-> V4!lookupOfPath(1), lookupPath |-> V4!lookupPath(2),
   getAttr |-> V4!getAttr, fsstat |-> V4!fsstat, link |-> V4!link]

\* The operations COMPOUNDCall can send and Nfs4ApiHandle never does, but SECINFO,
\* VERIFY and the CREATE of a link or a device, whose arguments are not encoded.
Others4 ==
  [op \in {"OP_LOCKT", "OP_LOOKUPP", "OP_NVERIFY", "OP_OPENATTR", "OP_OPEN_DOWNGRADE",
           "OP_READLINK", "OP_RELEASE_LOCKOWNER", "OP_DELEGRETURN", "OP_DELEGPURGE"} |->
     V4!Sends(<<V4!PUTFH, V4!Cmd(op)>>)]

Calls3 ==
  [getExports |-> V3!getExports, lookup_segment |-> V3!lookup_segment, mount |-> V3!mount,
   umount |-> V3!umount, create3 |-> V3!create({}, 0),
   create3with |-> V3!create({"mode", "uid", "gid", "size"}, 2),
   read3 |-> V3!read, write3 |-> V3!write,
   write_unstable3 |-> V3!write_unstable, remove3 |-> V3!remove, rename3 |-> V3!rename,
   readDirPlus |-> V3!readDirPlus, make_dir |-> V3!make_dir, rmdir |-> V3!rmdir,
   commit3 |-> V3!commit, lock3 |-> V3!lock, unlock3 |-> V3!unlock,
   setattr3 |-> V3!setattr({"uid", "size"}, 1), getAttr3 |-> V3!getAttr,
   fsstat3 |-> V3!fsstat, link3 |-> V3!link, symlink3 |-> V3!symlink]

\* The calls of NfsCall, MountCall, NlmCall and Portmap that Nfs3ApiHandle never makes,
\* and a READDIRPLUS that asks for more than it does.
Others3 ==
  [op \in {"NFS_V3_ACCESS", "NFS_V3_READLINK", "NFS_V3_MKNOD", "NFS_V3_READDIR",
           "NFS_V3_FSINFO", "MOUNT_V3_DUMP", "NLM_V4_TEST", "NLM_V4_CANCEL",
           "PMAP_V2_DUMP"} |->
     V3!Procedure([V3!Cmd(op) EXCEPT !.tags = "type" :> 3 @@ "count" :> 40000], {})]
  @@ [readDirLarge |-> V3!Procedure(V3!With("NFS_V3_READDIRPLUS", "maxcount", 40000),
                                    {"eof", "name"})]

MCCalls == Calls4 @@ Others4 @@ Calls3 @@ Others3
\* A server need not support access control lists, nor owners.
MCSupported == {DOMAIN AttrValues, DOMAIN AttrValues \ {FATTR4_ACL},
                DOMAIN AttrValues \ {FATTR4_OWNER}}
=============================================================================
