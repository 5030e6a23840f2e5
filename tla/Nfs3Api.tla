-------------------------------- MODULE Nfs3Api --------------------------------
(***************************************************************************)
(* The procedures Nfs3ApiHandle calls, one definition for each call it makes.     *)
(* A function that makes several is put together from these: getDirFh and          *)
(* getFileHandle repeat lookup_segment, getRootFH is mount and umount, mkdir is     *)
(* make_dir and lookup_segment.                                             *)
(***************************************************************************)
EXTENDS Nfs3Call, ApiCall
LOCAL INSTANCE Naturals
LOCAL INSTANCE Sequences
LOCAL INSTANCE TLC

FATTR3 == {decodeFattr3[i].n : i \in DOMAIN decodeFattr3}

\* NfsAttr::NfsAttrToSattr3: what the attributes set and how their times are.
NfsAttrToSattr3(set, time_how) ==
  [n \in {s \o ".set_it" : s \in set \cup {"atime", "mtime"}} |->
     IF n \in {"atime.set_it", "mtime.set_it"} THEN time_how ELSE 1]
Setting(op, set, time_how) == [Cmd(op) EXCEPT !.tags = NfsAttrToSattr3(set, time_how)]

getExports == Procedure(Cmd("MOUNT_V3_EXPORT"), {"dir"})
lookup_segment == Procedure(Cmd("NFS_V3_LOOKUP"), {"object"})
mount == Procedure(Cmd("MOUNT_V3_MNT"), {"fhandle"})
umount == Procedure(Cmd("MOUNT_V3_UMNT"), {})
\* Without attributes of the caller's: the mode, and no change of the times.  The
\* handle is used if the attributes came too; if not, the name is looked up.
create(set, time_how) ==
  LET c == Setting("NFS_V3_CREATE", IF set = {} THEN {"mode"} ELSE set, time_how)
  IN  Procedure([c EXCEPT !.tags = "how" :> CREATE_GUARDED @@ @], {"handle"})
getFileHandle_attr == Procedure(Cmd("NFS_V3_GETATTR"), FATTR3)
read == Procedure(Cmd("NFS_V3_READ"), {"count", "eof", "data"})
write == Procedure(Cmd("NFS_V3_WRITE"), {"count"})
write_unstable == Procedure(Cmd("NFS_V3_WRITE"), {"count", "verf"})
remove == Procedure(Cmd("NFS_V3_REMOVE"), {})
rename == Procedure(Cmd("NFS_V3_RENAME"), {})
readDirPlus == Procedure(With("NFS_V3_READDIRPLUS", "maxcount", 8192),
                         {"cookieverf", "eof", "name", "cookie"})
\* mkdir tests the status of a result of its own that nothing was decoded into.
make_dir == [Procedure(Setting("NFS_V3_MKDIR", {"mode"}, 0), {}) EXCEPT !.checked = FALSE]
rmdir == Procedure(Cmd("NFS_V3_RMDIR"), {})
commit == Procedure(Cmd("NFS_V3_COMMIT"), {"verf"})
lock == Procedure(Cmd("NLM_V4_LOCK"), {})
unlock == Procedure(Cmd("NLM_V4_UNLOCK"), {})
setattr(set, time_how) == Procedure(Setting("NFS_V3_SETATTR", set, time_how), {})
getAttr == Procedure(Cmd("NFS_V3_GETATTR"), FATTR3)
lookup == Procedure(Cmd("NFS_V3_LOOKUP"), {"object"})
fsstat == Procedure(Cmd("NFS_V3_FSSTAT"), {"tbytes", "fbytes", "abytes", "tfiles", "ffiles",
                                           "afiles", "invarsec"})
link == Procedure(Cmd("NFS_V3_LINK"), {})
symlink == Procedure(Setting("NFS_V3_SYMLINK", {"mode"}, 0), {})
=============================================================================
