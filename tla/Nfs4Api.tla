-------------------------------- MODULE Nfs4Api --------------------------------
(***************************************************************************)
(* The compounds Nfs4ApiHandle sends: for each of its functions the           *)
(* operations in order, what it settles in their arguments, the results it     *)
(* insists on finding, the ones it hands out, and whether it decodes the        *)
(* attributes.  A function takes a path of `d` components where it walks one.   *)
(* The rest of a function (seqids, the file's state) is module OpenOwner.      *)
(***************************************************************************)
EXTENDS Nfs4Call, ApiCall
LOCAL INSTANCE Naturals
LOCAL INSTANCE Sequences
LOCAL INSTANCE TLC

std_attr == {FATTR4_TYPE, FATTR4_SIZE, FATTR4_FSID, FATTR4_FILEID, FATTR4_MODE,
             FATTR4_NUMLINKS, FATTR4_OWNER, FATTR4_OWNER_GROUP, FATTR4_SPACE_USED,
             FATTR4_TIME_ACCESS, FATTR4_TIME_METADATA, FATTR4_TIME_MODIFY}
statfs_attr == {FATTR4_FSID, FATTR4_FILES_AVAIL, FATTR4_FILES_FREE, FATTR4_FILES_TOTAL,
                FATTR4_MAXNAME, FATTR4_SPACE_AVAIL, FATTR4_SPACE_FREE,
                FATTR4_SPACE_TOTAL, FATTR4_SPACE_USED}
\* 0x00000018, 0x00300000
post_attr == {FATTR4_CHANGE, FATTR4_SIZE, FATTR4_TIME_METADATA, FATTR4_TIME_MODIFY}
\* 0x0010011a, 0x00b0a23a
full_attr == {FATTR4_TYPE, FATTR4_CHANGE, FATTR4_SIZE, FATTR4_FSID, FATTR4_FILEID,
              FATTR4_MODE, FATTR4_NUMLINKS, FATTR4_OWNER, FATTR4_OWNER_GROUP,
              FATTR4_RAWDEV, FATTR4_SPACE_USED, FATTR4_TIME_ACCESS,
              FATTR4_TIME_METADATA, FATTR4_TIME_MODIFY, FATTR4_MOUNTED_ON_FILEID}

PUTFH               == Cmd("OP_PUTFH")
PUTROOTFH           == Cmd("OP_PUTROOTFH")
GETFH               == Cmd("OP_GETFH")
GETATTR(attrs)      == Asking("OP_GETATTR", attrs)
LOOKUPs(d)          == [i \in 1..d |-> Cmd("OP_LOOKUP")]

FH == <<"OP_GETFH", {"object"}>>
ATTRS == <<"OP_GETATTR", {}>>
OPENED == <<"OP_OPEN", {"stateid.seqid", "stateid.other", "rflags"}>>

connect_id == Unexamined(Needs(Sends(<<Cmd("OP_SETCLIENTID")>>),
  <<<<"OP_SETCLIENTID", {"clientid", "setclientid_confirm"}>>>>))
connect_confirm == Unexamined(Sends(<<Cmd("OP_SETCLIENTID_CONFIRM")>>))
renewCid == Unexamined(Sends(<<Cmd("OP_RENEW")>>))

getRootFH(d) == Needs(Sends(<<PUTROOTFH>> \o LOOKUPs(d) \o <<GETATTR(std_attr), GETFH>>), <<FH>>)
readDirV4 == Decodes(Needs(Sends(<<PUTFH, Asking("OP_READDIR", std_attr)>>),
  <<<<"OP_READDIR", {"cookieverf", "eof", "cookie", "name"}>>>>), std_attr)
getDirFh(d) == Needs(Sends(<<PUTFH>> \o LOOKUPs(d) \o <<GETATTR(std_attr), GETFH>>), <<FH>>)
getDirFhOfPath(d) ==
  Needs(Sends(<<PUTROOTFH>> \o LOOKUPs(d) \o <<GETATTR(std_attr), GETFH>>), <<FH>>)
rename == Sends(<<PUTFH, GETATTR(std_attr), Cmd("OP_SAVEFH"), PUTFH, Cmd("OP_RENAME")>>)
commit == Needs(Sends(<<PUTFH, Cmd("OP_COMMIT")>>), <<<<"OP_COMMIT", {"writeverf"}>>>>)
access(d) == Needs(Sends(<<PUTROOTFH>> \o LOOKUPs(d) \o <<Cmd("OP_ACCESS")>>),
  <<<<"OP_ACCESS", {"supported", "access"}>>>>)

\* GUARDED4 is 1, CLAIM_NULL is 0; without attributes of the caller's, the mode.
create(attrs) ==
  Decodes(Needs(
    Sends(<<PUTFH, [Asking("OP_OPEN", IF attrs = {} THEN {FATTR4_MODE} ELSE attrs)
                      EXCEPT !.tags = ("opentype" :> OPEN4_CREATE) @@ ("mode" :> 1)],
            GETFH, Cmd("OP_ACCESS"), GETATTR(std_attr)>>),
    <<FH, OPENED, ATTRS>>), std_attr)
confirm == Needs(Sends(<<PUTFH, Cmd("OP_OPEN_CONFIRM")>>),
  <<<<"OP_OPEN_CONFIRM", {"open_stateid.seqid", "open_stateid.other"}>>>>)
open == Decodes(Needs(
  Sends(<<PUTFH, Cmd("OP_OPEN"), GETFH, Cmd("OP_ACCESS"), GETATTR(std_attr)>>),
  <<FH, OPENED, ATTRS>>), std_attr)
openPath == Needs(
  Sends(<<PUTFH, GETATTR(std_attr), Cmd("OP_ACCESS"), Cmd("OP_OPEN"), GETFH>>),
  <<FH, OPENED>>)
read == Decodes(Needs(Sends(<<PUTFH, Cmd("OP_READ"), GETATTR(std_attr)>>),
  <<<<"OP_READ", {"eof", "data"}>>, ATTRS>>), std_attr)
write == Needs(Sends(<<PUTFH, Cmd("OP_WRITE"), GETATTR(post_attr)>>),
  <<<<"OP_WRITE", {"count"}>>>>)
write_unstable == Needs(Sends(<<PUTFH, Cmd("OP_WRITE"), GETATTR(post_attr)>>),
  <<<<"OP_WRITE", {"count"}>>>>)
close == Decodes(Needs(Sends(<<PUTFH, Cmd("OP_CLOSE"), GETATTR(post_attr)>>), <<ATTRS>>),
                 post_attr)
remove == Sends(<<PUTFH, Cmd("OP_REMOVE")>>)
\* A time is always set to the one given: set_it is 1 whatever aTimeHow says.
setattr(attrs) ==
  Needs(Sends(<<PUTFH, [Asking("OP_SETATTR", attrs) EXCEPT
                          !.tags = ("time_access.set_it" :> 1) @@ ("time_modify.set_it" :> 1)]>>),
        <<<<"OP_SETATTR", {}>>>>)
truncate == Sends(<<PUTFH, Asking("OP_SETATTR", {FATTR4_SIZE})>>)
mkdir == Needs(Sends(<<PUTFH,
  [With("OP_CREATE", "type", NF4DIR) EXCEPT !.attrs = {FATTR4_MODE}],
  GETFH, GETATTR(full_attr)>>), <<FH>>)
mkdirOfPath == Sends(<<PUTFH,
  [With("OP_CREATE", "type", NF4DIR) EXCEPT !.attrs = {FATTR4_MODE}]>>)
lock == Needs(Sends(<<PUTFH, With("OP_LOCK", "new_lock_owner", 1)>>),
  <<<<"OP_LOCK", {"lock_stateid.seqid", "lock_stateid.other"}>>>>)
unlock == Needs(Sends(<<PUTFH, Cmd("OP_LOCKU")>>),
  <<<<"OP_LOCKU", {"lock_stateid.seqid", "lock_stateid.other"}>>>>)
lookup == Decodes(Needs(
  Sends(<<PUTFH, Cmd("OP_LOOKUP"), GETATTR(std_attr), GETFH>>), <<FH, ATTRS>>), std_attr)
lookupOfPath(d) ==
  Needs(Sends(<<PUTROOTFH>> \o LOOKUPs(d) \o <<GETATTR(std_attr), GETFH>>), <<FH>>)
lookupPath(d) == Decodes(Needs(
  Sends(<<PUTFH>> \o LOOKUPs(d) \o <<GETATTR(std_attr), GETFH>>), <<FH, ATTRS>>), std_attr)
getAttr == [Needs(Sends(<<PUTFH, GETATTR(full_attr \cup {FATTR4_ACL})>>), <<ATTRS>>)
              EXCEPT !.byReply = TRUE]
fsstat == Decodes(Needs(Sends(<<PUTFH, GETATTR(statfs_attr)>>), <<ATTRS>>), statfs_attr)
link == Sends(<<PUTFH, Cmd("OP_SAVEFH"), PUTFH, Cmd("OP_LINK"), Cmd("OP_RESTOREFH"),
                GETATTR(full_attr)>>)
=============================================================================
