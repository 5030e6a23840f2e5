-------------------------------- MODULE Fattr4 --------------------------------
(***************************************************************************)
(* NfsUtil's three functions on attribute lists.  NfsAttr_fattr4 puts the     *)
(* attributes to be set in a buffer, in the order of their bits, and works     *)
(* out the length they will have; encode_fattr4 walks the same buffer and      *)
(* writes them; decode_fattr4 reads the attributes the client asked for from    *)
(* the values the server sent.  The three go through the bits independently,   *)
(* so they agree only where they handle the same attributes alike.             *)
(*                                                                         *)
(* An attribute to be set is a record: its number, its values and the words    *)
(* they stand for.                                                          *)
(***************************************************************************)
EXTENDS Nfs4Xdr
LOCAL INSTANCE Naturals
LOCAL INSTANCE Sequences
LOCAL INSTANCE SequencesExt
LOCAL INSTANCE TLC

\* What each function has a branch for, in the first and the second mask.
Buffered == {FATTR4_TYPE, FATTR4_CHANGE, FATTR4_SIZE, FATTR4_FSID, FATTR4_ACL}
              \cup {FATTR4_MODE, FATTR4_NUMLINKS, FATTR4_OWNER, FATTR4_OWNER_GROUP,
                    FATTR4_RAWDEV, FATTR4_SPACE_USED, FATTR4_TIME_ACCESS_SET,
                    FATTR4_TIME_MODIFY_SET}
Encoded1 == {FATTR4_TYPE, FATTR4_CHANGE, FATTR4_SIZE, FATTR4_ACL}
Encoded2 == {FATTR4_MODE, FATTR4_OWNER, FATTR4_OWNER_GROUP, FATTR4_TIME_ACCESS_SET,
             FATTR4_TIME_MODIFY_SET}

\* The bytes NfsAttr_fattr4 adds to attrlist4_len for an attribute of the first mask
BufferedSize1(a) ==
  CASE a.attr = FATTR4_TYPE -> 4
    [] a.attr \in {FATTR4_CHANGE, FATTR4_SIZE} -> 8
    [] a.attr = FATTR4_FSID -> 16
    [] a.attr = FATTR4_ACL -> 4 * Len(a.words)     \* it is kept encoded

\* and of the second; a time has its set_it counted.
BufferedSize2(a) ==
  CASE a.attr \in {FATTR4_MODE, FATTR4_NUMLINKS} -> 4
    [] a.attr \in {FATTR4_RAWDEV, FATTR4_SPACE_USED} -> 8
    [] a.attr \in {FATTR4_OWNER, FATTR4_OWNER_GROUP} ->
         LET length == a.vals[1][2] IN 4 + length + Padding(length)
    [] a.attr \in {FATTR4_TIME_ACCESS_SET, FATTR4_TIME_MODIFY_SET} -> 4 + 8 + 4

NfsAttr_fattr4(attrs) ==
  LET buf == SelectSeq(attrs, LAMBDA a : a.attr \in Buffered)
      size(a) == IF a.attr < 32 THEN BufferedSize1(a) ELSE BufferedSize2(a)
  IN  [buf |-> buf, attrlist4_len |-> FoldLeft(LAMBDA n, a : n + size(a), 0, buf)]

\* The i-th attribute written is the i-th in the buffer, or whatever is there.
encode_values(attrs, buf) ==
  LET written == SelectSeq(attrs, LAMBDA a : a.attr \in Encoded1 \cup Encoded2)
      step(words, i) ==
        words \o (IF i <= Len(buf) /\ buf[i].attr = written[i].attr THEN written[i].words
                  ELSE [j \in DOMAIN written[i].words |-> Junk])
  IN  FoldLeft(step, << >>, [i \in DOMAIN written |-> i])

\* encode_fattr4 as a layout: the bitmap, attrlist4_len, the values.
encode_fattr4(n) == <<Bits(n \o ".attrmask"), Raw(n \o ".attr_vals")>>

\* The field attr_vals of n, once the attributes to be set have been through both.
attr_vals(n, attrs) ==
  LET fattr == NfsAttr_fattr4(attrs)
  IN  <<n, fattr.attrlist4_len, encode_values(attrs, fattr.buf)>>

\* What decode_fattr4 reads for a bit of the first mask
Decoded1 ==
  (FATTR4_TYPE :> <<U32("fileType")>>) @@ (FATTR4_CHANGE :> <<U64("changeID")>>) @@
  (FATTR4_SIZE :> <<U64("size")>>) @@
  (FATTR4_FSID :> <<U64("fsid.major"), U64("fsid.minor")>>) @@
  (FATTR4_ACL :> <<Count("acl", <<U32("ace.type"), U32("ace.flag"),
                                  U32("ace.access_mask"), Str("ace.who")>>)>>) @@
  (FATTR4_FILEID :> <<U64("fid")>>) @@
  (FATTR4_FILES_AVAIL :> <<U64("files_avail")>>) @@
  (FATTR4_FILES_FREE :> <<U64("files_free")>>) @@
  (FATTR4_FILES_TOTAL :> <<U64("files_total")>>) @@
  (FATTR4_MAXNAME :> <<U32("name_max")>>)

\* and of the second
Decoded2 ==
  (FATTR4_MODE :> <<U32("fmode")>>) @@ (FATTR4_NUMLINKS :> <<U32("nlinks")>>) @@
  (FATTR4_OWNER :> <<Str("owner")>>) @@ (FATTR4_OWNER_GROUP :> <<Str("group")>>) @@
  (FATTR4_RAWDEV :> <<U64("rawDevice")>>) @@
  (FATTR4_SPACE_AVAIL :> <<U64("bytes_avail")>>) @@
  (FATTR4_SPACE_FREE :> <<U64("bytes_free")>>) @@
  (FATTR4_SPACE_TOTAL :> <<U64("bytes_total")>>) @@
  (FATTR4_SPACE_USED :> <<U64("bytes_used")>>) @@
  (FATTR4_TIME_ACCESS :> <<U64("time_access.seconds"), U32("time_access.nseconds")>>) @@
  (FATTR4_TIME_METADATA :> <<U64("time_metadata.seconds"), U32("time_metadata.nseconds")>>) @@
  (FATTR4_TIME_MODIFY :> <<U64("time_modify.seconds"), U32("time_modify.nseconds")>>)

\* A mutant: the second word of the mask is not looked at.
decode_fattr4_FirstMask(list, mask) ==
  FoldLeft(LAMBDA r, a : IF r.ok THEN Read(Decoded1[a], list[3], r) ELSE r,
           Reader(0, 2 * list[2]), Ordered(mask \cap DOMAIN Decoded1))

\* decode_fattr4: the values of the attributes in `mask`, read from the field
\* attr_vals; the packet they are copied into has twice their length.
decode_fattr4(list, mask) ==
  LET decoded == Decoded1 @@ Decoded2
      asked == SelectSeq(Ordered(mask), LAMBDA a : a \in DOMAIN decoded)
  IN  FoldLeft(LAMBDA r, a : IF r.ok THEN Read(decoded[a], list[3], r) ELSE r,
               Reader(0, 2 * list[2]), asked)
=============================================================================
