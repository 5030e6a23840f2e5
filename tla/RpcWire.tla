-------------------------------- MODULE RpcWire --------------------------------
(***************************************************************************)
(* One call on the wire: the client writes the request (RemoteCall::call and   *)
(* the encodeArguments of the call), the server reads it by the declared        *)
(* layouts, does what it can, and writes the reply by them; the client reads    *)
(* the header, then the results one by one, then what its function hands out.   *)
(*                                                                         *)
(* The server goes through a compound up to the first operation that fails and   *)
(* includes that one's result.  It may also refuse the whole message, deny it,   *)
(* or never be heard of.                                                    *)
(***************************************************************************)
EXTENDS Nfs4Call, Nfs3Call, RpcMessage
LOCAL INSTANCE Integers
LOCAL INSTANCE Sequences
LOCAL INSTANCE FiniteSets
LOCAL INSTANCE SequencesExt
LOCAL INSTANCE TLC

CONSTANTS
  Calls,     \* the calls made: a function from names to compounds and procedures
  Sizes,     \* the lengths, in bytes, of what has a variable length
  Entries,   \* how many entries a list of the server's may have
  Supported, \* the sets of attributes a server may support
  Faults     \* what the server may do instead: "refused", "denied", "lost"

ASSUME SizesAssumption == Sizes \subseteq Nat /\ Sizes # {}
ASSUME FaultsAssumption == Faults \subseteq {"refused", "denied", "lost"}

VARIABLES
  pc,        \* "idle", "sent", "heard", "served", "frame", "results", "done"
  call,      \* the call that is made
  meant,     \* the operations and their arguments, as the caller has them
  request,   \* the words of the request
  heard,     \* the operations as the server read them, none if it could not
  served,    \* the results the server produced, in order
  reply,     \* the words of the reply
  r,         \* where the client is in the reply
  got,       \* what the client decoded: the status and the results
  ret        \* what the client's function returns, and what it hands out

vars == <<pc, call, meant, request, heard, served, reply, r, got, ret>>

Codec == Codec4 @@ Codec3
Declared == Declared4 @@ Declared3

NFS4_PROC == [prog |-> 100003, vers |-> 4, proc |-> 1]
XID == 77
None == [ok |-> FALSE, out |-> << >>, attrs |-> << >>, why |-> "none"]

(***************************************************************************)
(* The client's side of the request.                                        *)
(***************************************************************************)
\* The arguments as the caller sets them
Arguments(cmd, id, size) ==
  LET o == Write(Declared[cmd.op].args, Choice(cmd.tags, size, cmd.attrs), id, Empty)
  IN  [op |-> cmd.op, vals |-> o.vals, attrs |-> o.attrs]

\* and the words written for them: attributes go through NfsUtil first.
Marshalled(cmd) ==
  [i \in DOMAIN cmd.vals |->
     IF \E n \in {"createattrs", "obj_attributes"} : cmd.vals[i][1] = n \o ".attr_vals"
     THEN attr_vals(cmd.vals[i][1], cmd.attrs) ELSE cmd.vals[i]]
encodeArguments(cmd) == Encode(Codec[cmd.op].enc, Marshalled(cmd))

\* COMPOUNDCall::encodeArguments: an empty tag, the minor version, the operations
CompoundArguments(cmds) ==
  FoldLeft(LAMBDA words, cmd : words \o <<nfs_opnum4[cmd.op]>> \o encodeArguments(cmd),
           <<0, 0, Len(cmds)>>, cmds)

Call(size) ==
  /\ pc = "idle"
  /\ LET cmds == [i \in DOMAIN call.cmds |-> Arguments(call.cmds[i], i, size)]
     IN  /\ meant' = cmds
         /\ request' =
              IF call.framed THEN encodeHeader(XID, NFS4_PROC) \o CompoundArguments(cmds)
              ELSE encodeHeader(XID, Codec[cmds[1].op].proc) \o encodeArguments(cmds[1])
  /\ pc' = "sent"
  /\ UNCHANGED <<call, heard, served, reply, r, got, ret>>

(***************************************************************************)
(* The server.                                                              *)
(***************************************************************************)
OpNumbered(x) ==
  IF \E op \in DOMAIN nfs_opnum4 : nfs_opnum4[op] = x
  THEN CHOOSE op \in DOMAIN nfs_opnum4 : nfs_opnum4[op] = x ELSE "OP_ILLEGAL"
OpOfProc(prog, vers, proc) ==
  LET ops == {op \in DOMAIN Declared3 :
                Declared3[op].proc = [prog |-> prog, vers |-> vers, proc |-> proc]}
  IN  IF ops = {} THEN "PROC_UNAVAIL" ELSE CHOOSE op \in ops : TRUE

\* One operation read, added to those before it
Heard(a, op, cmds) ==
  [r |-> a, cmds |-> Append(cmds, [op |-> op, vals |-> a.vals, attrs |-> a.attrs])]
ReadArguments(acc, op, wire) ==
  IF op \in DOMAIN Declared
  THEN Heard(Read(Declared[op].args, wire, [acc.r EXCEPT !.vals = << >>, !.attrs = << >>]),
             op, acc.cmds)
  ELSE [acc EXCEPT !.r.ok = FALSE]

ReadNumbered(acc, t, wire) ==
  IF t.ok THEN ReadArguments([acc EXCEPT !.r = t], OpNumbered(LastNumber(t)), wire)
  ELSE [acc EXCEPT !.r.ok = FALSE]
ReadNext(acc, wire) ==
  IF acc.r.ok THEN ReadNumbered(acc, TakeNumber(wire, acc.r, "argop"), wire) ELSE acc

\* The operations of a compound, from its frame on, or the arguments of a procedure
ReadCompound(frame, wire) ==
  FoldLeft(LAMBDA acc, i : ReadNext(acc, wire), [r |-> frame, cmds |-> << >>],
           IF frame.ok THEN [i \in 1..LastNumber(frame) |-> i] ELSE << >>)
ReadBody(h, proc, wire) ==
  IF ~h.ok THEN [r |-> h, cmds |-> << >>]
  ELSE IF proc.vers = NFS4_PROC.vers /\ proc.prog = NFS4_PROC.prog
  THEN ReadCompound(Read(<<Str("tag"), U32("minorversion"), Num("argarray_len")>>, wire, h), wire)
  ELSE ReadArguments([r |-> h, cmds |-> << >>], OpOfProc(proc.prog, proc.vers, proc.proc), wire)
ReadMessage(h, wire) ==
  ReadBody(h, [prog |-> h.vals[4][3][1], vers |-> h.vals[5][3][1], proc |-> h.vals[6][3][1]], wire)
WholeOf(all, wire) == IF all.r.ok /\ all.r.pos = 4 * Len(wire) THEN all.cmds ELSE << >>

\* The operations of a request, none if it cannot be read to its end
Understood(wire) ==
  WholeOf(ReadMessage(ReadAll(call_header, wire, Reader(0, 4 * Len(wire))), wire), wire)

Hear ==
  /\ pc = "sent"
  /\ heard' = Understood(request)
  /\ pc' = "heard"
  /\ UNCHANGED <<call, meant, request, served, reply, r, got, ret>>

\* The result of an operation, by its declaration
ResultOf(cmd, id, status, choice) ==
  LET asked == UNION {AttrsOf(v[3]) : v \in {w \in ToSet(cmd.vals) : w[1] = "attr_request"}}
      c == [choice EXCEPT !.tags = ("status" :> status) @@ ("count" :> choice.size) @@ @,
                          !.attrs = asked \cap @]
      o == Write(Declared[cmd.op].res, c, id, Empty)
  IN  [op |-> cmd.op, status |-> status, vals |-> o.vals, attrs |-> o.attrs, words |-> o.words]

ReplyHeader(stat, accept, size) ==
  LET tags == ("call" :> RPC_REPLY) @@ ("reply_stat" :> stat)
                @@ ("accept_stat" :> accept) @@ ("reject_stat" :> 1)
  IN  Write(reply_header, Choice(tags, size, {}), 90, Empty).words

CompoundResults(results, status, size) ==
  FoldLeft(LAMBDA words, res : words \o <<nfs_opnum4[res.op]>> \o res.words,
           <<status, size>> \o [i \in 1..Words(size) |-> Junk] \o <<Len(results)>>, results)

\* The server carries out the operations up to the one that fails with `status`
\* (past the last one: none does), and answers.
Serve(fails, status, choice) ==
  LET upto == IF fails > Len(heard) THEN Len(heard) ELSE fails
      sts(i) == IF i = fails THEN status ELSE NFS4_OK
      results == [i \in 1..upto |-> ResultOf(heard[i], 50 + i, sts(i), choice)]
  IN  /\ pc = "heard" /\ heard # << >>
      /\ fails <= Len(heard) + 1
      /\ served' = results
      /\ reply' = ReplyHeader(MSG_ACCEPTED, SUCCESS, choice.size)
                    \o (IF call.framed THEN CompoundResults(results, sts(upto), choice.size)
                        ELSE results[1].words)
      /\ pc' = "served"
      /\ UNCHANGED <<call, meant, request, heard, r, got, ret>>

\* A message it cannot read to its end, or will not carry out: nothing but a header.
Refuse(size) ==
  /\ pc = "heard"
  /\ "refused" \in Faults \/ heard = << >>
  /\ reply' = ReplyHeader(MSG_ACCEPTED, IF heard = << >> THEN GARBAGE_ARGS ELSE SYSTEM_ERR, size)
  /\ pc' = "served"
  /\ UNCHANGED <<call, meant, request, heard, served, r, got, ret>>

Deny ==
  /\ pc = "heard" /\ "denied" \in Faults
  /\ reply' = ReplyHeader(MSG_DENIED, SUCCESS, 0)
  /\ pc' = "served"
  /\ UNCHANGED <<call, meant, request, heard, served, r, got, ret>>

(***************************************************************************)
(* The client's side of the reply.                                          *)
(***************************************************************************)
NothingYet == [status |-> NFS4_OK, results |-> << >>, count |-> 1, received |-> FALSE,
               cst |-> "none"]

\* The values of a result the function hands out
Fields(result, names) == SelectSeq(result.vals, LAMBDA v : v[1] \in names)
AttrLists(result) ==
  SelectSeq(result.vals, LAMBDA v : v[1] \in {"obj_attributes.attr_vals", "attrs.attr_vals"})
BitmapOf(result) == AttrsOf(ValueOf(result.vals, "obj_attributes.attrmask")[3])

\* The attributes of a result, each list decoded by itself
Decode(result) ==
  LET mask == IF call.byReply THEN BitmapOf(result) ELSE call.decodes
  IN  IF mask = {} THEN << >>
      ELSE [i \in DOMAIN AttrLists(result) |-> decode_fattr4(AttrLists(result)[i], mask)]

\* A mutant: the status inside a procedure's result is not looked at.
Unsuccessful_FrameOnly(g) == g.status # NFS4_OK /\ call.checked /\ call.framed

\* "if (status != NFS4_OK)", NFS3_OK or NLMSTAT4_GRANTED, where a function has it
Unsuccessful(g) == g.status # NFS4_OK /\ call.checked

\* What the function makes of the outcome of the call and of what was decoded.
\* READDIR's entries are kept whether or not their attributes could be decoded.  The
\* result of a procedure is there even if nothing was decoded into it.
Outcome(cst, g) ==
  LET found(op) == findOPIndex(g.results, op)
      needed(i) == IF found(call.needs[i][1]) = 0 THEN [vals |-> << >>]
                   ELSE g.results[found(call.needs[i][1])]
      lists(i)  == Decode(needed(i))
      failed(ok, why) == [None EXCEPT !.ok = ok, !.why = why]
      is == [i \in DOMAIN call.needs |-> i]
  IN  IF cst # "RPC_SUCCESS" /\ call.examined THEN failed(FALSE, cst)
      ELSE IF Unsuccessful(g) THEN failed(FALSE, "status")
      ELSE IF call.framed /\ \E i \in DOMAIN is : found(call.needs[i][1]) = 0
           THEN failed(FALSE, IF call.examined THEN "no result" ELSE "read of no result")
      ELSE IF \E i \in DOMAIN is : \E l \in ToSet(lists(i)) :
                 ~l.ok /\ call.needs[i][1] # "OP_READDIR"
           THEN failed(FALSE, "attributes")
      ELSE [ok |-> TRUE, why |-> "done",
            out |-> FlattenSeq([i \in DOMAIN is |-> Fields(needed(i), call.needs[i][2])]),
            attrs |-> FlattenSeq([i \in DOMAIN is |->
                        FlattenSeq([j \in DOMAIN lists(i) |-> lists(i)[j].vals])])]

Return(cst, g) ==
  /\ got' = [g EXCEPT !.cst = cst]
  /\ ret' = Outcome(cst, g)
  /\ pc' = "done"

\* No answer comes, though the server may have done what was asked: RPC_TIMEDOUT
Lose ==
  /\ pc = "heard" /\ "lost" \in Faults
  /\ Return("RPC_TIMEDOUT", NothingYet)
  /\ UNCHANGED <<call, meant, request, heard, served, reply, r>>

\* The status of a result nothing was decoded into: 0, but for the calls of NlmCall
\* that leave their result uninitialised.
Unset == IF call.cmds[1].op \in {"NLM_V4_LOCK", "NLM_V4_CANCEL", "NLM_V4_UNLOCK"}
         THEN {NFS4_OK, NFS4ERR_ACCESS} ELSE {NFS4_OK}

\* The header, as the connection reads it; a reply that is not valid is not
\* decoded, and the call has succeeded.  A read may go up to the capacity of the
\* buffer, which is the length of a datagram and of a reply in one fragment; a reply
\* in several may have room behind it, which is left out.
DecodeHeader ==
  /\ pc = "served"
  /\ LET h == Read(decodeHeader, reply, Reader(0, 4 * Len(reply)))
     IN  /\ r' = [h EXCEPT !.vals = << >>]
         /\ IF ~h.ok THEN Return("RPC_TIMEDOUT", NothingYet)
            ELSE IF ValueOf(h.vals, "reply_stat")[3][1] # 0
            THEN \E status \in Unset : Return("RPC_SUCCESS", [NothingYet EXCEPT !.status = status])
            ELSE /\ pc' = IF call.framed THEN "frame" ELSE "results"
                 /\ got' = NothingYet
                 /\ ret' = ret
  /\ UNCHANGED <<call, meant, request, heard, served, reply>>

\* COMPOUNDCall::decodeResults up to its loop
DecodeFrame ==
  /\ pc = "frame"
  /\ LET f == Read(<<Num("status"), Str("tag"), Num("count")>>, reply, r)
         status == IF f.vals = << >> THEN NFS4_OK ELSE f.vals[1][3][1]
     IN  /\ r' = [f EXCEPT !.vals = << >>]
         /\ IF f.ok THEN /\ got' = [got EXCEPT !.status = status, !.count = LastNumber(f),
                                              !.received = TRUE]
                         /\ pc' = "results" /\ ret' = ret
            ELSE Return("RPC_CANTDECODERES", [got EXCEPT !.status = status])
  /\ UNCHANGED <<call, meant, request, heard, served, reply>>

\* One turn of the loop, or the decodeResults of a procedure: the status of a
\* procedure is in its result.
DecodeResult ==
  /\ pc = "results" /\ Len(got.results) < got.count
  /\ LET t == IF call.framed THEN TakeNumber(reply, r, "resop") ELSE r
         op == IF call.framed THEN OpNumbered(LastNumber(t)) ELSE call.cmds[1].op
         body == IF op \in DOMAIN Codec
                 THEN Read(Codec[op].dec, reply, [t EXCEPT !.vals = << >>])
                 ELSE [t EXCEPT !.vals = << >>]
         status == IF ~call.framed /\ \E v \in ToSet(body.vals) : v[1] = "status"
                   THEN ValueOf(body.vals, "status")[3][1] ELSE got.status
         g == [got EXCEPT !.results = Append(@, [op |-> op, vals |-> body.vals]),
                          !.status = status]
     IN  IF ~t.ok THEN r' = t /\ Return("RPC_CANTDECODERES", got)
         ELSE /\ r' = [body EXCEPT !.vals = << >>]
              /\ IF body.ok THEN got' = g /\ UNCHANGED <<pc, ret>>
                 ELSE Return("RPC_CANTDECODERES", g)
  /\ UNCHANGED <<call, meant, request, heard, served, reply>>

Answer ==
  /\ pc = "results" /\ Len(got.results) = got.count
  /\ Return("RPC_SUCCESS", got)
  /\ UNCHANGED <<call, meant, request, heard, served, reply, r>>

Client == \/ \E size \in Sizes : Call(size)
          \/ DecodeHeader \/ DecodeFrame \/ DecodeResult \/ Answer

(***************************************************************************)
(* What the server is free to choose: the operation that fails and how, how    *)
(* many entries a list has, which optional parts follow, the lengths, and the     *)
(* attributes it supports.  An OPEN is answered without a delegation.            *)
(***************************************************************************)
Errors(op) == CASE op = "OP_LOCK" -> {NFS4ERR_ACCESS, NFS4ERR_DENIED}
                [] op = "OP_SETCLIENTID" -> {NFS4ERR_ACCESS, NFS4ERR_CLID_INUSE}
                [] op = "NLM_V4_TEST" -> {NLMSTAT4_DENIED, NFS4ERR_ACCESS}
                [] OTHER -> {NFS4ERR_ACCESS}
HasStatus(op) == \E i \in DOMAIN Declared[op].res :
                   LET item == Declared[op].res[i] IN item.k = "sw" /\ item.n = "status"

Lists == {"entries", "exports", "groups", "mounts", "maps", "auth_flavors", "acl"}
Optional == {"attributes_follow", "before_follows", "handle_follows", "eof"}
Replies == {Choice([n \in Lists |-> entries] @@ [n \in Optional |-> follow], size, supported) :
              entries \in Entries, follow \in {0, 1}, size \in Sizes, supported \in Supported}

Server ==
  \/ \E fails \in DOMAIN call.cmds \cup {Len(call.cmds) + 1} :
       \E status \in IF fails > Len(call.cmds) THEN {NFS4_OK}
                     ELSE Errors(call.cmds[fails].op), choice \in Replies :
         /\ fails \in DOMAIN call.cmds => HasStatus(call.cmds[fails].op)
         /\ Serve(fails, status, choice)
  \/ \E size \in Sizes : Refuse(size)
  \/ Hear
  \/ Deny
  \/ Lose

Init == /\ pc = "idle" /\ call \in Range(Calls)
        /\ meant = << >> /\ request = << >> /\ heard = << >> /\ served = << >>
        /\ reply = << >> /\ r = Reader(0, 0) /\ got = NothingYet /\ ret = None

Next == Client \/ Server
Spec == Init /\ [][Next]_vars

(***************************************************************************)
(* Properties.                                                              *)
(***************************************************************************)
AttrsOnly(attrs) == [i \in DOMAIN attrs |-> [attr |-> attrs[i].attr, vals |-> attrs[i].vals]]
Same(cmds, others) ==
  /\ Len(cmds) = Len(others)
  /\ \A i \in DOMAIN cmds : /\ cmds[i].op = others[i].op
                           /\ cmds[i].vals = others[i].vals
                           /\ AttrsOnly(cmds[i].attrs) = AttrsOnly(others[i].attrs)

\* What the caller asked for, but for what READDIR and READDIRPLUS ask of a listing:
\* no more than 32768 bytes (NfsCall.cpp:742, 845).
Asked(cmds) ==
  LET counts == {<<"NFS_V3_READDIR", "count">>, <<"NFS_V3_READDIRPLUS", "maxcount">>}
      capped(op, v) == IF <<op, v[1]>> \in counts /\ v[3][1] > 32768
                       THEN <<v[1], v[2], <<32768>>>> ELSE v
  IN  [i \in DOMAIN cmds |->
         [cmds[i] EXCEPT !.vals = [j \in DOMAIN @ |-> capped(cmds[i].op, @[j])]]]

\* What the client writes, a peer that goes by the declarations of the protocol
\* reads to the last byte, and finds the operations with the arguments the caller
\* set, attributes included: encodeHeader, encodeArguments and every encode_OP_X.
RequestIsRead == pc \notin {"idle", "sent"} => Same(heard, Asked(meant))

\* A result as it is to be stored: as it was sent, but for the eof of READDIR, of which
\* the opposite is stored (NfsCall.cpp:805; READDIRPLUS stores its own as sent, 914).
AsStored(result) ==
  [j \in DOMAIN result.vals |->
     LET v == result.vals[j]
     IN  IF result.op = "NFS_V3_READDIR" /\ v[1] = "eof" THEN <<v[1], v[2], <<1 - v[3][1]>>>>
         ELSE v]

\* The outcome of a call the server answered: each result decoded is the one the
\* server sent, field by field, the eof of READDIR inverted, the last result at most
\* as a part; and a call that succeeds has read the reply to its end, but for what
\* MNT and SETATTR leave.
ReadsLess == {"MOUNT_V3_MNT", "NFS_V3_SETATTR"}
ResultsAreSent ==
  pc = "done" /\ served # << >> /\ got.cst # "RPC_TIMEDOUT" =>
    /\ Len(got.results) <= Len(served)
    /\ \A i \in DOMAIN got.results :
         /\ got.results[i].op = served[i].op
         /\ IsPrefix(got.results[i].vals, AsStored(served[i]))
    /\ got.cst = "RPC_SUCCESS" /\ call.cmds[1].op \notin ReadsLess =>
         /\ Len(got.results) = Len(served)
         /\ \A i \in DOMAIN served : got.results[i].vals = AsStored(served[i])
         /\ r.pos = 4 * Len(reply)

\* What the server carried out and answered
Executed == /\ served # << >> /\ Len(served) = Len(meant)
            /\ \A i \in DOMAIN served : served[i].status = NFS4_OK

Denied == Len(reply) >= 3 /\ reply[3] = MSG_DENIED

\* A function that reports success has had every operation it asked for carried
\* out; those that do not look (connect, renewCid, mkdir of NFSv3) are excepted,
\* and UMNT, whose result is empty, and a reply that denies the call (AlwaysReceived).
SuccessIsExecuted ==
  ret.ok /\ call.examined /\ call.checked /\ HasStatus(call.cmds[1].op) /\ ~Denied =>
    Same(heard, Asked(meant)) /\ Executed

\* The functions that decode a list by the attributes they asked for, and not by the
\* bitmap of the reply, rely on a server that supports all of them.
AllSupported ==
  call.byReply \/
  \A i \in DOMAIN served :
    served[i].op \in {"OP_GETATTR", "OP_READDIR"} =>
      \A v \in ToSet(served[i].vals) :
        v[1] \in {"obj_attributes.attrmask", "attrs.attrmask"} => call.decodes \subseteq AttrsOf(v[3])

\* and what was carried out and answered is not reported as a failure.
ExecutedIsSuccess ==
  pc = "done" /\ Executed /\ got.cst # "RPC_TIMEDOUT" /\ AllSupported => ret.ok

\* The file handles, stateids, counts, data and attributes a function hands out are
\* those of the operation that produced them, as the server sent them.  NfsAttr has
\* no place for the last of the attributes asked for, MOUNTED_ON_FILEID.
AttrsAsked(res) ==
  SelectSeq(AttrsOnly(res.attrs), LAMBDA a :
              a.attr # FATTR4_MOUNTED_ON_FILEID /\ (call.byReply \/ a.attr \in call.decodes))
HandedOutIsTheServers ==
  ret.ok /\ ~Denied /\ AllSupported =>
    LET of(i) == served[findOPIndex(meant, call.needs[i][1])]
        is == [i \in DOMAIN call.needs |-> i]
        decodes == call.byReply \/ call.decodes # {}
    IN  /\ ret.out = FlattenSeq([i \in DOMAIN is |-> Fields(of(i), call.needs[i][2])])
        /\ decodes => ret.attrs =
             FlattenSeq([i \in DOMAIN is |-> FlattenSeq([j \in DOMAIN AttrsAsked(of(i)) |->
                           AttrsAsked(of(i))[j].vals])])

\* "The following are always received, on success or on failure" (Nfs4Call.cpp:1702):
\* the tag and the results of a compound that ended in RPC_SUCCESS.  A reply that
\* denies the message is not decoded, and the call ends in RPC_SUCCESS all the same.
AlwaysReceived == pc = "done" /\ got.cst = "RPC_SUCCESS" /\ call.framed => got.received
=============================================================================
