----------------------------- MODULE OpenOwner -----------------------------
(***************************************************************************)
(* The NFSv4 open owner of a connection group: the threads that open,      *)
(* close and lock files under m_file_op_seqid_mutex, the sequence id they  *)
(* share, the handles they keep, and the server's record of the same owner *)
(* (src/src/Nfs4ApiHandle.cpp, src/src/NfsConnectionGroup.cpp).            *)
(*                                                                         *)
(* A compound is one request: what matters is whether it fails before the  *)
(* operation that carries the seqid, at it, or after it.  Its error codes  *)
(* are two: those for which the code does not increment the seqid ("keep") *)
(* and all others ("bump").  The server is external: it is what the code   *)
(* takes a server to do by the section of RFC 7530 it cites.               *)
(***************************************************************************)
EXTENDS Integers, Sequences

CONSTANTS
  Threads,  \* threads that use the API handle
  Files,    \* regular files
  None,     \* no thread, no file
  MaxOps,   \* bound: how many operations are begun in all
  Faults    \* what may go wrong, a subset of FaultKinds

FaultKinds ==
  { "refuse",    \* the operation with the seqid fails
    "before",    \* an operation before it fails: PUTFH, or GETATTR and ACCESS
    "after",     \* an operation after it fails: GETFH, ACCESS, GETATTR
    "reject",    \* the reply is an RPC rejection, which call takes for success
    "timeout",   \* the call fails, its request or reply being lost or late
    "setattr",   \* the SETATTR of truncate fails
    "decode" }   \* the attributes in the reply cannot be decoded

ASSUME OwnerAssumption ==
  /\ None \notin Threads \cup Files
  /\ MaxOps \in Nat
  /\ Faults \subseteq FaultKinds

\* The API's operations, and the compounds they send, by the operation that
\* carries the seqid.
\* create is, but for arguments that make no difference here, the first open.
Opening == {"open", "openPath", "truncate"}
Kinds   == {"open", "confirm", "close", "lock"}
MaybeFile == Files \cup {None}

Calls   == [op : Opening \cup {"close", "lock"}, kind : Kinds,
            asked : MaybeFile, file : MaybeFile, seq : Nat]
Replies == [status : {"none", "ok", "bump", "keep", "void"}, file : MaybeFile,
            confirm : BOOLEAN]
NoCall   == [op |-> "open", kind |-> "open", asked |-> None, file |-> None, seq |-> 0]
NoReply  == [status |-> "none", file |-> None, confirm |-> FALSE]
NoHandle == [open |-> FALSE, file |-> None, asked |-> None]

VARIABLES
  seqid,    \* m_file_op_seqid
  mutex,    \* the thread that holds m_file_op_seqid_mutex
  begun,    \* how many operations have been begun
  pc, call, \* each thread's position and the compound it is about to send or sent
  handle,   \* each thread's NfsFh, with the file it asked for
  wire,     \* requests on their way to the server
  reply,    \* the reply to a thread's request, once there is one
  srv,      \* the server's record of the owner
  drifted,  \* history: a step has moved one side's seqid and not the other's
  leaked    \* history: files left open at the server by a call that failed

vars == <<seqid, mutex, begun, pc, call, handle, wire, reply, srv, drifted, leaked>>

TypeOK ==
  /\ seqid \in Nat /\ begun \in 0..MaxOps
  /\ mutex \in Threads \cup {None}
  /\ pc \in [Threads -> {"idle", "enter", "send", "wait", "setattr"}]
  /\ call \in [Threads -> Calls]
  /\ handle \in [Threads -> [open : {TRUE}, file : Files, asked : Files] \cup {NoHandle}]
  /\ wire \in Seq([from : Threads \cup {None}, call : Calls])
  /\ reply \in [Threads -> Replies]
  /\ srv \in [confirmed : BOOLEAN, next : Nat, opens : SUBSET Files,
              last : [kind : Kinds \cup {"none"}, reply : Replies]]
  /\ drifted \in BOOLEAN /\ leaked \in SUBSET Files

Init ==
  /\ seqid = 0 /\ begun = 0 /\ mutex = None
  /\ pc = [t \in Threads |-> "idle"]
  /\ call = [t \in Threads |-> NoCall]
  /\ handle = [t \in Threads |-> NoHandle]
  /\ wire = <<>>
  /\ reply = [t \in Threads |-> NoReply]
  /\ srv = [confirmed |-> FALSE, next |-> 0, opens |-> {},
            last |-> [kind |-> "none", reply |-> NoReply]]
  /\ drifted = FALSE /\ leaked = {}

-----------------------------------------------------------------------------
(* The client.                                                             *)

\* An API call up to the mutex.  An application opens into a handle that is
\* not open and closes or locks through one that is.
Begin(t, op, kind, asked, file) ==
  /\ pc[t] = "idle" /\ begun < MaxOps
  /\ begun' = begun + 1
  /\ pc' = [pc EXCEPT ![t] = "enter"]
  /\ call' = [call EXCEPT ![t] = [op |-> op, kind |-> kind, asked |-> asked,
                                  file |-> file, seq |-> 0]]
  /\ UNCHANGED <<seqid, mutex, handle, wire, reply, srv, drifted, leaked>>

Create(t, f)   == ~handle[t].open /\ Begin(t, "open", "open", f, f)
Open(t, f)     == ~handle[t].open /\ Begin(t, "open", "open", f, f)
OpenPath(t, f) == ~handle[t].open /\ Begin(t, "openPath", "open", f, f)
Truncate(t, f) == ~handle[t].open /\ Begin(t, "truncate", "open", f, f)
Close(t) == handle[t].open /\ Begin(t, "close", "close", handle[t].asked, handle[t].file)
Lock(t)  == handle[t].open /\ Begin(t, "lock", "lock", handle[t].asked, handle[t].file)

\* Mutant: the mutex is not taken.
Enter_Unlocked(t) ==
  /\ pc[t] = "enter"
  /\ mutex' = t
  /\ call' = [call EXCEPT ![t].seq = seqid]
  /\ pc' = [pc EXCEPT ![t] = "send"]
  /\ UNCHANGED <<seqid, begun, handle, wire, reply, srv, drifted, leaked>>

\* The lock_guard, and getFileOPSeqId for the compound.
Enter(t) ==
  /\ pc[t] = "enter" /\ mutex = None
  /\ mutex' = t
  /\ call' = [call EXCEPT ![t].seq = seqid]
  /\ pc' = [pc EXCEPT ![t] = "send"]
  /\ UNCHANGED <<seqid, begun, handle, wire, reply, srv, drifted, leaked>>

\* The first half of compCall.call.
Send(t) ==
  /\ pc[t] = "send"
  /\ wire' = Append(wire, [from |-> t, call |-> call[t]])
  /\ pc' = [pc EXCEPT ![t] = "wait"]
  /\ UNCHANGED <<seqid, mutex, begun, call, handle, reply, srv, drifted, leaked>>

Forget(t) == reply' = [reply EXCEPT ![t] = NoReply]

\* The lock_guard unlocks as the function returns, and the compound is gone.
Leave(t, next) ==
  /\ mutex' = None
  /\ pc' = [pc EXCEPT ![t] = next]
  /\ call' = IF next = "idle" THEN [call EXCEPT ![t] = NoCall] ELSE call
  /\ Forget(t)

\* What a call that fails leaves open at the server: the file of an open that
\* was executed, or that was to be confirmed, or that truncate cannot close.
LeftOpen(t) ==
  CASE call[t].kind = "open"    -> IF reply[t].file = None THEN {} ELSE {reply[t].file}
    [] call[t].kind = "confirm" -> {call[t].file}
    [] call[t].kind = "close"   -> IF call[t].op = "truncate" THEN {call[t].file} ELSE {}
    [] OTHER -> {}

\* The call returns false: the handle is as it was, but truncate's own handle
\* is gone with it.
ReturnFalse(t) ==
  /\ Leave(t, "idle")
  /\ leaked' = leaked \cup LeftOpen(t)
  /\ handle' = IF call[t].op = "truncate" THEN [handle EXCEPT ![t] = NoHandle] ELSE handle

\* compCall.call returns an error: its request is lost or will be late, or its
\* reply is lost.
CallFails(t) ==
  /\ "timeout" \in Faults
  /\ pc[t] = "wait" /\ ReturnFalse(t)
  /\ \/ reply[t] # NoReply /\ UNCHANGED wire
     \/ \E i \in DOMAIN wire : wire[i].from = t /\
          \/ wire' = [wire EXCEPT ![i].from = None]
          \/ wire' = SubSeq(wire, 1, i - 1) \o SubSeq(wire, i + 1, Len(wire))
  /\ drifted' = (drifted \/ reply[t].status \in {"ok", "bump"})
  /\ UNCHANGED <<seqid, begun, srv>>

\* Mutant: incremented whatever the error.
Failed_Increments(t) ==
  /\ pc[t] = "wait" /\ reply[t].status \in {"bump", "keep"}
  /\ seqid' = seqid + 1
  /\ ReturnFalse(t)
  /\ UNCHANGED <<begun, wire, srv, drifted>>

\* Mutant: an error that leaves the seqid alone is retried.
Failed_Retries(t) ==
  /\ pc[t] = "wait"
  /\ \/ reply[t].status = "bump" /\ seqid' = seqid + 1 /\ ReturnFalse(t)
     \/ /\ reply[t].status = "keep"
        /\ pc' = [pc EXCEPT ![t] = "send"] /\ Forget(t)
        /\ UNCHANGED <<seqid, mutex, call, handle, leaked>>
  /\ UNCHANGED <<begun, wire, srv, drifted>>

\* The compound has failed: incrementFileOPSeqId for some errors only.
Failed(t) ==
  /\ pc[t] = "wait" /\ reply[t].status \in {"bump", "keep"}
  /\ seqid' = IF reply[t].status = "bump" THEN seqid + 1 ELSE seqid
  /\ ReturnFalse(t)
  /\ UNCHANGED <<begun, wire, srv, drifted>>

\* The first open and close decode the attributes; the other open does not.
Decodes(c) == c.kind = "close" \/ (c.kind = "open" /\ c.op = "open")

\* It has not, but what the caller looks for is not in the reply, which call has
\* not decoded, or the attributes are not what it expects.
Undecoded(t) ==
  /\ pc[t] = "wait"
  /\ \/ reply[t].status = "void"
     \/ (reply[t].status = "ok" /\ Decodes(call[t]) /\ "decode" \in Faults)
  /\ seqid' = seqid + 1
  /\ ReturnFalse(t)
  /\ UNCHANGED <<begun, wire, srv, drifted>>

Succeeds(t, kind) == pc[t] = "wait" /\ reply[t].status = "ok" /\ call[t].kind = kind

\* An open that the server wants confirmed: OPEN_CONFIRM follows, under the
\* same mutex, with the next seqid.
Confirm(t) ==
  /\ Succeeds(t, "open") /\ reply[t].confirm
  /\ seqid' = seqid + 1
  /\ call' = [call EXCEPT ![t].kind = "confirm", ![t].file = reply[t].file,
                          ![t].seq = seqid']
  /\ pc' = [pc EXCEPT ![t] = "send"]
  /\ Forget(t)
  /\ UNCHANGED <<mutex, begun, handle, wire, srv, drifted, leaked>>

\* Mutant: what findOPIndex finds is not checked.
Opened_Unchecked(t) ==
  /\ \/ Succeeds(t, "open") /\ ~reply[t].confirm
     \/ Succeeds(t, "confirm")
     \/ pc[t] = "wait" /\ reply[t].status = "void" /\ call[t].kind = "open"
  /\ seqid' = seqid + 1
  /\ handle' = [handle EXCEPT ![t] = [open |-> TRUE, file |-> reply[t].file,
                                      asked |-> call[t].asked]]
  /\ leaked' = leaked \ {reply[t].file}
  /\ Leave(t, IF call[t].op = "truncate" THEN "setattr" ELSE "idle")
  /\ UNCHANGED <<begun, wire, srv, drifted>>

\* Mutant: the seqid is not incremented once the file is open.
Opened_SameSeqid(t) ==
  /\ \/ Succeeds(t, "open") /\ ~reply[t].confirm
     \/ Succeeds(t, "confirm")
  /\ handle' = [handle EXCEPT ![t] = [open |-> TRUE, file |-> reply[t].file,
                                      asked |-> call[t].asked]]
  /\ leaked' = leaked \ {reply[t].file}
  /\ Leave(t, IF call[t].op = "truncate" THEN "setattr" ELSE "idle")
  /\ UNCHANGED <<seqid, begun, wire, srv, drifted>>

\* Mutant: an open that was confirmed is not handed to the caller.
Opened_NotConfirmed(t) ==
  /\ \/ Succeeds(t, "open") /\ ~reply[t].confirm
     \/ Succeeds(t, "confirm")
  /\ seqid' = seqid + 1
  /\ handle' = IF call[t].kind = "confirm" THEN handle
               ELSE [handle EXCEPT ![t] = [open |-> TRUE, file |-> reply[t].file,
                                           asked |-> call[t].asked]]
  /\ leaked' = leaked \ {reply[t].file}
  /\ Leave(t, IF call[t].op = "truncate" THEN "setattr" ELSE "idle")
  /\ UNCHANGED <<begun, wire, srv, drifted>>

\* Mutant: that the server wants the open confirmed is overlooked.
Opened_Unconfirmed(t) ==
  /\ Succeeds(t, "open") \/ Succeeds(t, "confirm")
  /\ seqid' = seqid + 1
  /\ handle' = [handle EXCEPT ![t] = [open |-> TRUE, file |-> reply[t].file,
                                      asked |-> call[t].asked]]
  /\ leaked' = leaked \ {reply[t].file}
  /\ Leave(t, IF call[t].op = "truncate" THEN "setattr" ELSE "idle")
  /\ UNCHANGED <<begun, wire, srv, drifted>>

\* The file is open, confirmed if need be: the handle is the caller's, or
\* truncate's, which goes on to the SETATTR.
Opened(t) ==
  /\ \/ Succeeds(t, "open") /\ ~reply[t].confirm
     \/ Succeeds(t, "confirm")
  /\ seqid' = seqid + 1
  /\ handle' = [handle EXCEPT ![t] = [open |-> TRUE, file |-> reply[t].file,
                                      asked |-> call[t].asked]]
  /\ leaked' = leaked \ {reply[t].file}
  /\ Leave(t, IF call[t].op = "truncate" THEN "setattr" ELSE "idle")
  /\ UNCHANGED <<begun, wire, srv, drifted>>

\* truncate's SETATTR, without the mutex or a seqid: if it fails truncate
\* returns, and nothing closes the file.
SetAttr(t) ==
  /\ pc[t] = "setattr"
  /\ \/ /\ pc' = [pc EXCEPT ![t] = "enter"]
        /\ call' = [call EXCEPT ![t].kind = "close", ![t].file = handle[t].file]
        /\ UNCHANGED <<handle, leaked>>
     \/ /\ "setattr" \in Faults
        /\ pc' = [pc EXCEPT ![t] = "idle"]
        /\ leaked' = leaked \cup {handle[t].file}
        /\ handle' = [handle EXCEPT ![t] = NoHandle]
        /\ call' = [call EXCEPT ![t] = NoCall]
  /\ UNCHANGED <<seqid, mutex, begun, wire, reply, srv, drifted>>

\* fileFH.close
Closed(t) ==
  /\ Succeeds(t, "close")
  /\ seqid' = seqid + 1
  /\ handle' = [handle EXCEPT ![t] = NoHandle]
  /\ Leave(t, "idle")
  /\ UNCHANGED <<begun, wire, srv, drifted, leaked>>

Locked(t) ==
  /\ Succeeds(t, "lock")
  /\ seqid' = seqid + 1
  /\ Leave(t, "idle")
  /\ UNCHANGED <<begun, handle, wire, srv, drifted, leaked>>

-----------------------------------------------------------------------------
(* The server, which takes the requests one by one.                        *)

Request == Head(wire).call
Late    == Head(wire).from = None

Answer(r) ==
  /\ wire' = Tail(wire)
  /\ reply' = IF Late THEN reply ELSE [reply EXCEPT ![Head(wire).from] = r]
  /\ UNCHANGED <<seqid, mutex, begun, pc, call, handle, leaked>>

Error(status) == [status |-> status, file |-> None, confirm |-> FALSE]

\* An owner that is not confirmed may open with any seqid.
InTurn == Request.seq = srv.next \/ (Request.kind = "open" /\ ~srv.confirmed)

\* The compound stops before the operation with the seqid.
StopBefore ==
  /\ "before" \in Faults /\ wire # <<>>
  /\ \E s \in {"bump", "keep"} :
       /\ Answer(Error(s))
       /\ drifted' = (drifted \/ (s = "bump" /\ ~Late))
  /\ UNCHANGED srv

\* The RPC is rejected.
Reject ==
  /\ "reject" \in Faults /\ wire # <<>>
  /\ Answer(Error("void"))
  /\ drifted' = (drifted \/ ~Late)
  /\ UNCHANGED srv

\* NFS4ERR_BAD_SEQID
BadSeqid ==
  /\ wire # <<>> /\ ~InTurn
  /\ Answer(Error("keep"))
  /\ UNCHANGED <<srv, drifted>>

\* The seqid of the last operation again: the server repeats its reply.
Replay ==
  /\ wire # <<>> /\ ~InTurn
  /\ Request.seq = srv.next - 1 /\ Request.kind = srv.last.kind
  /\ Answer(srv.last.reply)
  /\ drifted' = (drifted \/ (~Late /\ srv.last.reply.status = "keep"))
  /\ UNCHANGED srv

\* NFS4ERR_BAD_STATEID: the file is not open, or no longer.
BadStateid ==
  /\ wire # <<>> /\ InTurn
  /\ Request.kind # "open" /\ Request.file \notin srv.opens
  /\ Answer(Error("keep"))
  /\ UNCHANGED <<srv, drifted>>

\* The operation is refused: for most errors its seqid is used up.
Refuse ==
  /\ "refuse" \in Faults /\ wire # <<>> /\ InTurn
  /\ \/ /\ Answer(Error("bump"))
        /\ srv' = [srv EXCEPT !.next = Request.seq + 1,
                              !.last = [kind |-> Request.kind, reply |-> Error("bump")]]
        /\ drifted' = (drifted \/ Late)
     \/ Answer(Error("keep")) /\ UNCHANGED <<srv, drifted>>

\* The operation is executed.  Opening with an owner that is not confirmed
\* discards what it had open.  An operation after it may fail.
Execute ==
  /\ wire # <<>> /\ InTurn
  /\ Request.kind = "open" \/ Request.file \in srv.opens
  /\ \E confirm \in IF Request.kind = "open" /\ ~srv.confirmed THEN BOOLEAN ELSE {FALSE} :
     LET done == [status |-> "ok", file |-> Request.file, confirm |-> confirm] IN
     \E s \in IF "after" \in Faults /\ Request.kind \in {"open", "close"}
              THEN {"ok", "bump", "keep"} ELSE {"ok"} :
       /\ Answer([done EXCEPT !.status = s])
       /\ drifted' = (drifted \/ Late \/ s = "keep")
       /\ srv' = [confirmed |-> srv.confirmed \/ ~confirm,
                  next |-> Request.seq + 1,
                  opens |-> CASE Request.kind = "open" ->
                                   (IF srv.confirmed THEN srv.opens ELSE {}) \cup {Request.file}
                              [] Request.kind = "close" -> srv.opens \ {Request.file}
                              [] OTHER -> srv.opens,
                  last |-> [kind |-> Request.kind, reply |-> done]]

-----------------------------------------------------------------------------
Serve == StopBefore \/ Reject \/ BadSeqid \/ Replay \/ BadStateid \/ Refuse \/ Execute

Call(t) ==
  \/ \E f \in Files : Create(t, f) \/ Open(t, f) \/ OpenPath(t, f) \/ Truncate(t, f)
  \/ Close(t) \/ Lock(t)

Step(t) ==
  \/ Enter(t) \/ Send(t) \/ CallFails(t) \/ Failed(t) \/ Undecoded(t)
  \/ Confirm(t) \/ Opened(t) \/ SetAttr(t) \/ Closed(t) \/ Locked(t)

\* All operations begun have returned, and nothing is on its way.
Done == /\ begun = MaxOps /\ wire = <<>> /\ \A t \in Threads : pc[t] = "idle"
        /\ UNCHANGED vars

Next == Serve \/ (\E t \in Threads : Call(t) \/ Step(t)) \/ Done

\* A call ends by its reply or its timeout, and a thread takes its steps.  The
\* mutex need not be fair: the operations are bounded by MaxOps.
Fairness == WF_vars(Serve) /\ \A t \in Threads : WF_vars(Step(t))

Spec == Init /\ [][Next]_vars /\ Fairness

-----------------------------------------------------------------------------
(* Properties.                                                             *)

\* The owner's seqid is the one the server expects whenever no call is under
\* way, unless a call timed out whose request the server executed, an RPC was
\* rejected, or an error code was that of another operation of the compound:
\* the increments of src/src/Nfs4ApiHandle.cpp:855-873 and their like miss no
\* other case.
SeqidInStep == mutex = None /\ srv.confirmed /\ ~drifted => seqid = srv.next

\* No request overtakes one with a lower seqid on its way to the server: what
\* m_file_op_seqid_mutex is for (src/src/Nfs4ApiHandle.cpp:769-777).
SeqidsAreOrdered ==
  \A i, j \in DOMAIN wire : i < j => wire[i].call.seq <= wire[j].call.seq

\* The file a handle stands for is the one that was asked for: the reply of an
\* OPEN is never that of an earlier one, as long as the seqids are in step.
RightFile ==
  ~drifted => \A t \in Threads : handle[t].open => handle[t].file = handle[t].asked

\* A file the server holds open is in a handle, in a call under way, or was
\* left behind by a call that failed after its OPEN: no call that succeeds
\* loses one.
EveryOpenIsHeld ==
  ~drifted => \A f \in srv.opens \ leaked : \E t \in Threads :
    \/ handle[t].open /\ handle[t].file = f
    \/ pc[t] # "idle" /\ call[t].file = f

\* A thread that has a handle on the file waits for the reply to its CLOSE.
ClosingIt(f) ==
  \E t \in Threads : /\ pc[t] = "wait" /\ call[t].kind = "close"
                     /\ handle[t].open /\ handle[t].file = f

\* The server gives up an open file only to the CLOSE of a thread that has a
\* handle on it, or if a failed call had left it behind: no other open and no
\* other thread's failure closes a file under its holder.  Two handles on one
\* file are one open, which the first close ends
\* (src/src/Nfs4ApiHandle.cpp:1593-1650).
OpensEndByClose ==
  [][~drifted' => \A f \in srv.opens \ srv'.opens : f \in leaked \/ ClosingIt(f)]_vars

\* Every operation returns, however its compounds fail: the mutex is released
\* on every path.
EveryOperationReturns == \A t \in Threads : pc[t] # "idle" ~> pc[t] = "idle"

=============================================================================
