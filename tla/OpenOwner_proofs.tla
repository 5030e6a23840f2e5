--------------------------- MODULE OpenOwner_proofs ---------------------------
(***************************************************************************)
(* Theorems about OpenOwner, for every set of threads and files, any       *)
(* number of operations and whatever may go wrong.                         *)
(***************************************************************************)
EXTENDS OpenOwner, SequenceTheorems, TLAPS

USE OwnerAssumption DEF OwnerAssumption

(***************************************************************************)
(* The invariant, by its parts.                                            *)
(***************************************************************************)
\* Where a thread is, and what it has: m_file_op_seqid_mutex is with the one that
\* has a compound under way, which carries the seqid; a handle is open but for an
\* operation that opens one.
HasMutex(t) == pc[t] \in {"send", "wait"}
InCall(t) == pc[t] \in {"enter", "send", "wait"}
ThreadFits(t) ==
  /\ mutex = t <=> HasMutex(t)
  /\ HasMutex(t) => call[t].seq = seqid
  /\ pc[t] # "wait" => reply[t] = NoReply
  /\ pc[t] # "idle" => call[t].file \in Files /\ call[t].asked \in Files
  /\ pc[t] = "enter" => call[t].kind # "confirm"
  /\ pc[t] = "setattr" => handle[t].open
  /\ InCall(t) /\ call[t].kind = "lock" => call[t].op = "lock"
  /\ InCall(t) => IF call[t].kind \in {"open", "confirm"} THEN ~handle[t].open
                  ELSE handle[t].open /\ handle[t].file = call[t].file
ThreadsFit == \A t \in Threads : ThreadFits(t)

\* A request on its way is that of the thread that waits for it, or of none.
RequestsFit ==
  /\ \A i \in DOMAIN wire :
       /\ wire[i].call.seq <= seqid /\ wire[i].call.file \in Files
       /\ wire[i].from # None => /\ pc[wire[i].from] = "wait"
                                 /\ reply[wire[i].from] = NoReply
                                 /\ wire[i].call = call[wire[i].from]
  /\ \A i, j \in DOMAIN wire : wire[i].from = wire[j].from /\ i # j => wire[i].from = None

\* A reply to an operation of a kind names a file if it was executed, and an owner
\* that need not confirm is confirmed.
ReplyFits(confirmed, kind, r) ==
  r.status = "ok" => /\ r.file \in Files
                     /\ kind # "open" => ~r.confirm
                     /\ ~r.confirm => confirmed
RepliesFit ==
  /\ \A t \in Threads : reply[t].status = "none" => reply[t] = NoReply
  /\ \A t \in Threads : ReplyFits(srv.confirmed, call[t].kind, reply[t])
  /\ ReplyFits(srv.confirmed, srv.last.kind, srv.last.reply)
  /\ srv.last.kind # "none" => srv.last.reply.status \in {"ok", "bump"}
  /\ \A t \in Threads : handle[t].open => srv.confirmed

\* What the server expects: the seqid of the compound under way until it has used
\* it up, then the next.
NextFits(t) ==
  HasMutex(t) =>
    /\ reply[t].status # "void"
    /\ reply[t].status \in {"none", "keep"} /\ (srv.confirmed \/ call[t].kind # "open") =>
         srv.next = seqid
    /\ reply[t].status \in {"ok", "bump"} => srv.next = seqid + 1
SeqidFits ==
  ~drifted => SeqidInStep /\ \A t \in Threads : NextFits(t)

\* The file of a call is the one that was asked for, and so is its reply's.
FileFits(t) ==
  /\ handle[t].open => handle[t].file = handle[t].asked
  /\ InCall(t) /\ call[t].kind \in {"open", "confirm"} => call[t].file = call[t].asked
  /\ (reply[t].status = "ok" \/ reply[t].file # None) => reply[t].file = call[t].file
FilesFit == ~drifted => \A t \in Threads : FileFits(t)

\* Who holds a file the server has open: a handle, an open that was executed or its
\* confirmation.  A close that was executed has closed it.
HeldBy(t, f) ==
  \/ handle[t].open /\ handle[t].file = f
  \/ pc[t] = "wait" /\ call[t].kind = "open" /\ reply[t].file = f
  \/ HasMutex(t) /\ call[t].kind = "confirm" /\ call[t].file = f
OpensAreHeld ==
  ~drifted =>
    /\ \A f \in srv.opens \ leaked : \E t \in Threads : HeldBy(t, f)
    /\ \A t \in Threads : reply[t].status = "ok" /\ call[t].kind = "close" =>
         call[t].file \notin srv.opens

IInv == /\ TypeOK /\ ThreadsFit /\ RequestsFit /\ SeqidsAreOrdered /\ RepliesFit
        /\ SeqidFits /\ FilesFit /\ OpensAreHeld

-----------------------------------------------------------------------------
(***************************************************************************)
(* Types.                                                                  *)
(***************************************************************************)
Requests == [from : Threads \cup {None}, call : Calls]
Handles  == [open : {TRUE}, file : Files, asked : Files] \cup {NoHandle}
Servers  == [confirmed : BOOLEAN, next : Nat, opens : SUBSET Files,
             last : [kind : Kinds \cup {"none"}, reply : Replies]]

LEMMA Nones == NoCall \in Calls /\ NoReply \in Replies /\ NoHandle \in Handles
  BY DEF Calls, Replies, Handles, NoCall, NoReply, NoHandle, Opening, Kinds, MaybeFile

LEMMA InitTypes == Init => TypeOK
  <1> SUFFICES ASSUME Init PROVE TypeOK
    OBVIOUS
  <1>1. srv \in Servers
    BY Nones DEF Init, Servers, Kinds
  <1>0. wire \in Seq(Requests)
    <2>1. <<>> \in Seq(Requests)
      BY EmptySeq
    <2>2. QED
      BY <2>1 DEF Init
  <1>2. /\ seqid \in Nat /\ begun \in 0..MaxOps /\ mutex \in Threads \cup {None}
        /\ leaked \in SUBSET Files
    BY DEF Init
  <1>5. drifted \in BOOLEAN
    BY DEF Init
  <1>3. /\ pc \in [Threads -> {"idle", "enter", "send", "wait", "setattr"}]
        /\ call \in [Threads -> Calls] /\ reply \in [Threads -> Replies]
        /\ handle \in [Threads -> Handles]
    BY Nones DEF Init
  <1>4. QED
    BY <1>0, <1>1, <1>2, <1>3, <1>5 DEF TypeOK, Servers, Handles, Requests

\* A request taken out of the middle of the wire leaves the others in their order.
LEMMA RemoveAt ==
  ASSUME NEW S, NEW s \in Seq(S), NEW i \in 1..Len(s)
  PROVE  LET r == SubSeq(s, 1, i - 1) \o SubSeq(s, i + 1, Len(s)) IN
         /\ r \in Seq(S) /\ DOMAIN r = 1..(Len(s) - 1)
         /\ \A j \in 1..(Len(s) - 1) : r[j] = IF j < i THEN s[j] ELSE s[j + 1]
  <1> DEFINE a == SubSeq(s, 1, i - 1)
             b == SubSeq(s, i + 1, Len(s))
  <1>1. Len(s) \in Nat
    OBVIOUS
  <1>2. /\ a \in Seq(S) /\ Len(a) = i - 1
        /\ \A j \in 1..(i - 1) : a[j] = s[j]
    BY <1>1
  <1>3. /\ b \in Seq(S) /\ Len(b) = Len(s) - i
        /\ \A j \in 1..(Len(s) - i) : b[j] = s[i + j]
    BY <1>1
  <1> HIDE DEF a, b
  <1>4. a \o b \in Seq(S) /\ Len(a \o b) = Len(s) - 1
    <2>1. a \o b \in Seq(S) /\ Len(a \o b) = Len(a) + Len(b)
      BY <1>2, <1>3, ConcatProperties
    <2>2. QED
      BY <1>1, <1>2, <1>3, <2>1
  <1>5. ASSUME NEW j \in 1..(Len(s) - 1)
        PROVE  (a \o b)[j] = IF j < i THEN s[j] ELSE s[j + 1]
    <2>1. CASE j < i
      BY <1>1, <1>2, <1>3, <2>1
    <2>2. CASE ~(j < i)
      <3>1. (a \o b)[j] = b[j - (i - 1)]
        BY <1>1, <1>2, <1>3, <2>2
      <3>2. QED
        BY <1>1, <1>3, <3>1, <2>2
    <2>3. QED
      BY <2>1, <2>2
  <1>6. DOMAIN (a \o b) = 1..(Len(s) - 1)
    BY <1>4
  <1>7. QED
    BY <1>4, <1>5, <1>6 DEF a, b

\* What a call that fails and a reply do to the wire: the requests left keep their
\* order and their calls, and none gets an owner.
Same(i, k) == wire'[i].call = wire[k].call /\ wire'[i].from \in {wire[k].from, None}
Thinned ==
  /\ wire' \in Seq(Requests)
  /\ \A i \in DOMAIN wire' : \E k \in DOMAIN wire : Same(i, k)
  /\ \A i, j \in DOMAIN wire' : i < j =>
       \E k, l \in DOMAIN wire : k < l /\ Same(i, k) /\ Same(j, l)

\* The request of a call that fails is lost or nobody's, or it was answered.
LEMMA FailureThins ==
  ASSUME TypeOK, RequestsFit, NEW t \in Threads, CallFails(t)
  PROVE  Thinned /\ \A i \in DOMAIN wire' : wire'[i].from # t
  <1>1. wire \in Seq(Requests) /\ Len(wire) \in Nat /\ DOMAIN wire = 1..Len(wire)
    BY DEF TypeOK, Requests
  <1>2. t # None
    OBVIOUS
  <1>3. CASE reply[t] # NoReply /\ UNCHANGED wire
    BY <1>1, <1>2, <1>3 DEF Thinned, Same, RequestsFit
  <1>4. ASSUME NEW i \in DOMAIN wire, wire[i].from = t,
               wire' = [wire EXCEPT ![i].from = None]
        PROVE  Thinned /\ \A j \in DOMAIN wire' : wire'[j].from # t
    <2>0. [wire[i] EXCEPT !.from = None] \in Requests
      <3>1. wire[i] \in Requests
        BY <1>1, ElementOfSeq
      <3>2. QED
        BY <3>1 DEF Requests
    <2>1. wire' \in Seq(Requests) /\ DOMAIN wire' = DOMAIN wire
      BY <1>1, <1>4, <2>0
    <2>2. \A j \in DOMAIN wire : wire'[j] = IF j = i THEN [wire[i] EXCEPT !.from = None] ELSE wire[j]
      BY <1>1, <1>4
    <2>3. \A j \in DOMAIN wire : wire[j] \in Requests
      BY <1>1
    <2>4. \A j \in DOMAIN wire : Same(j, j)
      BY <2>2, <2>3 DEF Requests, Same
    <2>5. \A j \in DOMAIN wire : wire'[j].from # t
      BY <1>2, <1>4, <2>2, <2>3 DEF Requests, RequestsFit
    <2>6. QED
      BY <2>1, <2>4, <2>5 DEF Thinned
  <1>5. ASSUME NEW i \in DOMAIN wire, wire[i].from = t,
               wire' = SubSeq(wire, 1, i - 1) \o SubSeq(wire, i + 1, Len(wire))
        PROVE  Thinned /\ \A j \in DOMAIN wire' : wire'[j].from # t
    <2>1. /\ wire' \in Seq(Requests) /\ DOMAIN wire' = 1..(Len(wire) - 1)
          /\ \A j \in DOMAIN wire' : wire'[j] = IF j < i THEN wire[j] ELSE wire[j + 1]
      <3>1. i \in 1..Len(wire)
        BY <1>1
      <3>2. LET r == SubSeq(wire, 1, i - 1) \o SubSeq(wire, i + 1, Len(wire)) IN
            /\ r \in Seq(Requests) /\ DOMAIN r = 1..(Len(wire) - 1)
            /\ \A j \in 1..(Len(wire) - 1) : r[j] = IF j < i THEN wire[j] ELSE wire[j + 1]
        BY <1>1, <3>1, RemoveAt
      <3>3. QED
        BY <1>1, <1>5, <3>2
    <2>2. \A j \in DOMAIN wire' : /\ j < i => Same(j, j) /\ j \in DOMAIN wire
                                  /\ j >= i => Same(j, j + 1) /\ j + 1 \in DOMAIN wire
      BY <1>1, <2>1 DEF Same
    <2>3. ASSUME NEW j \in DOMAIN wire' PROVE wire'[j].from # t
      <3>1. \A k \in DOMAIN wire : k # i => wire[k].from # t
        BY <1>2, <1>5 DEF RequestsFit
      <3>2. CASE j < i
        BY <1>1, <2>1, <2>2, <3>1, <3>2
      <3>3. CASE j >= i
        BY <1>1, <2>1, <2>2, <3>1, <3>3
      <3>4. QED
        BY <1>1, <2>1, <3>2, <3>3
    <2>4. ASSUME NEW j \in DOMAIN wire', NEW l \in DOMAIN wire', j < l
          PROVE  \E m, n \in DOMAIN wire : m < n /\ Same(j, m) /\ Same(l, n)
      <3>1. CASE l < i
        BY <1>1, <2>1, <2>2, <2>4, <3>1
      <3>2. CASE j < i /\ l >= i
        BY <1>1, <2>1, <2>2, <2>4, <3>2
      <3>3. CASE j >= i
        BY <1>1, <2>1, <2>2, <2>4, <3>3
      <3>4. QED
        BY <1>1, <2>1, <3>1, <3>2, <3>3
    <2>5. \A j \in DOMAIN wire' : \E k \in DOMAIN wire : Same(j, k)
      BY <1>1, <2>1, <2>2
    <2>6. QED
      BY <2>1, <2>3, <2>4, <2>5 DEF Thinned
  <1>6. QED
    BY <1>3, <1>4, <1>5 DEF CallFails

\* The server takes the request in front.
LEMMA AnswerThins ==
  ASSUME TypeOK, RequestsFit, wire # <<>>, NEW r, Answer(r)
  PROVE  /\ Thinned /\ Head(wire) \in Requests
         /\ ~Late => /\ Head(wire).from \in Threads
                     /\ \A i \in DOMAIN wire' : wire'[i].from # Head(wire).from
  <1>1. wire \in Seq(Requests) /\ Len(wire) \in Nat /\ DOMAIN wire = 1..Len(wire)
    BY DEF TypeOK, Requests
  <1>2. /\ wire' \in Seq(Requests) /\ Head(wire) = wire[1] /\ 1 \in DOMAIN wire
        /\ DOMAIN wire' = 1..(Len(wire) - 1)
        /\ \A i \in DOMAIN wire' : wire'[i] = wire[i + 1] /\ i + 1 \in DOMAIN wire
    BY <1>1 DEF Answer
  <1>3. \A i \in DOMAIN wire' : Same(i, i + 1)
    BY <1>2 DEF Same
  <1>4. Thinned
    BY <1>1, <1>2, <1>3 DEF Thinned
  <1>5. Head(wire) \in Requests
    BY <1>1, <1>2
  <1>6. ASSUME ~Late
        PROVE  /\ Head(wire).from \in Threads
               /\ \A i \in DOMAIN wire' : wire'[i].from # Head(wire).from
    <2>1. \A i \in DOMAIN wire' : i + 1 # 1
      BY <1>1, <1>2
    <2>2. QED
      BY <1>2, <1>5, <1>6, <2>1 DEF RequestsFit, Late, Requests
  <1>7. QED
    BY <1>4, <1>5, <1>6

\* The types, one variable at a time.
PcValues == {"idle", "enter", "send", "wait", "setattr"}
Typed ==
  /\ seqid \in Nat /\ begun \in 0..MaxOps /\ mutex \in Threads \cup {None}
  /\ pc \in [Threads -> PcValues] /\ call \in [Threads -> Calls]
  /\ handle \in [Threads -> Handles] /\ wire \in Seq(Requests)
  /\ reply \in [Threads -> Replies] /\ srv \in Servers
  /\ drifted \in BOOLEAN /\ leaked \in SUBSET Files

LEMMA TypedIsTypeOK == (TypeOK <=> Typed) /\ (TypeOK' <=> Typed')
  BY DEF TypeOK, Typed, PcValues, Handles, Requests, Servers

LEMMA BeginTypes ==
  ASSUME Typed, NEW t \in Threads, NEW op \in Opening \cup {"close", "lock"},
         NEW kind \in Kinds, NEW asked \in MaybeFile, NEW file \in MaybeFile,
         Begin(t, op, kind, asked, file)
  PROVE  Typed'
  <1>1. [op |-> op, kind |-> kind, asked |-> asked, file |-> file, seq |-> 0] \in Calls
    BY DEF Calls
  <1>2. call' \in [Threads -> Calls]
    BY <1>1 DEF Begin, Typed
  <1>3. pc' \in [Threads -> PcValues]
    BY DEF Begin, Typed, PcValues
  <1>4. begun' \in 0..MaxOps
    BY DEF Begin, Typed
  <1>5. QED
    BY <1>2, <1>3, <1>4 DEF Begin, Typed

\* An open handle is of a file.
LEMMA OpenHandles ==
  ASSUME NEW h \in Handles
  PROVE  /\ h.open \in BOOLEAN
         /\ h.open => h.file \in Files /\ h.asked \in Files
  <1>1. CASE h \in [open : {TRUE}, file : Files, asked : Files]
    BY <1>1
  <1>2. CASE h = NoHandle
    <2>1. h.open = FALSE
      BY <1>2 DEF NoHandle
    <2>2. QED
      BY <2>1
  <1>3. QED
    BY <1>1, <1>2 DEF Handles

LEMMA CallTypes ==
  ASSUME Typed, NEW t \in Threads, Call(t)
  PROVE  Typed'
  <1>1. handle[t].open => handle[t].file \in MaybeFile /\ handle[t].asked \in MaybeFile
    BY OpenHandles DEF Typed, MaybeFile
  <1>2. \A op \in {"open", "openPath", "truncate", "close", "lock"} :
          op \in Opening \cup {"close", "lock"}
    BY DEF Opening
  <1>3. "open" \in Kinds /\ "close" \in Kinds /\ "lock" \in Kinds /\ Files \subseteq MaybeFile
    BY DEF Kinds, MaybeFile
  <1>4. ASSUME NEW f \in Files, Create(t, f) \/ Open(t, f) \/ OpenPath(t, f) \/ Truncate(t, f)
        PROVE  Typed'
    BY <1>2, <1>3, <1>4, BeginTypes DEF Create, Open, OpenPath, Truncate
  <1>5. CASE Close(t)
    BY <1>1, <1>2, <1>3, <1>5, BeginTypes DEF Close
  <1>6. CASE Lock(t)
    BY <1>1, <1>2, <1>3, <1>6, BeginTypes DEF Lock
  <1>7. QED
    BY <1>4, <1>5, <1>6 DEF Call

\* What a thread leaves as it goes on or returns.
LEMMA LeaveTypes ==
  ASSUME Typed, NEW t \in Threads, NEW next \in {"idle", "setattr"}, Leave(t, next)
  PROVE  /\ mutex' = None /\ pc' \in [Threads -> PcValues]
         /\ call' \in [Threads -> Calls] /\ reply' \in [Threads -> Replies]
  BY Nones DEF Typed, Leave, Forget, PcValues

LEMMA ReturnFalseTypes ==
  ASSUME Typed, ThreadsFit, NEW t \in Threads, pc[t] = "wait", ReturnFalse(t)
  PROVE  /\ mutex' = None /\ pc' \in [Threads -> PcValues]
         /\ call' \in [Threads -> Calls] /\ reply' \in [Threads -> Replies]
         /\ handle' \in [Threads -> Handles] /\ leaked' \in SUBSET Files
  <1>1. Leave(t, "idle")
    BY DEF ReturnFalse
  <1>2. handle' \in [Threads -> Handles]
    BY Nones DEF ReturnFalse, Typed
  <1>3. reply[t] \in Replies /\ call[t].file \in Files
    BY DEF Typed, ThreadsFit, ThreadFits
  <1>4. LeftOpen(t) \in SUBSET Files
    BY <1>3 DEF LeftOpen, Replies, MaybeFile
  <1>5. leaked' \in SUBSET Files
    BY <1>4 DEF ReturnFalse, Typed
  <1>6. QED
    BY <1>1, <1>2, <1>5, LeaveTypes

LEMMA StepTypes ==
  ASSUME Typed, ThreadsFit, RequestsFit, RepliesFit, NEW t \in Threads, Step(t)
  PROVE  Typed'
  <1>1. CASE Enter(t)
    <2>0. [call[t] EXCEPT !.seq = seqid] \in Calls
      BY DEF Typed, Calls
    <2>1. call' \in [Threads -> Calls]
      BY <1>1, <2>0 DEF Enter, Typed
    <2>2. QED
      BY <1>1, <2>1 DEF Enter, Typed, PcValues
  <1>2. CASE Send(t)
    <2>1. [from |-> t, call |-> call[t]] \in Requests
      BY DEF Typed, Requests
    <2>2. wire' \in Seq(Requests)
      BY <1>2, <2>1, AppendProperties DEF Send, Typed
    <2>3. QED
      BY <1>2, <2>2 DEF Send, Typed, PcValues
  <1>3. CASE CallFails(t)
    <2>1. wire' \in Seq(Requests)
      BY <1>3, TypedIsTypeOK, FailureThins DEF Thinned
    <2>2. drifted' \in BOOLEAN
      BY <1>3 DEF CallFails, Typed
    <2>3. QED
      BY <1>3, <2>1, <2>2, ReturnFalseTypes DEF CallFails, Typed
  <1>4. CASE Failed(t)
    BY <1>4, ReturnFalseTypes DEF Failed, Typed
  <1>5. CASE Undecoded(t)
    BY <1>5, ReturnFalseTypes DEF Undecoded, Typed
  <1>6. CASE Confirm(t)
    <2>1. reply[t].file \in MaybeFile /\ call[t] \in Calls /\ seqid + 1 \in Nat
      BY DEF Typed, Replies
    <2>2. [call[t] EXCEPT !.kind = "confirm", !.file = reply[t].file, !.seq = seqid + 1] \in Calls
      <3>1. "confirm" \in Kinds
        BY DEF Kinds
      <3>2. QED
        BY <2>1, <3>1 DEF Calls
    <2>3. call' \in [Threads -> Calls]
      BY <1>6, <2>2 DEF Confirm, Typed
    <2>4. reply' \in [Threads -> Replies]
      BY <1>6, Nones DEF Confirm, Forget, Typed
    <2>5. QED
      BY <1>6, <2>3, <2>4 DEF Confirm, Typed, PcValues
  <1>7. CASE Opened(t)
    <2>1. reply[t].file \in Files /\ call[t].asked \in Files
      BY <1>7 DEF Opened, Succeeds, RepliesFit, ReplyFits, ThreadsFit, ThreadFits
    <2>2. [open |-> TRUE, file |-> reply[t].file, asked |-> call[t].asked] \in Handles
      BY <2>1 DEF Handles
    <2>3. handle' \in [Threads -> Handles]
      BY <1>7, <2>2 DEF Opened, Typed
    <2>4. QED
      BY <1>7, <2>3, LeaveTypes DEF Opened, Typed
  <1>8. CASE SetAttr(t)
    <2>1. handle[t].file \in Files /\ call[t] \in Calls
      BY <1>8, OpenHandles DEF SetAttr, Typed, ThreadsFit, ThreadFits
    <2>2. [call[t] EXCEPT !.kind = "close", !.file = handle[t].file] \in Calls
      BY <2>1 DEF Calls, Kinds, MaybeFile
    <2>3. call' \in [Threads -> Calls]
      BY <1>8, <2>2, Nones DEF SetAttr, Typed
    <2>4. handle' \in [Threads -> Handles]
      BY <1>8, Nones DEF SetAttr, Typed
    <2>5. pc' \in [Threads -> PcValues] /\ leaked' \in SUBSET Files
      BY <1>8, <2>1 DEF SetAttr, Typed, PcValues
    <2>6. QED
      BY <1>8, <2>3, <2>4, <2>5 DEF SetAttr, Typed
  <1>9. CASE Closed(t)
    <2>1. handle' \in [Threads -> Handles]
      BY <1>9, Nones DEF Closed, Typed
    <2>2. QED
      BY <1>9, <2>1, LeaveTypes DEF Closed, Typed
  <1>10. CASE Locked(t)
    BY <1>10, LeaveTypes DEF Locked, Typed
  <1>11. QED
    BY <1>1, <1>2, <1>3, <1>4, <1>5, <1>6, <1>7, <1>8, <1>9, <1>10 DEF Step

\* What every answer leaves, whatever it is.
LEMMA AnswerTypes ==
  ASSUME Typed, RequestsFit, wire # <<>>, NEW r \in Replies, Answer(r)
  PROVE  /\ wire' \in Seq(Requests) /\ reply' \in [Threads -> Replies]
         /\ Request \in Calls /\ Request.file \in Files
         /\ UNCHANGED <<seqid, mutex, begun, pc, call, handle, leaked>>
  <1>1. Thinned /\ Head(wire) \in Requests
    BY TypedIsTypeOK, AnswerThins
  <1>2. reply' \in [Threads -> Replies]
    BY <1>1 DEF Answer, Typed
  <1>3. Request \in Calls
    BY <1>1 DEF Request, Requests
  <1>4. Request.file \in Files
    BY HeadTailProperties DEF Typed, RequestsFit, Request
  <1>5. QED
    BY <1>1, <1>2, <1>3, <1>4 DEF Thinned, Answer

LEMMA ServeTypes ==
  ASSUME Typed, RequestsFit, Serve
  PROVE  Typed'
  <1> DEFINE Rest == UNCHANGED <<seqid, mutex, begun, pc, call, handle, leaked>>
  <1>1. \A s \in {"bump", "keep", "void"} : Error(s) \in Replies
    BY DEF Error, Replies, MaybeFile
  <1>2. /\ srv.last.reply \in Replies /\ srv.last.kind \in Kinds \cup {"none"}
        /\ srv.confirmed \in BOOLEAN /\ srv.next \in Nat /\ srv.opens \in SUBSET Files
    BY DEF Typed, Servers
  <1>3. CASE StopBefore
    <2>1. drifted' \in BOOLEAN
      BY <1>3 DEF StopBefore, Typed
    <2>2. QED
      BY <1>1, <1>3, <2>1, AnswerTypes DEF StopBefore, Typed
  <1>4. CASE Reject
    <2>1. drifted' \in BOOLEAN
      BY <1>4 DEF Reject, Typed
    <2>2. QED
      BY <1>1, <1>4, <2>1, AnswerTypes DEF Reject, Typed
  <1>5. CASE BadSeqid \/ BadStateid
    BY <1>1, <1>5, AnswerTypes DEF BadSeqid, BadStateid, Typed
  <1>6. CASE Replay
    <2>1. drifted' \in BOOLEAN
      BY <1>6 DEF Replay, Typed
    <2>2. QED
      BY <1>2, <1>6, <2>1, AnswerTypes DEF Replay, Typed
  <1>7. CASE Refuse
    <2>1. ASSUME Answer(Error("bump")),
                 srv' = [srv EXCEPT !.next = Request.seq + 1,
                                    !.last = [kind |-> Request.kind, reply |-> Error("bump")]],
                 drifted' = (drifted \/ Late)
          PROVE  Typed'
      <3>1. drifted' \in BOOLEAN
        BY <2>1 DEF Typed
      <3>2. Request \in Calls
        BY <1>1, <1>7, <2>1, AnswerTypes DEF Refuse
      <3>3. [kind |-> Request.kind, reply |-> Error("bump")]
              \in [kind : Kinds \cup {"none"}, reply : Replies]
        BY <1>1, <3>2 DEF Calls
      <3>4. srv' \in Servers
        <4>1. srv \in Servers /\ Request.seq + 1 \in Nat
          BY <3>2 DEF Typed, Calls
        <4>2. QED
          BY <2>1, <3>3, <4>1 DEF Servers
      <3>5. QED
        BY <1>1, <1>7, <2>1, <3>1, <3>4, AnswerTypes DEF Refuse, Typed
    <2>2. CASE Answer(Error("keep")) /\ UNCHANGED <<srv, drifted>>
      BY <1>1, <1>7, <2>2, AnswerTypes DEF Refuse, Typed
    <2>3. QED
      BY <1>7, <2>1, <2>2 DEF Refuse
  <1>8. CASE Execute
    <2>1. PICK confirm \in BOOLEAN, s \in {"ok", "bump", "keep"} :
            LET done == [status |-> "ok", file |-> Request.file, confirm |-> confirm] IN
            /\ Answer([done EXCEPT !.status = s])
            /\ drifted' = (drifted \/ Late \/ s = "keep")
            /\ srv' = [confirmed |-> srv.confirmed \/ ~confirm,
                       next |-> Request.seq + 1,
                       opens |-> CASE Request.kind = "open" ->
                                        (IF srv.confirmed THEN srv.opens ELSE {}) \cup {Request.file}
                                   [] Request.kind = "close" -> srv.opens \ {Request.file}
                                   [] OTHER -> srv.opens,
                       last |-> [kind |-> Request.kind, reply |-> done]]
      BY <1>8 DEF Execute
    <2> DEFINE done == [status |-> "ok", file |-> Request.file, confirm |-> confirm]
    <2>2. Request \in Calls /\ Request.file \in Files
      <3>1. Head(wire) \in Requests
        BY <1>8, HeadTailProperties DEF Execute, Typed
      <3>2. Request.file \in Files
        BY <1>8, HeadTailProperties DEF Execute, Typed, RequestsFit, Request
      <3>3. QED
        BY <3>1, <3>2 DEF Request, Requests
    <2>3. done \in Replies /\ [done EXCEPT !.status = s] \in Replies
      BY <2>2 DEF Replies, MaybeFile
    <2>4. drifted' \in BOOLEAN
      BY <2>1 DEF Typed
    <2>5. [kind |-> Request.kind, reply |-> done]
              \in [kind : Kinds \cup {"none"}, reply : Replies]
      BY <2>2, <2>3 DEF Calls
    <2>6. (CASE Request.kind = "open" ->
                (IF srv.confirmed THEN srv.opens ELSE {}) \cup {Request.file}
             [] Request.kind = "close" -> srv.opens \ {Request.file}
             [] OTHER -> srv.opens) \in SUBSET Files
      BY <1>2, <2>2
    <2>7. srv' \in Servers
      BY <1>2, <2>1, <2>2, <2>5, <2>6 DEF Servers, Calls
    <2>8. QED
      BY <1>8, <2>1, <2>3, <2>4, <2>7, AnswerTypes DEF Execute, Typed
  <1>9. QED
    BY <1>3, <1>4, <1>5, <1>6, <1>7, <1>8 DEF Serve

\* The steps of Next, and of none.
LEMMA NextTypes ==
  ASSUME IInv, [Next]_vars
  PROVE  TypeOK'
  <1>1. Typed
    BY TypedIsTypeOK DEF IInv
  <1>2. CASE Serve
    BY <1>1, <1>2, ServeTypes, TypedIsTypeOK DEF IInv
  <1>3. ASSUME NEW t \in Threads, Call(t)
        PROVE  TypeOK'
    BY <1>1, <1>3, CallTypes, TypedIsTypeOK
  <1>4. ASSUME NEW t \in Threads, Step(t)
        PROVE  TypeOK'
    BY <1>1, <1>4, StepTypes, TypedIsTypeOK DEF IInv
  <1>5. CASE UNCHANGED vars
    BY <1>5 DEF IInv, TypeOK, vars
  <1>6. QED
    BY <1>2, <1>3, <1>4, <1>5 DEF Next, Done

-----------------------------------------------------------------------------
(***************************************************************************)
(* What a thread's step does to the thread, and to no other.               *)
(***************************************************************************)
Apart(t) ==
  \A u \in Threads \ {t} : /\ pc'[u] = pc[u] /\ call'[u] = call[u]
                           /\ handle'[u] = handle[u] /\ reply'[u] = reply[u]

LEMMA BeginEffect ==
  ASSUME Typed, NEW t \in Threads, NEW op, NEW kind, NEW asked, NEW file,
         Begin(t, op, kind, asked, file)
  PROVE  /\ Apart(t) /\ pc'[t] = "enter"
         /\ call'[t] = [op |-> op, kind |-> kind, asked |-> asked, file |-> file, seq |-> 0]
         /\ handle' = handle /\ reply' = reply
         /\ UNCHANGED <<seqid, mutex, wire, srv, drifted, leaked>>
  BY DEF Begin, Typed, Apart

\* A call that begins opens a file, or uses the one its handle has.
LEMMA CallEffect ==
  ASSUME Typed, NEW t \in Threads, Call(t)
  PROVE  /\ Apart(t) /\ pc[t] = "idle" /\ pc'[t] = "enter"
         /\ UNCHANGED <<handle, reply, seqid, mutex, wire, srv, drifted, leaked>>
         /\ call'[t].file \in Files /\ call'[t].asked \in Files
         /\ \/ /\ call'[t].kind = "open" /\ ~handle[t].open
               /\ call'[t].file = call'[t].asked
            \/ /\ call'[t].kind \in {"close", "lock"} /\ handle[t].open
               /\ call'[t].file = handle[t].file /\ call'[t].op = call'[t].kind
  <1>1. handle[t].open => handle[t].file \in Files /\ handle[t].asked \in Files
    BY OpenHandles DEF Typed
  <1>2. ASSUME NEW f \in Files, Create(t, f) \/ Open(t, f) \/ OpenPath(t, f) \/ Truncate(t, f)
        PROVE  /\ ~handle[t].open
               /\ \E op \in Opening : Begin(t, op, "open", f, f)
    BY <1>2 DEF Create, Open, OpenPath, Truncate, Opening
  <1>3. ASSUME NEW f \in Files, Create(t, f) \/ Open(t, f) \/ OpenPath(t, f) \/ Truncate(t, f)
        PROVE  /\ Apart(t) /\ pc[t] = "idle" /\ pc'[t] = "enter"
               /\ UNCHANGED <<handle, reply, seqid, mutex, wire, srv, drifted, leaked>>
               /\ call'[t].file = f /\ call'[t].asked = f
               /\ call'[t].kind = "open" /\ ~handle[t].open
    <2>1. PICK op \in Opening : Begin(t, op, "open", f, f)
      BY <1>2, <1>3
    <2>2. pc[t] = "idle"
      BY <2>1 DEF Begin
    <2>3. /\ Apart(t) /\ pc'[t] = "enter" /\ handle' = handle /\ reply' = reply
          /\ UNCHANGED <<seqid, mutex, wire, srv, drifted, leaked>>
          /\ call'[t] = [op |-> op, kind |-> "open", asked |-> f, file |-> f, seq |-> 0]
      BY <2>1, BeginEffect
    <2>4. QED
      BY <1>2, <1>3, <2>2, <2>3
  <1>4. ASSUME NEW k \in {"close", "lock"}, handle[t].open,
               Begin(t, k, k, handle[t].asked, handle[t].file)
        PROVE  /\ Apart(t) /\ pc[t] = "idle" /\ pc'[t] = "enter"
               /\ UNCHANGED <<handle, reply, seqid, mutex, wire, srv, drifted, leaked>>
               /\ call'[t].file = handle[t].file /\ call'[t].asked = handle[t].asked
               /\ call'[t].kind = k /\ call'[t].op = k /\ handle[t].open
    <2>1. pc[t] = "idle"
      BY <1>4 DEF Begin
    <2>2. /\ Apart(t) /\ pc'[t] = "enter" /\ handle' = handle /\ reply' = reply
          /\ UNCHANGED <<seqid, mutex, wire, srv, drifted, leaked>>
          /\ call'[t] = [op |-> k, kind |-> k, asked |-> handle[t].asked,
                         file |-> handle[t].file, seq |-> 0]
      BY <1>4, BeginEffect
    <2>3. QED
      BY <1>4, <2>1, <2>2
  <1>5. CASE Close(t)
    BY <1>1, <1>4, <1>5 DEF Close
  <1>6. CASE Lock(t)
    BY <1>1, <1>4, <1>6 DEF Lock
  <1>7. CASE \E f \in Files : Create(t, f) \/ Open(t, f) \/ OpenPath(t, f) \/ Truncate(t, f)
    BY <1>3, <1>7
  <1>8. QED
    BY <1>5, <1>6, <1>7 DEF Call

LEMMA LeaveEffect ==
  ASSUME Typed, NEW t \in Threads, NEW next, Leave(t, next), handle' = handle
  PROVE  /\ Apart(t) /\ mutex' = None /\ pc'[t] = next /\ reply'[t] = NoReply
         /\ call'[t] = IF next = "idle" THEN NoCall ELSE call[t]
  BY DEF Leave, Forget, Typed, Apart

LEMMA ReturnFalseEffect ==
  ASSUME Typed, NEW t \in Threads, ReturnFalse(t)
  PROVE  /\ Apart(t) /\ mutex' = None /\ pc'[t] = "idle" /\ reply'[t] = NoReply
         /\ call'[t] = NoCall
         /\ handle'[t] = IF call[t].op = "truncate" THEN NoHandle ELSE handle[t]
         /\ leaked' = leaked \cup LeftOpen(t)
  BY DEF ReturnFalse, Leave, Forget, Typed, Apart

LEMMA EnterEffect ==
  ASSUME Typed, NEW t \in Threads, Enter(t)
  PROVE  /\ Apart(t) /\ mutex' = t /\ pc'[t] = "send"
         /\ call'[t].seq = seqid /\ call'[t].kind = call[t].kind
         /\ call'[t].op = call[t].op
         /\ call'[t].file = call[t].file /\ call'[t].asked = call[t].asked
         /\ UNCHANGED <<seqid, handle, wire, reply, srv, drifted, leaked>>
  <1>1. call'[t] = [call[t] EXCEPT !.seq = seqid] /\ call[t] \in Calls
    BY DEF Enter, Typed
  <1>2. Apart(t) /\ pc'[t] = "send"
    BY DEF Enter, Typed, Apart
  <1>3. QED
    BY <1>1, <1>2 DEF Enter, Calls

LEMMA SendEffect ==
  ASSUME Typed, NEW t \in Threads, Send(t)
  PROVE  /\ Apart(t) /\ pc'[t] = "wait"
         /\ UNCHANGED <<seqid, mutex, call, handle, reply, srv, drifted, leaked>>
  BY DEF Send, Typed, Apart

LEMMA ConfirmEffect ==
  ASSUME Typed, NEW t \in Threads, Confirm(t)
  PROVE  /\ Apart(t) /\ pc'[t] = "send" /\ reply'[t] = NoReply /\ seqid' = seqid + 1
         /\ call'[t].seq = seqid + 1 /\ call'[t].kind = "confirm"
         /\ call'[t].file = reply[t].file /\ call'[t].asked = call[t].asked
         /\ UNCHANGED <<mutex, handle, wire, srv, drifted, leaked>>
  <1>1. /\ call'[t] = [call[t] EXCEPT !.kind = "confirm", !.file = reply[t].file,
                                      !.seq = seqid + 1]
        /\ call[t] \in Calls
    BY DEF Confirm, Typed
  <1>2. Apart(t) /\ pc'[t] = "send" /\ reply'[t] = NoReply
    BY DEF Confirm, Forget, Typed, Apart
  <1>3. /\ call'[t].seq = seqid + 1 /\ call'[t].kind = "confirm"
        /\ call'[t].file = reply[t].file /\ call'[t].asked = call[t].asked
    BY <1>1 DEF Calls
  <1>4. QED
    BY <1>2, <1>3 DEF Confirm

LEMMA OpenedEffect ==
  ASSUME Typed, NEW t \in Threads, Opened(t)
  PROVE  /\ Apart(t) /\ mutex' = None /\ reply'[t] = NoReply /\ seqid' = seqid + 1
         /\ handle'[t] = [open |-> TRUE, file |-> reply[t].file, asked |-> call[t].asked]
         /\ leaked' = leaked \ {reply[t].file}
         /\ UNCHANGED <<wire, srv, drifted>>
         /\ \/ pc'[t] = "setattr" /\ call'[t] = call[t]
            \/ pc'[t] = "idle" /\ call'[t] = NoCall
  <1>1. /\ Apart(t) /\ handle'[t] = [open |-> TRUE, file |-> reply[t].file,
                                     asked |-> call[t].asked]
    BY DEF Opened, Leave, Forget, Typed, Apart
  <1>2. \/ pc'[t] = "setattr" /\ call'[t] = call[t]
        \/ pc'[t] = "idle" /\ call'[t] = NoCall
    BY DEF Opened, Leave, Typed
  <1>3. QED
    BY <1>1, <1>2 DEF Opened, Leave, Forget, Typed

\* truncate goes on to its close, or returns.
LEMMA SetAttrEffect ==
  ASSUME Typed, NEW t \in Threads, SetAttr(t)
  PROVE  /\ Apart(t) /\ pc[t] = "setattr"
         /\ UNCHANGED <<seqid, mutex, wire, reply, srv, drifted>>
         /\ \/ /\ pc'[t] = "enter" /\ call'[t].kind = "close"
               /\ call'[t].file = handle[t].file /\ call'[t].asked = call[t].asked
               /\ UNCHANGED <<handle, leaked>>
            \/ /\ pc'[t] = "idle" /\ call'[t] = NoCall /\ handle'[t] = NoHandle
               /\ leaked' = leaked \cup {handle[t].file}
  <1>1. call[t] \in Calls
    BY DEF Typed
  <1>2. CASE /\ pc' = [pc EXCEPT ![t] = "enter"]
             /\ call' = [call EXCEPT ![t].kind = "close", ![t].file = handle[t].file]
             /\ UNCHANGED <<handle, leaked>>
    <2>1. call'[t] = [call[t] EXCEPT !.kind = "close", !.file = handle[t].file]
      BY <1>2 DEF Typed
    <2>2. Apart(t) /\ pc'[t] = "enter"
      BY <1>2 DEF SetAttr, Typed, Apart
    <2>3. /\ call'[t].kind = "close" /\ call'[t].file = handle[t].file
          /\ call'[t].asked = call[t].asked
      BY <1>1, <2>1 DEF Calls
    <2>4. QED
      BY <1>2, <2>2, <2>3 DEF SetAttr
  <1>3. CASE /\ pc' = [pc EXCEPT ![t] = "idle"]
             /\ leaked' = leaked \cup {handle[t].file}
             /\ handle' = [handle EXCEPT ![t] = NoHandle]
             /\ call' = [call EXCEPT ![t] = NoCall]
    BY <1>3 DEF SetAttr, Typed, Apart
  <1>4. QED
    BY <1>2, <1>3 DEF SetAttr

LEMMA ClosedEffect ==
  ASSUME Typed, NEW t \in Threads, Closed(t)
  PROVE  /\ Apart(t) /\ mutex' = None /\ reply'[t] = NoReply /\ seqid' = seqid + 1
         /\ handle'[t] = NoHandle /\ pc'[t] = "idle" /\ call'[t] = NoCall
         /\ UNCHANGED <<wire, srv, drifted, leaked>>
  BY DEF Closed, Leave, Forget, Typed, Apart

LEMMA LockedEffect ==
  ASSUME Typed, NEW t \in Threads, Locked(t)
  PROVE  /\ Apart(t) /\ mutex' = None /\ reply'[t] = NoReply /\ seqid' = seqid + 1
         /\ pc'[t] = "idle" /\ call'[t] = NoCall
         /\ UNCHANGED <<handle, wire, srv, drifted, leaked>>
  BY LeaveEffect DEF Locked

-----------------------------------------------------------------------------
(***************************************************************************)
(* Threads.                                                                *)
(***************************************************************************)
\* A step of one thread leaves the others as they are: it moves the seqid only with
\* the mutex, and takes the mutex only from nobody.
LEMMA OthersFit ==
  ASSUME ThreadsFit, NEW t \in Threads, Apart(t),
         seqid' = seqid \/ mutex = t,
         mutex' = mutex \/ {mutex, mutex'} \subseteq {t, None}
  PROVE  \A u \in Threads \ {t} : ThreadFits(u)'
  BY DEF ThreadsFit, ThreadFits, Apart, HasMutex, InCall

LEMMA StepThreads ==
  ASSUME Typed, ThreadsFit, RequestsFit, RepliesFit, NEW t \in Threads, Step(t) \/ Call(t)
  PROVE  ThreadsFit'
  <1> SUFFICES ThreadFits(t)' /\ \A u \in Threads \ {t} : ThreadFits(u)'
    BY DEF ThreadsFit
  <1>1. ThreadFits(t)
    BY DEF ThreadsFit
  <1>2. t # None
    OBVIOUS
  <1>3. CASE Call(t)
    <2>1. ThreadFits(t)'
      BY <1>1, <1>3, CallEffect DEF ThreadFits, HasMutex, InCall
    <2>2. QED
      BY <1>3, <2>1, CallEffect, OthersFit
  <1>4. CASE Enter(t)
    <2>1. pc[t] = "enter" /\ mutex = None
      BY <1>4 DEF Enter
    <2>2. ThreadFits(t)'
      BY <1>1, <1>4, <2>1, EnterEffect DEF ThreadFits, HasMutex, InCall
    <2>3. QED
      BY <1>4, <2>1, <2>2, EnterEffect, OthersFit
  <1>5. CASE Send(t)
    <2>1. ThreadFits(t)'
      BY <1>1, <1>5, SendEffect DEF Send, ThreadFits, HasMutex, InCall
    <2>2. QED
      BY <1>5, <2>1, SendEffect, OthersFit
  <1>6. CASE CallFails(t) \/ Failed(t) \/ Undecoded(t)
    <2>1. pc[t] = "wait" /\ mutex = t
      BY <1>1, <1>6 DEF CallFails, Failed, Undecoded, ThreadFits, HasMutex
    <2>2. ReturnFalse(t)
      BY <1>6 DEF CallFails, Failed, Undecoded
    <2>3. ThreadFits(t)'
      BY <1>2, <2>2, ReturnFalseEffect DEF ThreadFits, HasMutex, InCall
    <2>4. QED
      BY <2>1, <2>2, <2>3, ReturnFalseEffect, OthersFit
  <1>7. CASE Confirm(t)
    <2>1. /\ pc[t] = "wait" /\ mutex = t /\ reply[t].status = "ok" /\ call[t].kind = "open"
      BY <1>1, <1>7 DEF Confirm, Succeeds, ThreadFits, HasMutex
    <2>2. reply[t].file \in Files
      BY <2>1 DEF RepliesFit, ReplyFits
    <2>3. ThreadFits(t)'
      BY <1>1, <1>7, <2>1, <2>2, ConfirmEffect DEF ThreadFits, HasMutex, InCall
    <2>4. QED
      BY <1>7, <2>1, <2>3, ConfirmEffect, OthersFit
  <1>8. CASE Opened(t)
    <2>1. pc[t] = "wait" /\ mutex = t
      BY <1>1, <1>8 DEF Opened, Succeeds, ThreadFits, HasMutex
    <2>2. handle'[t].open
      <3>1. handle'[t] = [open |-> TRUE, file |-> reply[t].file, asked |-> call[t].asked]
        BY <1>8, OpenedEffect
      <3>2. QED
        BY <3>1
    <2>3. ThreadFits(t)'
      BY <1>1, <1>2, <1>8, <2>1, <2>2, OpenedEffect DEF ThreadFits, HasMutex, InCall
    <2>4. QED
      BY <1>8, <2>1, <2>3, OpenedEffect, OthersFit
  <1>9. CASE SetAttr(t)
    <2>1. handle[t].file \in Files
      BY <1>1, <1>9, OpenHandles DEF SetAttr, ThreadFits, Typed
    <2>2. pc[t] = "setattr" /\ mutex # t
      BY <1>1, <1>9 DEF SetAttr, ThreadFits, HasMutex
    <2>3. ThreadFits(t)'
      BY <1>1, <1>9, <2>1, <2>2, SetAttrEffect DEF ThreadFits, HasMutex, InCall
    <2>4. QED
      BY <1>9, <2>3, SetAttrEffect, OthersFit
  <1>10. CASE Closed(t) \/ Locked(t)
    <2>1. pc[t] = "wait" /\ mutex = t
      BY <1>1, <1>10 DEF Closed, Locked, Succeeds, ThreadFits, HasMutex
    <2>2. ThreadFits(t)'
      BY <1>2, <1>10, ClosedEffect, LockedEffect DEF ThreadFits, HasMutex, InCall
    <2>3. QED
      BY <1>10, <2>1, <2>2, ClosedEffect, LockedEffect, OthersFit
  <1>11. QED
    BY <1>3, <1>4, <1>5, <1>6, <1>7, <1>8, <1>9, <1>10 DEF Step

\* The reply goes to the thread that waits for it, if it still does.
LEMMA AnswerEffect ==
  ASSUME Typed, RequestsFit, wire # <<>>, NEW r, Answer(r)
  PROVE  /\ UNCHANGED <<seqid, mutex, begun, pc, call, handle, leaked>>
         /\ Request.file \in Files /\ Request.seq <= seqid
         /\ Late => reply' = reply
         /\ ~Late => /\ Head(wire).from \in Threads /\ reply' = [reply EXCEPT ![Head(wire).from] = r]
                     /\ pc[Head(wire).from] = "wait" /\ reply[Head(wire).from] = NoReply
                     /\ Request = call[Head(wire).from]
  <1>1. 1 \in DOMAIN wire /\ Head(wire) = wire[1] /\ Head(wire) \in Requests
    BY HeadTailProperties, EmptySeq DEF Typed
  <1>2. QED
    BY <1>1 DEF Answer, RequestsFit, Requests, Request, Late

LEMMA ServeThreads ==
  ASSUME Typed, ThreadsFit, RequestsFit, Serve
  PROVE  ThreadsFit'
  <1>1. wire # <<>> /\ \E r : Answer(r)
    BY DEF Serve, StopBefore, Reject, BadSeqid, Replay, BadStateid, Refuse, Execute
  <1>2. PICK r : Answer(r)
    BY <1>1
  <1>3. \A t \in Threads : reply'[t] # reply[t] => pc[t] = "wait"
    BY <1>1, <1>2, AnswerEffect DEF Typed
  <1>4. UNCHANGED <<seqid, mutex, pc, call, handle>>
    BY <1>1, <1>2, AnswerEffect
  <1>5. QED
    BY <1>3, <1>4 DEF ThreadsFit, ThreadFits, HasMutex, InCall

-----------------------------------------------------------------------------
(***************************************************************************)
(* Requests.                                                               *)
(***************************************************************************)
\* Requests that are left, but for those of the thread that no longer waits for one.
LEMMA ThinnedFit ==
  ASSUME Typed, RequestsFit, Thinned, seqid' \in Nat, seqid' >= seqid,
         \A u \in Threads : (\E i \in DOMAIN wire' : wire'[i].from = u) =>
            pc'[u] = pc[u] /\ reply'[u] = reply[u] /\ call'[u] = call[u]
  PROVE  RequestsFit'
  <1>1. ASSUME NEW i \in DOMAIN wire'
        PROVE  /\ wire'[i].call.seq <= seqid' /\ wire'[i].call.file \in Files
               /\ wire'[i].from # None => /\ pc'[wire'[i].from] = "wait"
                                          /\ reply'[wire'[i].from] = NoReply
                                          /\ wire'[i].call = call'[wire'[i].from]
    <2>1. PICK k \in DOMAIN wire : Same(i, k)
      BY DEF Thinned
    <2>2. wire[k] \in Requests
      BY ElementOfSeq DEF Typed
    <2>3. wire'[i].call = wire[k].call /\ wire'[i].from \in {wire[k].from, None}
      BY <2>1 DEF Same
    <2>4. wire'[i].call.seq <= seqid'
      <3>1. wire[k].call.seq \in Nat /\ wire[k].call.seq <= seqid
        BY <2>2 DEF RequestsFit, Requests, Calls
      <3>2. QED
        BY <2>3, <3>1 DEF Typed
    <2>5. wire'[i].call.file \in Files
      BY <2>3 DEF RequestsFit
    <2>6. QED
      BY <2>2, <2>3, <2>4, <2>5 DEF RequestsFit, Requests
  <1>2. ASSUME NEW i \in DOMAIN wire', NEW j \in DOMAIN wire', i < j,
               wire'[i].from = wire'[j].from
        PROVE  wire'[i].from = None
    <2>1. PICK k, l \in DOMAIN wire : k < l /\ Same(i, k) /\ Same(j, l)
      BY <1>2 DEF Thinned
    <2>2. k # l
      BY <2>1 DEF Typed
    <2>3. QED
      BY <1>2, <2>1, <2>2 DEF Same, RequestsFit
  <1>3. DOMAIN wire' \subseteq Nat
    BY LenProperties DEF Thinned
  <1>4. \A i, j \in DOMAIN wire' : wire'[i].from = wire'[j].from /\ i # j => wire'[i].from = None
    <2> TAKE i, j \in DOMAIN wire'
    <2>1. i < j \/ j < i \/ i = j
      BY <1>3
    <2>2. QED
      BY <1>2, <2>1
  <1>5. QED
    BY <1>1, <1>4 DEF RequestsFit

LEMMA ThinnedOrdered ==
  ASSUME SeqidsAreOrdered, Thinned
  PROVE  SeqidsAreOrdered'
  BY DEF SeqidsAreOrdered, Thinned, Same

LEMMA StillThinned ==
  ASSUME Typed, wire' = wire
  PROVE  Thinned
  BY DEF Thinned, Same, Typed

LEMMA SendRequests ==
  ASSUME Typed, ThreadsFit, RequestsFit, SeqidsAreOrdered, NEW t \in Threads, Send(t)
  PROVE  RequestsFit' /\ SeqidsAreOrdered'
  <1> DEFINE new == [from |-> t, call |-> call[t]]
             n == Len(wire)
  <1>1. new \in Requests /\ wire' = Append(wire, new)
    BY DEF Typed, Requests, Send
  <1>2. n \in Nat /\ DOMAIN wire = 1..n
    BY LenProperties DEF Typed
  <1>3. /\ DOMAIN wire' = 1..(n + 1) /\ wire'[n + 1] = new
        /\ \A i \in 1..n : wire'[i] = wire[i]
    BY <1>1, <1>2, AppendProperties DEF Typed
  <1>4. new.from = t /\ new.call = call[t]
    OBVIOUS
  <1> HIDE DEF new, n
  <1>5. /\ call[t].seq = seqid /\ pc[t] = "send" /\ reply[t] = NoReply
        /\ call[t].file \in Files /\ t # None /\ seqid \in Nat
    BY DEF ThreadsFit, ThreadFits, HasMutex, Send, Typed
  <1>6. \A i \in 1..n : wire[i].from # t
    BY <1>2, <1>5 DEF RequestsFit
  <1>7. Apart(t) /\ pc'[t] = "wait" /\ UNCHANGED <<seqid, call, reply>>
    BY SendEffect
  <1>8. \A i \in 1..n : wire[i].call.seq \in Nat /\ wire[i].from \in Threads \cup {None}
    <2> TAKE i \in 1..n
    <2>1. wire[i] \in Requests
      BY <1>2, ElementOfSeq DEF Typed
    <2>2. QED
      BY <2>1 DEF Requests, Calls
  <1>9. \A i \in DOMAIN wire' :
           /\ wire'[i].call.seq <= seqid' /\ wire'[i].call.file \in Files
           /\ wire'[i].from # None => /\ pc'[wire'[i].from] = "wait"
                                      /\ reply'[wire'[i].from] = NoReply
                                      /\ wire'[i].call = call'[wire'[i].from]
    <2> TAKE i \in DOMAIN wire'
    <2>1. CASE i = n + 1
      BY <1>3, <1>4, <1>5, <1>7, <2>1
    <2>2. CASE i \in 1..n
      BY <1>2, <1>3, <1>6, <1>7, <1>8, <2>2 DEF RequestsFit, Apart
    <2>3. QED
      BY <1>2, <1>3, <2>1, <2>2
  <1>10. \A i, j \in DOMAIN wire' : wire'[i].from = wire'[j].from /\ i # j => wire'[i].from = None
    <2> TAKE i, j \in DOMAIN wire'
    <2>1. CASE i \in 1..n /\ j \in 1..n
      BY <1>2, <1>3, <2>1 DEF RequestsFit
    <2>2. CASE i = n + 1 \/ j = n + 1
      BY <1>2, <1>3, <1>4, <1>6, <2>2
    <2>3. QED
      BY <1>2, <1>3, <2>1, <2>2
  <1>11. SeqidsAreOrdered'
    <2> SUFFICES ASSUME NEW i \in DOMAIN wire', NEW j \in DOMAIN wire', i < j
                 PROVE  wire'[i].call.seq <= wire'[j].call.seq
      BY DEF SeqidsAreOrdered
    <2>1. CASE j \in 1..n
      BY <1>2, <1>3, <2>1 DEF SeqidsAreOrdered
    <2>2. CASE j = n + 1
      <3>1. i \in 1..n
        BY <1>2, <1>3, <2>2
      <3>2. wire[i].call.seq <= seqid
        BY <1>2, <3>1 DEF RequestsFit
      <3>3. QED
        BY <1>3, <1>4, <1>5, <2>2, <3>1, <3>2
    <2>3. QED
      BY <1>2, <1>3, <2>1, <2>2
  <1>12. QED
    BY <1>9, <1>10, <1>11 DEF RequestsFit

LEMMA StepRequests ==
  ASSUME Typed, ThreadsFit, RequestsFit, SeqidsAreOrdered,
         NEW t \in Threads, Step(t) \/ Call(t)
  PROVE  RequestsFit' /\ SeqidsAreOrdered'
  <1>1. CASE Send(t)
    BY <1>1, SendRequests
  <1>2. CASE CallFails(t)
    <2>1. Thinned /\ \A i \in DOMAIN wire' : wire'[i].from # t
      BY <1>2, FailureThins, TypedIsTypeOK
    <2>2. Apart(t) /\ seqid' = seqid
      BY <1>2, ReturnFalseEffect DEF CallFails
    <2>3. QED
      BY <2>1, <2>2, ThinnedFit, ThinnedOrdered DEF Typed, Apart
  <1>3. CASE ~Send(t) /\ ~CallFails(t)
    <2>1. UNCHANGED wire /\ Apart(t) /\ seqid' \in {seqid, seqid + 1}
      BY <1>3, CallEffect, EnterEffect, ReturnFalseEffect, ConfirmEffect, OpenedEffect,
         SetAttrEffect, ClosedEffect, LockedEffect
      DEF Step, Failed, Undecoded
    <2>2. pc[t] = "wait" => reply[t] # NoReply
      BY <1>3, CallEffect DEF Step, Enter, Failed, Undecoded, Confirm, Opened, SetAttr, Closed,
         Locked, Succeeds, NoReply
    <2>3. \A i \in DOMAIN wire' : wire'[i].from # t
      BY <2>1, <2>2 DEF RequestsFit
    <2>4. Thinned
      BY <2>1, StillThinned
    <2>5. QED
      BY <2>1, <2>3, <2>4, ThinnedFit, ThinnedOrdered DEF Typed, Apart
  <1>4. QED
    BY <1>1, <1>2, <1>3

LEMMA ServeRequests ==
  ASSUME Typed, RequestsFit, SeqidsAreOrdered, Serve
  PROVE  RequestsFit' /\ SeqidsAreOrdered'
  <1>1. wire # <<>> /\ \E r : Answer(r)
    BY DEF Serve, StopBefore, Reject, BadSeqid, Replay, BadStateid, Refuse, Execute
  <1>2. PICK r : Answer(r)
    BY <1>1
  <1>3. UNCHANGED <<seqid, pc, call>>
    BY <1>1, <1>2, AnswerEffect
  <1>4. Thinned
    BY <1>1, <1>2, AnswerThins, TypedIsTypeOK
  <1>5. \A u \in Threads : (\E i \in DOMAIN wire' : wire'[i].from = u) => reply'[u] = reply[u]
    <2>1. CASE Late
      BY <1>1, <1>2, <2>1, AnswerEffect
    <2>2. CASE ~Late
      BY <1>1, <1>2, <2>2, AnswerEffect, AnswerThins, TypedIsTypeOK DEF Typed
    <2>3. QED
      BY <2>1, <2>2
  <1>6. QED
    BY <1>3, <1>4, <1>5, ThinnedFit, ThinnedOrdered DEF Typed

-----------------------------------------------------------------------------
(***************************************************************************)
(* Replies.                                                                *)
(***************************************************************************)
LEMMA NoReplyFits == NoReply.status = "none" /\ NoReply.file = None
  BY DEF NoReply

LEMMA NoHandleIsShut == ~NoHandle.open
  BY DEF NoHandle

\* A thread forgets its reply before its call becomes another.
LEMMA StepReply ==
  ASSUME Typed, ThreadsFit, RepliesFit, NEW t \in Threads, Step(t) \/ Call(t)
  PROVE  /\ Apart(t) /\ UNCHANGED srv
         /\ reply'[t] = NoReply \/ (reply'[t] = reply[t] /\ call'[t].kind = call[t].kind)
         /\ handle'[t].open => srv.confirmed
  <1>1. pc[t] # "wait" => reply[t] = NoReply
    BY DEF ThreadsFit, ThreadFits
  <1>2. handle[t].open => srv.confirmed
    BY DEF RepliesFit
  <1>3. CASE Call(t)
    <2>1. pc[t] = "idle" /\ reply' = reply /\ handle' = handle /\ Apart(t) /\ UNCHANGED srv
      BY <1>3, CallEffect
    <2>2. QED
      BY <1>1, <1>2, <2>1
  <1>4. CASE Enter(t)
    BY <1>2, <1>4, EnterEffect
  <1>5. CASE Send(t)
    BY <1>2, <1>5, SendEffect
  <1>6. CASE CallFails(t) \/ Failed(t) \/ Undecoded(t)
    <2>1. ReturnFalse(t) /\ UNCHANGED srv
      BY <1>6 DEF CallFails, Failed, Undecoded
    <2>2. QED
      BY <1>2, <2>1, ReturnFalseEffect, NoHandleIsShut
  <1>7. CASE Confirm(t)
    BY <1>2, <1>7, ConfirmEffect
  <1>8. CASE Opened(t)
    <2>1. srv.confirmed
      BY <1>8 DEF Opened, Succeeds, RepliesFit, ReplyFits
    <2>2. QED
      BY <1>8, <2>1, OpenedEffect
  <1>9. CASE SetAttr(t)
    <2>1. reply' = reply /\ reply[t] = NoReply
      BY <1>1, <1>9, SetAttrEffect
    <2>2. QED
      BY <1>2, <1>9, <2>1, SetAttrEffect, NoHandleIsShut
  <1>10. CASE Closed(t)
    BY <1>10, ClosedEffect, NoHandleIsShut
  <1>11. CASE Locked(t)
    BY <1>2, <1>11, LockedEffect
  <1>12. QED
    BY <1>3, <1>4, <1>5, <1>6, <1>7, <1>8, <1>9, <1>10, <1>11 DEF Step

LEMMA StepReplies ==
  ASSUME Typed, ThreadsFit, RepliesFit, NEW t \in Threads, Step(t) \/ Call(t)
  PROVE  RepliesFit'
  <1>1. /\ Apart(t) /\ UNCHANGED srv
        /\ reply'[t] = NoReply \/ (reply'[t] = reply[t] /\ call'[t].kind = call[t].kind)
        /\ handle'[t].open => srv.confirmed
    BY StepReply
  <1>2. \A u \in Threads : /\ reply'[u].status = "none" => reply'[u] = NoReply
                           /\ ReplyFits(srv.confirmed, call[u].kind, reply[u])
                           /\ handle'[u].open => srv'.confirmed
    BY <1>1 DEF RepliesFit, Apart
  <1>3. \A u \in Threads : ReplyFits(srv.confirmed, call[u].kind, reply[u])'
    BY <1>1, <1>2, NoReplyFits DEF ReplyFits, Apart
  <1>4. ReplyFits(srv.confirmed, srv.last.kind, srv.last.reply)'
    BY <1>1 DEF ReplyFits, RepliesFit
  <1>5. QED
    BY <1>1, <1>2, <1>3, <1>4 DEF RepliesFit

\* The same for the server: it answers with what fits, and keeps what does.
LEMMA AnswerReplies ==
  ASSUME Typed, RequestsFit, RepliesFit, wire # <<>>, NEW r \in Replies, Answer(r),
         r.status # "none", ReplyFits(srv'.confirmed, Request.kind, r),
         srv.confirmed => srv'.confirmed,
         ReplyFits(srv.confirmed, srv.last.kind, srv.last.reply)',
         srv'.last.kind # "none" => srv'.last.reply.status \in {"ok", "bump"}
  PROVE  RepliesFit'
  <1>1. UNCHANGED <<call, handle>>
    BY AnswerEffect
  <1>2. ASSUME NEW t \in Threads
        PROVE  /\ reply'[t].status = "none" => reply'[t] = NoReply
               /\ ReplyFits(srv.confirmed, call[t].kind, reply[t])'
    <2>1. CASE ~Late /\ t = Head(wire).from
      <3>1. reply'[t] = r /\ call[t] = Request
        BY <2>1, AnswerEffect DEF Typed
      <3>2. r.status = "ok" => /\ r.file \in Files
                               /\ Request.kind # "open" => ~r.confirm
                               /\ ~r.confirm => srv'.confirmed
        BY DEF ReplyFits
      <3>3. QED
        BY <1>1, <3>1, <3>2 DEF ReplyFits
    <2>2. CASE Late \/ t # Head(wire).from
      <3>1. reply'[t] = reply[t]
        BY <2>2, AnswerEffect DEF Typed
      <3>2. QED
        BY <1>1, <3>1 DEF RepliesFit, ReplyFits
    <2>3. QED
      BY <2>1, <2>2
  <1>3. QED
    BY <1>1, <1>2 DEF RepliesFit

\* What the server does when it executes an operation.
Executes(confirm, s) ==
  LET done == [status |-> "ok", file |-> Request.file, confirm |-> confirm] IN
  /\ confirm => Request.kind = "open" /\ ~srv.confirmed
  /\ s \in {"bump", "keep"} => Request.kind \in {"open", "close"}
  /\ Answer([done EXCEPT !.status = s])
  /\ drifted' = (drifted \/ Late \/ s = "keep")
  /\ srv' = [confirmed |-> srv.confirmed \/ ~confirm,
             next |-> Request.seq + 1,
             opens |-> CASE Request.kind = "open" ->
                              (IF srv.confirmed THEN srv.opens ELSE {}) \cup {Request.file}
                         [] Request.kind = "close" -> srv.opens \ {Request.file}
                         [] OTHER -> srv.opens,
             last |-> [kind |-> Request.kind, reply |-> done]]

LEMMA ExecuteEffect ==
  ASSUME Execute
  PROVE  /\ wire # <<>> /\ InTurn
         /\ \E confirm \in BOOLEAN, s \in {"ok", "bump", "keep"} : Executes(confirm, s)
  BY DEF Execute, Executes

\* The reply, and the server's record, field by field.
LEMMA ExecutesEffect ==
  ASSUME Typed, RequestsFit, wire # <<>>, NEW confirm \in BOOLEAN,
         NEW s \in {"ok", "bump", "keep"}, Executes(confirm, s)
  PROVE  LET r == [status |-> s, file |-> Request.file, confirm |-> confirm]
             done == [status |-> "ok", file |-> Request.file, confirm |-> confirm]
         IN  /\ Answer(r) /\ r \in Replies
             /\ srv'.confirmed = (srv.confirmed \/ ~confirm)
             /\ srv'.next = Request.seq + 1
             /\ srv'.opens = CASE Request.kind = "open" ->
                                    (IF srv.confirmed THEN srv.opens ELSE {}) \cup {Request.file}
                               [] Request.kind = "close" -> srv.opens \ {Request.file}
                               [] OTHER -> srv.opens
             /\ srv'.last = [kind |-> Request.kind, reply |-> done]
  <1> DEFINE r == [status |-> s, file |-> Request.file, confirm |-> confirm]
             done == [status |-> "ok", file |-> Request.file, confirm |-> confirm]
  <1>1. [done EXCEPT !.status = s] = r
    OBVIOUS
  <1>2. Answer(r)
    BY <1>1 DEF Executes
  <1>3. r \in Replies
    BY <1>2, AnswerEffect DEF Replies, MaybeFile
  <1>4. QED
    BY <1>2, <1>3 DEF Executes

LEMMA ServeReplies ==
  ASSUME Typed, RequestsFit, RepliesFit, Serve
  PROVE  RepliesFit'
  <1>1. ASSUME NEW s \in {"bump", "keep", "void"}
        PROVE  /\ Error(s) \in Replies /\ Error(s).status = s
               /\ \A confirmed, kind : ReplyFits(confirmed, kind, Error(s))
    BY DEF Error, Replies, MaybeFile, ReplyFits
  <1>2. /\ ReplyFits(srv.confirmed, srv.last.kind, srv.last.reply)
        /\ srv.last.kind # "none" => srv.last.reply.status \in {"ok", "bump"}
    BY DEF RepliesFit
  <1>3. ASSUME NEW s \in {"bump", "keep", "void"}, wire # <<>>, Answer(Error(s)), UNCHANGED srv
        PROVE  RepliesFit'
    BY <1>1, <1>2, <1>3, AnswerReplies
  <1>4. CASE StopBefore \/ Reject \/ BadSeqid \/ BadStateid
    BY <1>3, <1>4 DEF StopBefore, Reject, BadSeqid, BadStateid
  <1>5. CASE Replay
    <2>1. srv.last.kind # "none" /\ Request.kind = srv.last.kind
      <3>1. Request \in Calls
        <4>1. Head(wire) \in Requests
          BY <1>5, HeadTailProperties DEF Replay, Typed
        <4>2. QED
          BY <4>1 DEF Requests, Request
      <3>2. QED
        BY <1>5, <3>1 DEF Replay, Calls, Kinds
    <2>2. srv.last.reply \in Replies
      BY DEF Typed, Servers
    <2>3. QED
      BY <1>2, <1>5, <2>1, <2>2, AnswerReplies DEF Replay
  <1>6. CASE Refuse
    <2>1. CASE Answer(Error("keep")) /\ UNCHANGED <<srv, drifted>>
      BY <1>3, <1>6, <2>1 DEF Refuse
    <2>2. CASE /\ Answer(Error("bump"))
               /\ srv' = [srv EXCEPT !.next = Request.seq + 1,
                                     !.last = [kind |-> Request.kind, reply |-> Error("bump")]]
      <3>1. /\ srv'.confirmed = srv.confirmed
            /\ srv'.last = [kind |-> Request.kind, reply |-> Error("bump")]
        BY <2>2 DEF Typed, Servers
      <3>2. srv'.last.kind = Request.kind /\ srv'.last.reply = Error("bump")
        BY <3>1
      <3>3. QED
        BY <1>1, <1>6, <2>2, <3>1, <3>2, AnswerReplies DEF Refuse
    <2>3. QED
      BY <1>6, <2>1, <2>2 DEF Refuse
  <1>7. CASE Execute
    <2>1. PICK confirm \in BOOLEAN, s \in {"ok", "bump", "keep"} : Executes(confirm, s)
      BY <1>7, ExecuteEffect
    <2> DEFINE r == [status |-> s, file |-> Request.file, confirm |-> confirm]
               done == [status |-> "ok", file |-> Request.file, confirm |-> confirm]
    <2>2. wire # <<>>
      BY <1>7, ExecuteEffect
    <2>3. /\ Answer(r) /\ r \in Replies /\ Request.file \in Files
          /\ srv'.confirmed = (srv.confirmed \/ ~confirm)
          /\ srv'.last = [kind |-> Request.kind, reply |-> done]
      BY <2>1, <2>2, ExecutesEffect, AnswerEffect
    <2>4. srv'.last.kind = Request.kind /\ srv'.last.reply = done
      BY <2>3
    <2>5. /\ r.status = s /\ r.file = Request.file /\ r.confirm = confirm
          /\ done.status = "ok" /\ done.file = Request.file /\ done.confirm = confirm
      OBVIOUS
    <2> HIDE DEF r, done
    <2>6. confirm => Request.kind = "open"
      BY <2>1 DEF Executes
    <2>7. /\ ReplyFits(srv'.confirmed, Request.kind, r)
          /\ ReplyFits(srv'.confirmed, Request.kind, done)
      BY <2>3, <2>5, <2>6 DEF ReplyFits
    <2>8. QED
      BY <2>2, <2>3, <2>4, <2>5, <2>7, AnswerReplies
  <1>8. QED
    BY <1>4, <1>5, <1>6, <1>7 DEF Serve

-----------------------------------------------------------------------------
(***************************************************************************)
(* Seqids.                                                                 *)
(***************************************************************************)
LEMMA DriftedStays ==
  ASSUME Next
  PROVE  drifted => drifted'
  BY DEF Next, Done, vars, Serve, StopBefore, Reject, BadSeqid, Replay, BadStateid, Refuse,
     Execute, Call, Create, Open, OpenPath, Truncate, Close, Lock, Begin, Step, Enter, Send,
     CallFails, Failed, Undecoded, Confirm, Opened, SetAttr, Closed, Locked

\* Only one thread has the mutex.
LEMMA OneHasMutex ==
  ASSUME ThreadsFit, NEW t \in Threads, NEW u \in Threads, HasMutex(t), HasMutex(u)
  PROVE  t = u
  BY DEF ThreadsFit, ThreadFits

LEMMA ThreadReplies ==
  ASSUME Typed, NEW t \in Threads
  PROVE  /\ reply[t].status \in {"none", "ok", "bump", "keep", "void"}
         /\ call[t].kind \in Kinds /\ reply[t].file \in MaybeFile
  BY DEF Typed, Replies, Calls

LEMMA StepSeqids ==
  ASSUME Typed, ThreadsFit, RepliesFit, SeqidFits, ~drifted, ~drifted',
         NEW t \in Threads, Step(t) \/ Call(t)
  PROVE  SeqidFits'
  <1> USE NoReplyFits
  <1>1. /\ SeqidInStep /\ NextFits(t) /\ ThreadFits(t)
        /\ \A u \in Threads : NextFits(u)
    BY DEF SeqidFits, ThreadsFit
  <1>2. Apart(t) /\ UNCHANGED srv
    BY StepReply
  <1>3. seqid \in Nat /\ srv.next \in Nat
    BY DEF Typed, Servers
  <1>4. reply[t].status \in {"none", "ok", "bump", "keep", "void"}
    BY ThreadReplies
  <1>5. SUFFICES SeqidInStep' /\ NextFits(t)' /\ \A u \in Threads \ {t} : NextFits(u)'
    BY DEF SeqidFits
  <1>6. CASE seqid' = seqid /\ mutex' = mutex /\ ~HasMutex(t) /\ ~HasMutex(t)'
    BY <1>1, <1>2, <1>6 DEF SeqidInStep, NextFits, HasMutex, Apart
  <1>7. ASSUME mutex = t \/ mutex = None
        PROVE  \A u \in Threads \ {t} : ~HasMutex(u) /\ ~HasMutex(u)'
    BY <1>2, <1>7 DEF ThreadsFit, ThreadFits, HasMutex, Apart
  <1>8. CASE Call(t)
    BY <1>6, <1>8, CallEffect DEF HasMutex
  <1>9. CASE SetAttr(t)
    BY <1>6, <1>9, SetAttrEffect DEF HasMutex
  <1>10. CASE Enter(t)
    <2>1. pc[t] = "enter" /\ mutex = None /\ reply[t].status = "none" /\ t # None
      BY <1>1, <1>10 DEF Enter, ThreadFits
    <2>2. srv.confirmed \/ call[t].kind # "open" => srv.confirmed
      BY <1>1, <2>1, ThreadReplies DEF ThreadFits, InCall, RepliesFit, Kinds
    <2>3. srv.confirmed => srv.next = seqid
      BY <1>1, <2>1 DEF SeqidInStep
    <2>4. NextFits(t)'
      BY <1>10, <1>2, <2>1, <2>2, <2>3, EnterEffect DEF NextFits
    <2>5. SeqidInStep'
      BY <1>10, <2>1, EnterEffect DEF SeqidInStep
    <2>6. QED
      BY <1>7, <2>1, <2>4, <2>5 DEF NextFits
  <1>11. CASE Send(t)
    <2>1. HasMutex(t) /\ mutex = t /\ t # None
      BY <1>1, <1>11 DEF Send, HasMutex, ThreadFits
    <2>2. NextFits(t)' /\ SeqidInStep'
      BY <1>1, <1>2, <1>11, <2>1, SendEffect DEF NextFits, SeqidInStep
    <2>3. QED
      BY <1>7, <2>1, <2>2 DEF NextFits
  <1>12. CASE CallFails(t) \/ Failed(t) \/ Undecoded(t) \/ Opened(t) \/ Closed(t) \/ Locked(t)
    <2>1. pc[t] = "wait" /\ HasMutex(t) /\ mutex = t
      BY <1>1, <1>12 DEF CallFails, Failed, Undecoded, Opened, Closed, Locked, Succeeds,
                         HasMutex, ThreadFits
    <2>2. srv.confirmed => srv.next = seqid'
      <3>1. CASE CallFails(t)
        BY <1>1, <1>4, <2>1, <3>1 DEF CallFails, NextFits
      <3>2. CASE Failed(t)
        BY <1>1, <2>1, <3>2 DEF Failed, NextFits
      <3>3. CASE Undecoded(t) \/ Opened(t) \/ Closed(t) \/ Locked(t)
        BY <1>1, <2>1, <3>3 DEF Undecoded, Opened, Closed, Locked, Succeeds, NextFits
      <3>4. QED
        BY <1>12, <3>1, <3>2, <3>3
    <2>3. pc'[t] \in {"idle", "setattr"} /\ mutex' = None
      BY <1>12, ReturnFalseEffect, OpenedEffect, ClosedEffect, LockedEffect
      DEF CallFails, Failed, Undecoded
    <2>4. SeqidInStep'
      BY <1>2, <2>2 DEF SeqidInStep
    <2>5. QED
      BY <1>7, <2>1, <2>3, <2>4 DEF NextFits, HasMutex
  <1>13. CASE Confirm(t)
    <2>1. pc[t] = "wait" /\ HasMutex(t) /\ mutex = t /\ t # None /\ reply[t].status = "ok"
      BY <1>1, <1>13 DEF Confirm, Succeeds, HasMutex, ThreadFits
    <2>2. srv.next = seqid + 1
      BY <1>1, <2>1 DEF NextFits
    <2>3. NextFits(t)' /\ SeqidInStep'
      BY <1>2, <1>13, <2>1, <2>2, ConfirmEffect DEF NextFits, SeqidInStep
    <2>4. QED
      BY <1>7, <2>1, <2>3 DEF NextFits
  <1>14. QED
    BY <1>8, <1>9, <1>10, <1>11, <1>12, <1>13 DEF Step

\* As long as the two sides are in step the server does one of four things: nothing
\* but take a request nobody waits for, answer without using up the seqid, refuse
\* the operation, or execute it.
LEMMA ServeInStep ==
  ASSUME Typed, ThreadsFit, RequestsFit, RepliesFit, SeqidFits, ~drifted, ~drifted', Serve
  PROVE  \/ UNCHANGED <<srv, reply>>
         \/ \E t \in Threads, s \in {"bump", "keep"} :
              /\ pc[t] = "wait" /\ reply[t] = NoReply
              /\ reply' = [reply EXCEPT ![t] = Error(s)]
              /\ UNCHANGED <<srv.confirmed, srv.opens>>
              /\ srv'.next = IF s = "bump" THEN seqid + 1 ELSE srv.next
         \/ \E t \in Threads, s \in {"ok", "bump"}, confirm \in BOOLEAN :
              /\ pc[t] = "wait" /\ reply[t] = NoReply
              /\ reply' = [reply EXCEPT ![t] = [status |-> s, file |-> call[t].file,
                                                confirm |-> confirm]]
              /\ srv'.next = seqid + 1
              /\ srv'.opens = CASE call[t].kind = "open" ->
                                     (IF srv.confirmed THEN srv.opens ELSE {}) \cup {call[t].file}
                                [] call[t].kind = "close" -> srv.opens \ {call[t].file}
                                [] OTHER -> srv.opens
  <1> DEFINE t == Head(wire).from
  <1>1. wire # <<>> /\ \E r : Answer(r)
    BY DEF Serve, StopBefore, Reject, BadSeqid, Replay, BadStateid, Refuse, Execute
  <1>2. CASE Late
    <2>1. reply' = reply
      BY <1>1, <1>2, AnswerEffect
    <2>2. srv' = srv
      BY <1>2 DEF Serve, StopBefore, Reject, BadSeqid, Replay, BadStateid, Refuse, Execute
    <2>3. QED
      BY <2>1, <2>2
  <1>3. CASE ~Late
    <2>1. /\ t \in Threads /\ pc[t] = "wait" /\ reply[t] = NoReply /\ Request = call[t]
          /\ \A r : Answer(r) => reply' = [reply EXCEPT ![t] = r]
      BY <1>1, <1>3, AnswerEffect
    <2> HIDE DEF t
    <2>2. Request.seq = seqid /\ reply[t].status = "none" /\ NextFits(t) /\ HasMutex(t)
      BY <2>1, NoReplyFits DEF ThreadsFit, ThreadFits, HasMutex, SeqidFits
    <2>3. InTurn
      BY <2>1, <2>2 DEF NextFits, InTurn
    <2>4. ASSUME NEW s \in {"bump", "keep"}, Answer(Error(s)), UNCHANGED srv, s = "keep"
          PROVE  \E u \in Threads, z \in {"bump", "keep"} :
              /\ pc[u] = "wait" /\ reply[u] = NoReply
              /\ reply' = [reply EXCEPT ![u] = Error(z)]
              /\ UNCHANGED <<srv.confirmed, srv.opens>>
              /\ srv'.next = IF z = "bump" THEN seqid + 1 ELSE srv.next
      BY <2>1, <2>4
    <2>5. CASE StopBefore
      BY <1>3, <2>4, <2>5 DEF StopBefore
    <2>6. CASE Reject
      BY <1>3, <2>6 DEF Reject
    <2>7. CASE BadSeqid \/ Replay
      BY <2>3, <2>7 DEF BadSeqid, Replay
    <2>8. CASE BadStateid
      BY <2>4, <2>8 DEF BadStateid
    <2>9. CASE Refuse
      <3>1. CASE Answer(Error("keep")) /\ UNCHANGED <<srv, drifted>>
        BY <2>4, <3>1
      <3>2. CASE /\ Answer(Error("bump"))
                 /\ srv' = [srv EXCEPT !.next = Request.seq + 1,
                                       !.last = [kind |-> Request.kind, reply |-> Error("bump")]]
        <4>1. /\ srv'.confirmed = srv.confirmed /\ srv'.opens = srv.opens
              /\ srv'.next = Request.seq + 1
          BY <3>2 DEF Typed, Servers
        <4>2. QED
          BY <2>1, <2>2, <3>2, <4>1
      <3>3. QED
        BY <2>9, <3>1, <3>2 DEF Refuse
    <2>10. CASE Execute
      <3>1. PICK confirm \in BOOLEAN, s \in {"ok", "bump", "keep"} : Executes(confirm, s)
        BY <2>10, ExecuteEffect
      <3>2. s \in {"ok", "bump"}
        BY <3>1 DEF Executes
      <3>3. /\ Answer([status |-> s, file |-> Request.file, confirm |-> confirm])
            /\ srv'.next = Request.seq + 1
            /\ srv'.opens = CASE Request.kind = "open" ->
                                   (IF srv.confirmed THEN srv.opens ELSE {}) \cup {Request.file}
                              [] Request.kind = "close" -> srv.opens \ {Request.file}
                              [] OTHER -> srv.opens
        BY <1>1, <3>1, ExecutesEffect
      <3>4. QED
        BY <2>1, <2>2, <3>2, <3>3
    <2>11. QED
      BY <2>5, <2>6, <2>7, <2>8, <2>9, <2>10 DEF Serve
  <1>4. QED
    BY <1>2, <1>3

LEMMA ServeSeqids ==
  ASSUME Typed, ThreadsFit, RequestsFit, RepliesFit, SeqidFits, ~drifted, ~drifted', Serve
  PROVE  SeqidFits'
  <1>1. UNCHANGED <<seqid, mutex, pc, call>>
    <2>1. wire # <<>> /\ \E r : Answer(r)
      BY DEF Serve, StopBefore, Reject, BadSeqid, Replay, BadStateid, Refuse, Execute
    <2>2. QED
      BY <2>1, AnswerEffect
  <1>2. SeqidInStep /\ \A t \in Threads : NextFits(t)
    BY DEF SeqidFits
  <1>3. CASE UNCHANGED <<srv, reply>>
    BY <1>1, <1>2, <1>3 DEF SeqidFits, SeqidInStep, NextFits, HasMutex
  <1>4. ASSUME NEW t \in Threads, pc[t] = "wait", NextFits(t)'
        PROVE  SeqidFits'
    <2>1. HasMutex(t) /\ mutex = t /\ t # None
      BY <1>4 DEF ThreadsFit, ThreadFits, HasMutex
    <2>2. \A u \in Threads \ {t} : ~HasMutex(u)'
      BY <1>1, <2>1, OneHasMutex DEF HasMutex
    <2>3. QED
      BY <1>1, <1>4, <2>1, <2>2 DEF SeqidFits, SeqidInStep, NextFits
  <1>5. ASSUME NEW t \in Threads, NEW s \in {"bump", "keep"}, pc[t] = "wait",
               reply[t] = NoReply, reply' = [reply EXCEPT ![t] = Error(s)],
               UNCHANGED <<srv.confirmed, srv.opens>>,
               srv'.next = IF s = "bump" THEN seqid + 1 ELSE srv.next
        PROVE  SeqidFits'
    <2>1. reply'[t].status = s /\ reply[t].status = "none"
      BY <1>5, NoReplyFits DEF Typed, Error
    <2>2. NextFits(t)'
      BY <1>1, <1>2, <1>5, <2>1 DEF NextFits, HasMutex
    <2>3. QED
      BY <1>4, <1>5, <2>2
  <1>6. ASSUME NEW t \in Threads, NEW s \in {"ok", "bump"}, NEW confirm \in BOOLEAN,
               pc[t] = "wait",
               reply' = [reply EXCEPT ![t] = [status |-> s, file |-> call[t].file,
                                              confirm |-> confirm]],
               srv'.next = seqid + 1
        PROVE  SeqidFits'
    <2>1. reply'[t].status = s
      BY <1>6 DEF Typed
    <2>2. NextFits(t)'
      BY <1>1, <1>6, <2>1 DEF NextFits
    <2>3. QED
      BY <1>4, <1>6, <2>2
  <1>7. QED
    BY <1>3, <1>5, <1>6, ServeInStep

-----------------------------------------------------------------------------
(***************************************************************************)
(* Files.                                                                  *)
(***************************************************************************)
LEMMA StepFiles ==
  ASSUME Typed, ThreadsFit, FilesFit, ~drifted, NEW t \in Threads, Step(t) \/ Call(t)
  PROVE  \A u \in Threads : FileFits(u)'
  <1> USE NoReplyFits
  <1>1. FileFits(t) /\ ThreadFits(t) /\ \A u \in Threads : FileFits(u)
    BY DEF FilesFit, ThreadsFit
  <1>2. ASSUME Apart(t), FileFits(t)'
        PROVE  \A u \in Threads : FileFits(u)'
    BY <1>1, <1>2 DEF Apart, FileFits, InCall
  <1>3. CASE Call(t)
    <2>1. /\ pc[t] = "idle" /\ reply[t] = NoReply /\ reply' = reply /\ handle' = handle
          /\ Apart(t)
          /\ call'[t].kind \in {"open", "confirm"} => call'[t].file = call'[t].asked
      BY <1>1, <1>3, CallEffect DEF ThreadFits
    <2>2. FileFits(t)'
      BY <1>1, <2>1 DEF FileFits
    <2>3. QED
      BY <1>2, <2>1, <2>2
  <1>4. CASE Enter(t)
    <2>1. pc[t] = "enter"
      BY <1>4 DEF Enter
    <2>2. FileFits(t)'
      BY <1>1, <1>4, <2>1, EnterEffect DEF FileFits, InCall
    <2>3. QED
      BY <1>2, <1>4, <2>2, EnterEffect
  <1>5. CASE Send(t)
    <2>1. pc[t] = "send"
      BY <1>5 DEF Send
    <2>2. FileFits(t)'
      BY <1>1, <1>5, <2>1, SendEffect DEF FileFits, InCall
    <2>3. QED
      BY <1>2, <1>5, <2>2, SendEffect
  <1>6. CASE CallFails(t) \/ Failed(t) \/ Undecoded(t)
    <2>1. ReturnFalse(t)
      BY <1>6 DEF CallFails, Failed, Undecoded
    <2>2. FileFits(t)'
      BY <1>1, <2>1, ReturnFalseEffect, NoHandleIsShut DEF FileFits, InCall
    <2>3. QED
      BY <1>2, <2>1, <2>2, ReturnFalseEffect
  <1>7. CASE Confirm(t)
    <2>1. /\ pc[t] = "wait" /\ reply[t].status = "ok" /\ call[t].kind = "open"
      BY <1>7 DEF Confirm, Succeeds
    <2>2. reply[t].file = call[t].file /\ call[t].file = call[t].asked
      BY <1>1, <2>1 DEF FileFits, InCall
    <2>3. FileFits(t)'
      BY <1>1, <1>7, <2>2, ConfirmEffect DEF FileFits
    <2>4. QED
      BY <1>2, <1>7, <2>3, ConfirmEffect
  <1>8. CASE Opened(t)
    <2>1. /\ pc[t] = "wait" /\ reply[t].status = "ok" /\ call[t].kind \in {"open", "confirm"}
      BY <1>8 DEF Opened, Succeeds
    <2>2. reply[t].file = call[t].asked
      BY <1>1, <2>1 DEF FileFits, InCall
    <2>3. handle'[t] = [open |-> TRUE, file |-> reply[t].file, asked |-> call[t].asked]
      BY <1>8, OpenedEffect
    <2>4. handle'[t].file = handle'[t].asked
      BY <2>2, <2>3
    <2>5. FileFits(t)'
      BY <1>8, <2>4, OpenedEffect DEF FileFits, InCall
    <2>6. QED
      BY <1>2, <1>8, <2>5, OpenedEffect
  <1>9. CASE SetAttr(t)
    <2>1. reply' = reply /\ reply[t] = NoReply
      BY <1>1, <1>9, SetAttrEffect DEF ThreadFits
    <2>2. FileFits(t)'
      BY <1>1, <1>9, <2>1, SetAttrEffect, NoHandleIsShut DEF FileFits, InCall
    <2>3. QED
      BY <1>2, <1>9, <2>2, SetAttrEffect
  <1>10. CASE Closed(t)
    <2>1. FileFits(t)'
      BY <1>10, ClosedEffect, NoHandleIsShut DEF FileFits, InCall
    <2>2. QED
      BY <1>2, <1>10, <2>1, ClosedEffect
  <1>11. CASE Locked(t)
    <2>1. FileFits(t)'
      BY <1>1, <1>11, LockedEffect DEF FileFits, InCall
    <2>2. QED
      BY <1>2, <1>11, <2>1, LockedEffect
  <1>12. QED
    BY <1>3, <1>4, <1>5, <1>6, <1>7, <1>8, <1>9, <1>10, <1>11 DEF Step

LEMMA ServeFiles ==
  ASSUME Typed, ThreadsFit, RequestsFit, RepliesFit, SeqidFits, FilesFit,
         ~drifted, ~drifted', Serve
  PROVE  \A u \in Threads : FileFits(u)'
  <1>1. UNCHANGED <<pc, call, handle>>
    <2>1. wire # <<>> /\ \E r : Answer(r)
      BY DEF Serve, StopBefore, Reject, BadSeqid, Replay, BadStateid, Refuse, Execute
    <2>2. QED
      BY <2>1, AnswerEffect
  <1>2. \A t \in Threads : \/ reply'[t] = reply[t]
                           \/ reply'[t].status # "ok" /\ reply'[t].file = None
                           \/ reply'[t].file = call[t].file
    <2>1. \A s \in {"bump", "keep"} : Error(s).status # "ok" /\ Error(s).file = None
      BY DEF Error
    <2>2. ASSUME NEW t \in Threads, NEW s, NEW confirm,
                 reply' = [reply EXCEPT ![t] = [status |-> s, file |-> call[t].file,
                                                confirm |-> confirm]]
          PROVE  \A u \in Threads : reply'[u] = reply[u] \/ reply'[u].file = call[u].file
      <3>1. reply'[t].file = call[t].file
        BY <2>2 DEF Typed
      <3>2. QED
        BY <2>2, <3>1 DEF Typed
    <2>3. ASSUME NEW t \in Threads, NEW s \in {"bump", "keep"},
                 reply' = [reply EXCEPT ![t] = Error(s)]
          PROVE  \A u \in Threads : \/ reply'[u] = reply[u]
                                    \/ reply'[u].status # "ok" /\ reply'[u].file = None
      BY <2>1, <2>3 DEF Typed
    <2>4. CASE UNCHANGED <<srv, reply>>
      BY <2>4
    <2>5. CASE \E t \in Threads, s \in {"bump", "keep"} : reply' = [reply EXCEPT ![t] = Error(s)]
      BY <2>3, <2>5
    <2>6. CASE \E t \in Threads, s \in {"ok", "bump"}, confirm \in BOOLEAN :
                 reply' = [reply EXCEPT ![t] = [status |-> s, file |-> call[t].file,
                                                confirm |-> confirm]]
      BY <2>2, <2>6
    <2>7. QED
      <3> HIDE DEF Error
      <3>1. QED
        BY <2>4, <2>5, <2>6, ServeInStep
  <1>3. QED
    BY <1>1, <1>2 DEF FilesFit, FileFits, InCall

-----------------------------------------------------------------------------
(***************************************************************************)
(* Opens.                                                                  *)
(***************************************************************************)
\* A call that fails leaves what it held, or its handle keeps it.
LEMMA ReturnFalseHolds ==
  ASSUME Typed, ThreadsFit, NEW t \in Threads, pc[t] = "wait", ReturnFalse(t),
         NEW f \in Files, f \notin leaked', HeldBy(t, f)
  PROVE  HeldBy(t, f)'
  <1>1. ThreadFits(t) /\ call[t].kind \in Kinds
    BY ThreadReplies DEF ThreadsFit
  <1>2. f \notin LeftOpen(t)
    BY ReturnFalseEffect
  <1>3. /\ call[t].kind = "open" => reply[t].file # f
        /\ call[t].kind = "confirm" => call[t].file # f
        /\ call[t].kind = "close" /\ call[t].op = "truncate" => call[t].file # f
    BY <1>2 DEF LeftOpen
  <1>4. handle[t].open /\ handle[t].file = f /\ call[t].kind \in {"close", "lock"}
    BY <1>1, <1>3 DEF HeldBy, ThreadFits, InCall, Kinds
  <1>5. call[t].op # "truncate"
    BY <1>1, <1>3, <1>4 DEF ThreadFits, InCall
  <1>6. handle'[t] = handle[t]
    BY <1>5, ReturnFalseEffect
  <1>7. QED
    BY <1>4, <1>6 DEF HeldBy

LEMMA StepHolds ==
  ASSUME Typed, ThreadsFit, RepliesFit, FilesFit, OpensAreHeld, ~drifted,
         NEW t \in Threads, Step(t) \/ Call(t),
         NEW f \in Files, f \in srv.opens, f \notin leaked', f \in leaked \/ HeldBy(t, f)
  PROVE  HeldBy(t, f)'
  <1>1. ThreadFits(t) /\ FileFits(t)
    BY DEF ThreadsFit, FilesFit
  <1>2. CASE Call(t) \/ Enter(t) \/ Send(t)
    <2>1. UNCHANGED <<handle, leaked>> /\ pc[t] # "wait"
      BY <1>2, CallEffect, EnterEffect, SendEffect DEF Enter, Send
    <2>2. HeldBy(t, f)
      BY <2>1
    <2>3. CASE handle[t].open /\ handle[t].file = f
      BY <2>1, <2>3 DEF HeldBy
    <2>4. CASE HasMutex(t) /\ call[t].kind = "confirm" /\ call[t].file = f
      <3>1. Send(t)
        BY <1>2, <2>4, CallEffect DEF HasMutex, Enter
      <3>2. QED
        BY <2>4, <3>1, SendEffect DEF HeldBy, HasMutex
    <2>5. QED
      BY <2>1, <2>2, <2>3, <2>4 DEF HeldBy
  <1>3. CASE CallFails(t) \/ Failed(t) \/ Undecoded(t)
    <2>1. pc[t] = "wait" /\ ReturnFalse(t)
      BY <1>3 DEF CallFails, Failed, Undecoded
    <2>2. f \notin leaked
      BY <2>1, ReturnFalseEffect
    <2>3. QED
      BY <2>1, <2>2, ReturnFalseHolds
  <1>4. CASE Confirm(t)
    <2>1. pc[t] = "wait" /\ call[t].kind = "open" /\ f \notin leaked
      BY <1>4, ConfirmEffect DEF Confirm, Succeeds
    <2>2. ~handle[t].open
      BY <1>1, <2>1 DEF ThreadFits, InCall
    <2>3. reply[t].file = f
      BY <2>1, <2>2 DEF HeldBy
    <2>4. QED
      BY <1>4, <2>3, ConfirmEffect DEF HeldBy, HasMutex
  <1>5. CASE Opened(t)
    <2>1. /\ pc[t] = "wait" /\ call[t].kind \in {"open", "confirm"} /\ reply[t].status = "ok"
      BY <1>5 DEF Opened, Succeeds
    <2>2. reply[t].file = call[t].file /\ ~handle[t].open
      BY <1>1, <2>1 DEF FileFits, ThreadFits, InCall
    <2>3. reply[t].file = f
      BY <1>5, <2>1, <2>2, OpenedEffect DEF HeldBy
    <2>4. handle'[t] = [open |-> TRUE, file |-> reply[t].file, asked |-> call[t].asked]
      BY <1>5, OpenedEffect
    <2>5. handle'[t].open /\ handle'[t].file = f
      BY <2>3, <2>4
    <2>6. QED
      BY <2>5 DEF HeldBy
  <1>6. CASE SetAttr(t)
    <2>1. pc[t] = "setattr" /\ f \notin leaked
      BY <1>6, SetAttrEffect
    <2>2. handle[t].file = f /\ handle[t].open
      BY <2>1 DEF HeldBy, HasMutex
    <2>3. QED
      BY <1>6, <2>2, SetAttrEffect DEF HeldBy
  <1>7. CASE Closed(t)
    <2>1. /\ pc[t] = "wait" /\ call[t].kind = "close" /\ reply[t].status = "ok"
          /\ f \notin leaked
      BY <1>7, ClosedEffect DEF Closed, Succeeds
    <2>2. f = call[t].file
      BY <1>1, <2>1 DEF HeldBy, ThreadFits, InCall
    <2>3. QED
      BY <2>1, <2>2 DEF OpensAreHeld
  <1>8. CASE Locked(t)
    <2>1. /\ pc[t] = "wait" /\ call[t].kind = "lock" /\ handle' = handle /\ f \notin leaked
      BY <1>8, LockedEffect DEF Locked, Succeeds
    <2>2. QED
      BY <2>1 DEF HeldBy
  <1>9. QED
    BY <1>2, <1>3, <1>4, <1>5, <1>6, <1>7, <1>8 DEF Step

LEMMA StepOpens ==
  ASSUME Typed, ThreadsFit, RepliesFit, FilesFit, OpensAreHeld, ~drifted,
         NEW t \in Threads, Step(t) \/ Call(t)
  PROVE  OpensAreHeld'
  <1>1. Apart(t) /\ srv' = srv
    BY StepReply
  <1>2. \A f \in srv.opens : f \in Files
    BY DEF Typed, Servers
  <1>3. ASSUME NEW u \in Threads \ {t}, NEW f, HeldBy(u, f)
        PROVE  HeldBy(u, f)'
    BY <1>1, <1>3 DEF Apart, HeldBy, HasMutex
  <1>4. ASSUME NEW f \in srv.opens, f \notin leaked'
        PROVE  \E u \in Threads : HeldBy(u, f)'
    <2>1. CASE f \in leaked
      BY <1>2, <1>4, <2>1, StepHolds
    <2>2. CASE f \notin leaked
      <3>1. PICK u \in Threads : HeldBy(u, f)
        BY <2>2 DEF OpensAreHeld
      <3>2. QED
        BY <1>2, <1>3, <1>4, <3>1, StepHolds
    <2>3. QED
      BY <2>1, <2>2
  <1>5. ASSUME NEW u \in Threads, reply'[u].status = "ok", call'[u].kind = "close"
        PROVE  call'[u].file \notin srv.opens
    <2>1. reply[u].status = "ok" /\ call[u].kind = "close"
      BY <1>1, <1>5, StepReply, NoReplyFits DEF Apart
    <2>2. call'[u].file = call[u].file
      <3>1. CASE u # t
        BY <1>1, <3>1 DEF Apart
      <3>2. CASE u = t
        <4>1. pc[t] = "wait"
          BY <2>1, <3>2, NoReplyFits DEF ThreadsFit, ThreadFits
        <4>2. reply'[t] # NoReply
          BY <1>5, <3>2, NoReplyFits
        <4>3. CallFails(t) \/ Failed(t) \/ Undecoded(t) => FALSE
          BY <4>2, ReturnFalseEffect DEF CallFails, Failed, Undecoded
        <4>4. FALSE
          BY <4>1, <4>2, <4>3, CallEffect, ConfirmEffect, OpenedEffect, SetAttrEffect,
             ClosedEffect, LockedEffect
          DEF Step, Enter, Send
        <4>5. QED
          BY <4>4
      <3>3. QED
        BY <3>1, <3>2
    <2>3. QED
      BY <2>1, <2>2 DEF OpensAreHeld
  <1>6. QED
    BY <1>1, <1>4, <1>5 DEF OpensAreHeld

LEMMA ServeOpens ==
  ASSUME Typed, ThreadsFit, RequestsFit, RepliesFit, SeqidFits, OpensAreHeld,
         ~drifted, ~drifted', Serve
  PROVE  OpensAreHeld'
  <1>1. UNCHANGED <<pc, call, handle, leaked>>
    <2>1. wire # <<>> /\ \E r : Answer(r)
      BY DEF Serve, StopBefore, Reject, BadSeqid, Replay, BadStateid, Refuse, Execute
    <2>2. QED
      BY <2>1, AnswerEffect
  <1>2. CASE UNCHANGED <<srv, reply>>
    BY <1>1, <1>2 DEF OpensAreHeld, HeldBy, HasMutex
  <1>3. ASSUME NEW t \in Threads, reply[t] = NoReply,
               \A u \in Threads \ {t} : reply'[u] = reply[u],
               NEW u \in Threads, NEW f \in Files, HeldBy(u, f)
        PROVE  HeldBy(u, f)'
    <2>1. reply[t].file # f
      BY <1>3, NoReplyFits
    <2>2. QED
      BY <1>1, <1>3, <2>1 DEF HeldBy, HasMutex
  <1>4. srv.opens \subseteq Files /\ \A f \in srv.opens \ leaked : \E t \in Threads : HeldBy(t, f)
    BY DEF OpensAreHeld, Typed, Servers
  <1>5. ASSUME NEW t \in Threads, NEW s \in {"bump", "keep"}, reply[t] = NoReply,
               reply' = [reply EXCEPT ![t] = Error(s)], UNCHANGED srv.opens
        PROVE  OpensAreHeld'
    <2>1. reply'[t].status = s /\ \A u \in Threads \ {t} : reply'[u] = reply[u]
      BY <1>5 DEF Typed, Error
    <2>2. \A f \in srv'.opens \ leaked' : \E u \in Threads : HeldBy(u, f)'
      BY <1>1, <1>3, <1>4, <1>5, <2>1
    <2>3. \A u \in Threads : reply'[u].status = "ok" /\ call'[u].kind = "close" =>
            call'[u].file \notin srv'.opens
      BY <1>1, <1>5, <2>1 DEF OpensAreHeld
    <2>4. QED
      BY <2>2, <2>3 DEF OpensAreHeld
  <1>6. ASSUME NEW t \in Threads, NEW s \in {"ok", "bump"}, NEW confirm \in BOOLEAN,
               pc[t] = "wait", reply[t] = NoReply,
               reply' = [reply EXCEPT ![t] = [status |-> s, file |-> call[t].file,
                                              confirm |-> confirm]],
               srv'.opens = CASE call[t].kind = "open" ->
                                   (IF srv.confirmed THEN srv.opens ELSE {}) \cup {call[t].file}
                              [] call[t].kind = "close" -> srv.opens \ {call[t].file}
                              [] OTHER -> srv.opens
        PROVE  OpensAreHeld'
    <2>1. reply'[t].file = call[t].file /\ \A u \in Threads \ {t} : reply'[u] = reply[u]
      BY <1>6 DEF Typed
    <2>2. srv'.opens \subseteq srv.opens \cup (IF call[t].kind = "open" THEN {call[t].file} ELSE {})
      BY <1>6
    <2>3. call[t].kind = "open" => HeldBy(t, call[t].file)'
      BY <1>1, <1>6, <2>1 DEF HeldBy
    <2>4. \A f \in srv'.opens \ leaked' : \E u \in Threads : HeldBy(u, f)'
      BY <1>1, <1>3, <1>4, <1>6, <2>1, <2>2, <2>3
    <2>5. ASSUME NEW u \in Threads, reply'[u].status = "ok", call'[u].kind = "close"
          PROVE  call'[u].file \notin srv'.opens
      <3>1. u = t
        <4>1. u # t => HasMutex(u)
          BY <2>1, <2>5, NoReplyFits DEF ThreadsFit, ThreadFits, HasMutex
        <4>2. QED
          BY <1>6, <4>1, OneHasMutex DEF HasMutex
      <3>2. QED
        BY <1>1, <1>6, <2>5, <3>1
    <2>6. QED
      BY <2>4, <2>5 DEF OpensAreHeld
  <1>7. QED
    BY <1>2, <1>5, <1>6, ServeInStep

-----------------------------------------------------------------------------
(***************************************************************************)
(* The invariant, and what follows from it.                                *)
(***************************************************************************)
LEMMA InitInvariant == Init => IInv
  <1> SUFFICES ASSUME Init PROVE IInv
    OBVIOUS
  <1>1. /\ \A t \in Threads : /\ pc[t] = "idle" /\ call[t] = NoCall /\ reply[t] = NoReply
                              /\ handle[t] = NoHandle
        /\ mutex = None /\ seqid = 0 /\ DOMAIN wire = {} /\ leaked = {}
    BY DEF Init
  <1>2. /\ srv.confirmed = FALSE /\ srv.opens = {}
        /\ srv.last.kind = "none" /\ srv.last.reply = NoReply
    BY DEF Init
  <1>3. ThreadsFit
    BY <1>1 DEF ThreadsFit, ThreadFits, HasMutex, InCall
  <1>4. RequestsFit /\ SeqidsAreOrdered
    BY <1>1 DEF RequestsFit, SeqidsAreOrdered
  <1>5. RepliesFit
    BY <1>1, <1>2, NoReplyFits, NoHandleIsShut DEF RepliesFit, ReplyFits
  <1>6. SeqidFits /\ FilesFit
    BY <1>1, <1>2, NoReplyFits, NoHandleIsShut
    DEF SeqidFits, SeqidInStep, NextFits, HasMutex, FilesFit, FileFits, InCall
  <1>7. OpensAreHeld
    BY <1>1, <1>2, NoReplyFits DEF OpensAreHeld
  <1>8. QED
    BY <1>3, <1>4, <1>5, <1>6, <1>7, InitTypes DEF IInv

LEMMA NextInvariant == IInv /\ [Next]_vars => IInv'
  <1> SUFFICES ASSUME IInv, [Next]_vars PROVE IInv'
    OBVIOUS
  <1>1. Typed /\ TypeOK'
    BY NextTypes, TypedIsTypeOK DEF IInv
  <1>2. CASE Serve
    <2>1. ThreadsFit' /\ RequestsFit' /\ SeqidsAreOrdered' /\ RepliesFit'
      BY <1>1, <1>2, ServeThreads, ServeRequests, ServeReplies DEF IInv
    <2>2. ASSUME ~drifted'
          PROVE  SeqidFits' /\ FilesFit' /\ OpensAreHeld'
      <3>1. ~drifted
        BY <1>2, <2>2, DriftedStays DEF Next
      <3>2. QED
        BY <1>1, <1>2, <2>2, <3>1, ServeSeqids, ServeFiles, ServeOpens DEF IInv, FilesFit
    <2>3. QED
      BY <1>1, <2>1, <2>2 DEF IInv, SeqidFits, FilesFit, OpensAreHeld
  <1>3. ASSUME NEW t \in Threads, Step(t) \/ Call(t)
        PROVE  IInv'
    <2>1. ThreadsFit' /\ RequestsFit' /\ SeqidsAreOrdered' /\ RepliesFit'
      BY <1>1, <1>3, StepThreads, StepRequests, StepReplies DEF IInv
    <2>2. ASSUME ~drifted'
          PROVE  SeqidFits' /\ FilesFit' /\ OpensAreHeld'
      <3>1. ~drifted
        BY <1>3, <2>2, DriftedStays DEF Next
      <3>2. QED
        BY <1>1, <1>3, <2>2, <3>1, StepSeqids, StepFiles, StepOpens DEF IInv, FilesFit
    <2>3. QED
      BY <1>1, <2>1, <2>2 DEF IInv, SeqidFits, FilesFit, OpensAreHeld
  <1>4. CASE UNCHANGED vars
    BY <1>1, <1>4 DEF IInv, vars, ThreadsFit, ThreadFits, HasMutex, InCall, RequestsFit,
       SeqidsAreOrdered, RepliesFit, ReplyFits, SeqidFits, SeqidInStep, NextFits, FilesFit,
       FileFits, OpensAreHeld, HeldBy
  <1>5. QED
    BY <1>2, <1>3, <1>4 DEF Next, Done

\* The inductive invariant.
LEMMA IInvAlways == Spec => []IInv
  BY InitInvariant, NextInvariant, PTL DEF Spec

\* The seqid, the handles and the requests keep their types through every operation of
\* Nfs4ApiHandle and every answer: no reply is read that was not given.
THEOREM TypeCorrect == Spec => []TypeOK
  BY IInvAlways, PTL DEF IInv

\* The seqid is the server's whenever no call is under way, but for the named cases in
\* which the two drift apart: incrementFileOPSeqId is called where it must be.
THEOREM SeqidStaysInStep == Spec => []SeqidInStep
  <1>1. IInv => SeqidInStep
    BY DEF IInv, SeqidFits, SeqidInStep
  <1>2. QED
    BY <1>1, IInvAlways, PTL

\* No request overtakes one with a lower seqid, m_file_op_seqid_mutex being held from
\* reading the seqid to sending the request.
THEOREM RequestsAreInOrder == Spec => []SeqidsAreOrdered
  BY IInvAlways, PTL DEF IInv

\* Nfs4ApiHandle::create fills the caller's NfsFh with the handle of the file that was
\* asked for, not with that of an earlier OPEN, until the seqids drift apart.
THEOREM HandlesAreRight == Spec => []RightFile
  <1>1. IInv => RightFile
    BY DEF IInv, FilesFit, FileFits, RightFile
  <1>2. QED
    BY <1>1, IInvAlways, PTL

\* A file the server has open is in some caller's NfsFh, or the operation that opens or
\* closes it is under way: but for the files named in leaked, none is left open.
THEOREM OpensAreNotLost == Spec => []EveryOpenIsHeld
  <1>1. IInv => EveryOpenIsHeld
    <2> SUFFICES ASSUME IInv, ~drifted, NEW f \in srv.opens \ leaked
                 PROVE  \E t \in Threads : \/ handle[t].open /\ handle[t].file = f
                                           \/ pc[t] # "idle" /\ call[t].file = f
      BY DEF EveryOpenIsHeld
    <2>1. PICK t \in Threads : HeldBy(t, f)
      BY DEF IInv, OpensAreHeld
    <2>2. f \in Files /\ f # None
      BY DEF IInv, TypeOK
    <2>3. CASE pc[t] = "wait" /\ call[t].kind = "open" /\ reply[t].file = f
      <3>1. call[t].file = f
        BY <2>2, <2>3 DEF IInv, FilesFit, FileFits
      <3>2. QED
        BY <2>3, <3>1
    <2>4. QED
      BY <2>1, <2>3 DEF HeldBy, HasMutex
  <1>2. QED
    BY <1>1, IInvAlways, PTL

\* The client does not touch the server's record.
LEMMA ClientKeepsServer ==
  ASSUME NEW t \in Threads, Step(t) \/ Call(t)
  PROVE  UNCHANGED srv
  BY DEF Call, Create, Open, OpenPath, Truncate, Close, Lock, Begin, Step, Enter, Send,
     CallFails, Failed, Undecoded, Confirm, Opened, SetAttr, Closed, Locked

\* A file the server holds for a thread outlives the opens of the others: by the
\* time one has a handle the owner is confirmed.
LEMMA OpensStep ==
  ASSUME IInv, [Next]_vars, ~drifted', NEW f \in srv.opens \ srv'.opens, f \notin leaked
  PROVE  ClosingIt(f)
  <1>1. CASE Serve
    <2>0. Typed /\ ~drifted
      BY <1>1, TypedIsTypeOK, DriftedStays DEF IInv, Next
    <2>1. PICK t \in Threads :
            /\ pc[t] = "wait" /\ reply[t] = NoReply
            /\ srv'.opens = CASE call[t].kind = "open" ->
                                   (IF srv.confirmed THEN srv.opens ELSE {}) \cup {call[t].file}
                              [] call[t].kind = "close" -> srv.opens \ {call[t].file}
                              [] OTHER -> srv.opens
      BY <1>1, <2>0, ServeInStep DEF IInv
    <2>2. CASE call[t].kind = "open"
      \* The owner is not confirmed, so that no one can hold the file.
      <3>1. ~srv.confirmed
        BY <2>1, <2>2
      <3>2. PICK u \in Threads : HeldBy(u, f)
        BY <2>0 DEF IInv, OpensAreHeld
      <3>3. ~handle[u].open
        BY <3>1 DEF IInv, RepliesFit
      <3>4. u = t
        <4>1. HasMutex(t) /\ HasMutex(u)
          BY <2>1, <3>2, <3>3 DEF HeldBy, HasMutex
        <4>2. QED
          BY <4>1, OneHasMutex DEF IInv
      <3>5. reply[t].file # f
        <4>1. f \in Files
          BY <2>0 DEF Typed, Servers
        <4>2. QED
          BY <2>1, <4>1, NoReplyFits
      <3>6. QED
        BY <2>2, <3>2, <3>3, <3>4, <3>5 DEF HeldBy
    <2>3. CASE call[t].kind = "close"
      <3>1. f = call[t].file
        BY <2>1, <2>3
      <3>2. handle[t].open /\ handle[t].file = call[t].file
        BY <2>1, <2>3 DEF IInv, ThreadsFit, ThreadFits, InCall
      <3>3. QED
        BY <2>1, <2>3, <3>1, <3>2 DEF ClosingIt
    <2>4. QED
      BY <2>1, <2>2, <2>3
  <1>2. CASE \E t \in Threads : Step(t) \/ Call(t)
    BY <1>2, ClientKeepsServer
  <1>3. CASE UNCHANGED vars
    BY <1>3 DEF vars
  <1>4. QED
    BY <1>1, <1>2, <1>3 DEF Next, Done

\* CLOSE by a thread that has the file open is the only way the server comes to give
\* up an open that was not left behind: whatever fails, however the threads'
\* operations interleave.
THEOREM OpensEndByTheirClose == Spec => OpensEndByClose
  <1>1. IInv /\ [Next]_vars =>
          [~drifted' => \A f \in srv.opens \ srv'.opens : f \in leaked \/ ClosingIt(f)]_vars
    BY OpensStep
  <1>2. QED
    BY <1>1, IInvAlways, PTL DEF Spec, OpensEndByClose

=============================================================================
