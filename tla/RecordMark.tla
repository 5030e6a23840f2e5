----------------------------- MODULE RecordMark -----------------------------
(***************************************************************************)
(* How RpcConnection cuts the bytes of a TCP connection into replies: the  *)
(* record-marking headers, the fragment being assembled and the read state *)
(* that survives a short read (RpcConnection::recvTCPPacket, Fragment,     *)
(* BasicConnection::recvNbyte, ReadState).                                 *)
(*                                                                         *)
(* The server's stream is a sequence of fragments; a byte is its position  *)
(* in that stream, so that the model knows which byte ended up where.      *)
(***************************************************************************)
EXTENDS Integers, Sequences

CONSTANTS
  HeaderLen,  \* bytes of a record-marking header (4 in the code)
  Lengths,    \* lengths the server gives its fragments
  IndexRange, \* the values of a uint32, the type of a buffer's sizes (2^32)
  MaxFrags,   \* bound: fragments the server sends on a connection
  MaxConns,   \* bound: how often the connection is made
  Faults      \* how a connection may end, a subset of FaultKinds

FaultKinds ==
  { "end",      \* the server closes it
    "hangup",   \* epoll reports EPOLLHUP
    "garbled",  \* the client closes it: a complete reply has no RPC header
    "drop" }    \* the client closes it: a send has failed, or DEL_SKT

ASSUME RecordAssumption ==
  /\ HeaderLen \in Nat \ {0} /\ Lengths \subseteq Nat
  /\ IndexRange \in Nat \ {0}
  /\ \A n \in Lengths : 2 * n < IndexRange   \* the top bit marks the last one
  /\ MaxFrags \in Nat \ {0} /\ MaxConns \in Nat \ {0}
  /\ Faults \subseteq FaultKinds

Fragments == [len : Lengths, last : BOOLEAN]
Streams == UNION {[1..n -> Fragments] : n \in 1..MaxFrags}
NoPacket == <<0>>     \* a null m_packet: no byte has position 0

VARIABLES
  stream,     \* what the server sends on this connection
  arrived,    \* how many of its bytes have reached the socket
  ended,      \* how the connection has ended, "no" if it has not
  taken,      \* how many bytes recv has returned
  conns,      \* connections made so far
  pc,         \* where the manager thread is in recvPacket
  once,       \* recvPacket is called once, for EPOLLHUP, not in a loop
  initialized, byteToRead,        \* m_readState
  isHeaderDone, length, isLast,   \* m_fragment, its header decoded
  packet,     \* m_fragment.m_packet: the positions of the bytes in it
  capacity,   \* the bytes allocated for it
  delivered   \* the replies handed to matchPendingRequest

readState == <<initialized, byteToRead>>
fragment  == <<isHeaderDone, length, isLast, packet, capacity>>
server    == <<stream, arrived, ended>>
vars == <<server, taken, conns, pc, once, readState, fragment, delivered>>

\* End(s)[i] is the position of the last byte of fragment i.
End(s) == LET end[i \in 0..Len(s)] ==
                IF i = 0 THEN 0 ELSE end[i - 1] + HeaderLen + s[i].len
          IN end

\* Count(s)[i] is how many of the first i fragments are last ones: how many
\* replies are complete by then.
Count(s) == LET count[i \in 0..Len(s)] ==
                  IF i = 0 THEN 0 ELSE count[i - 1] + IF s[i].last THEN 1 ELSE 0
            IN count

\* The data bytes of fragment i, and those of the k-th reply in the first i
\* fragments: the data of the fragments that come after k - 1 last ones.
Data(s, i) == [j \in 1..s[i].len |-> End(s)[i - 1] + HeaderLen + j]
Bytes(s, k) == LET bytes[i \in 0..Len(s)] ==
                     IF i = 0 THEN <<>>
                     ELSE bytes[i - 1] \o
                            IF Count(s)[i - 1] = k - 1 THEN Data(s, i) ELSE <<>>
               IN bytes
Reply(s, k) == Bytes(s, k)[Len(s)]
Replies(s) == [k \in 1..Count(s)[Len(s)] |-> Reply(s, k)]

TypeOK ==
  /\ stream \in Streams
  /\ arrived \in 0..End(stream)[Len(stream)] /\ taken \in 0..arrived
  /\ ended \in {"no"} \cup FaultKinds
  /\ conns \in 1..MaxConns
  /\ pc \in {"idle", "header", "data", "closing", "closed"}
  /\ once \in BOOLEAN
  /\ initialized \in BOOLEAN /\ byteToRead \in Nat
  /\ isHeaderDone \in BOOLEAN /\ length \in Nat /\ isLast \in BOOLEAN
  /\ packet \in Seq(Nat) /\ capacity \in Nat
  /\ delivered \in Seq(Seq(Nat))

Init ==
  /\ stream \in Streams /\ arrived = 0 /\ ended = "no"
  /\ taken = 0 /\ conns = 1
  /\ pc = "idle" /\ once = FALSE
  /\ initialized = FALSE /\ byteToRead = 0
  /\ isHeaderDone = FALSE /\ length = 0 /\ isLast = FALSE
  /\ packet = NoPacket /\ capacity = 0
  /\ delivered = <<>>

-----------------------------------------------------------------------------
(* The server and the network.                                             *)

Arrive ==
  /\ ended = "no" /\ pc # "closed" /\ arrived < End(stream)[Len(stream)]
  /\ arrived' \in (arrived + 1)..End(stream)[Len(stream)]
  /\ UNCHANGED <<stream, ended, taken, conns, pc, once, readState, fragment, delivered>>

Ends ==
  /\ ended = "no" /\ pc # "closed"
  /\ ended' \in Faults \cap {"end", "hangup"}
  /\ UNCHANGED <<stream, arrived, taken, conns, pc, once, readState, fragment, delivered>>

-----------------------------------------------------------------------------
(* The manager thread.                                                     *)

\* ReadState::reset and Fragment::clear.
ResetReadState == initialized' = FALSE /\ byteToRead' = 0
ClearFragment  == isHeaderDone' = FALSE /\ length' = 0 /\ isLast' = FALSE
                  /\ packet' = NoPacket /\ capacity' = 0

\* Mutant: the short read of the last event is forgotten.
Readable_ForgetsShortRead ==
  /\ pc = "idle" /\ (arrived > taken \/ ended # "no")
  /\ pc' = IF isHeaderDone THEN "data" ELSE "header"
  /\ once' = (ended = "hangup")
  /\ ResetReadState
  /\ UNCHANGED <<server, taken, conns, fragment, delivered>>

\* epoll reports the socket; recvTCPPacket resumes where it left off.
Readable ==
  /\ pc = "idle" /\ (arrived > taken \/ ended # "no")
  /\ pc' = IF isHeaderDone THEN "data" ELSE "header"
  /\ once' = (ended = "hangup")
  /\ UNCHANGED <<server, taken, conns, readState, fragment, delivered>>

\* The read state is initialized for what is to be read, unless it still holds
\* a short read.
Initialize ==
  /\ pc \in {"header", "data"} /\ ~initialized
  /\ initialized' = TRUE
  /\ byteToRead' = IF pc = "header" THEN HeaderLen ELSE length
  /\ UNCHANGED <<server, taken, conns, pc, once, fragment, delivered>>

\* The header that ends at a position: garbage if none does.
HeaderEndingAt(pos) ==
  IF \E i \in 1..Len(stream) : End(stream)[i - 1] + HeaderLen = pos
  THEN stream[CHOOSE i \in 1..Len(stream) : End(stream)[i - 1] + HeaderLen = pos]
  ELSE [len |-> HeaderLen, last |-> FALSE]

\* Mutant: a buffer grows to twice its capacity, whatever is asked for.
resize_DoublesOnly(cap, newSize) ==
  IF newSize <= cap THEN cap ELSE (2 * cap) % IndexRange

\* The capacity of a buffer asked to hold newSize bytes: twice what it was, or
\* twice what is asked for.
resize(cap, newSize) ==
  IF newSize <= cap THEN cap
  ELSE IF newSize > (2 * cap) % IndexRange THEN (2 * newSize) % IndexRange
  ELSE (2 * cap) % IndexRange

\* recv returns part of a header, or the end of it: the header is decoded and
\* the packet made or enlarged.
RecvHeader ==
  /\ pc = "header" /\ initialized /\ arrived > taken
  /\ \E n \in 1..byteToRead :
       /\ taken + n <= arrived
       /\ taken' = taken + n
       /\ IF n < byteToRead
          THEN /\ byteToRead' = byteToRead - n
               /\ UNCHANGED <<pc, initialized, fragment>>
          ELSE /\ ResetReadState
               /\ isHeaderDone' = TRUE
               /\ length' = HeaderEndingAt(taken').len
               /\ isLast' = HeaderEndingAt(taken').last
               /\ IF packet = NoPacket
                  THEN packet' = <<>> /\ capacity' = length'
                  ELSE /\ packet' = packet
                       /\ capacity' = resize(capacity, (Len(packet) + length') % IndexRange)
               /\ pc' = "data"
  /\ UNCHANGED <<server, conns, once, delivered>>

\* A fragment is complete: after the last one the packet is delivered, and
\* recvPacket is called again unless the socket has hung up.
FragmentDone(data) ==
  /\ ResetReadState /\ isHeaderDone' = FALSE
  /\ IF isLast
     THEN /\ delivered' = Append(delivered, data)
          /\ length' = 0 /\ isLast' = FALSE
          /\ packet' = NoPacket /\ capacity' = 0
          /\ pc' = IF once THEN "closing" ELSE "header"
     ELSE /\ pc' = "header"
          /\ packet' = data /\ capacity' = resize(capacity, Len(data) % IndexRange)
          /\ UNCHANGED <<delivered, length, isLast>>

\* Mutant: recv is taken to return all it was asked for.
RecvData_AssumesAll ==
  /\ pc = "data" /\ initialized /\ byteToRead > 0 /\ arrived > taken
  /\ taken' = taken + byteToRead
  /\ FragmentDone(packet \o [j \in 1..byteToRead |-> taken + j])
  /\ UNCHANGED <<server, conns, once>>

\* recv returns part of a fragment's data, or the end of it.
RecvData ==
  /\ pc = "data" /\ initialized /\ byteToRead > 0 /\ arrived > taken
  /\ \E n \in 1..byteToRead :
       /\ taken + n <= arrived
       /\ taken' = taken + n
       /\ LET data == packet \o [j \in 1..n |-> taken + j] IN
          IF n < byteToRead
          THEN /\ byteToRead' = byteToRead - n /\ packet' = data
               /\ UNCHANGED <<pc, initialized, isHeaderDone, length, isLast, capacity, delivered>>
          ELSE FragmentDone(data)
  /\ UNCHANGED <<server, conns, once>>

\* recvPacket has a complete reply whose header decodeHeader cannot read: the reply
\* is dropped and the connection closed.  What a header is depends on the reply's
\* bytes, so that any reply may be one.
RecvGarbled ==
  /\ "garbled" \in Faults
  /\ pc = "data" /\ initialized /\ byteToRead > 0 /\ isLast
  /\ taken + byteToRead <= arrived
  /\ taken' = taken + byteToRead
  /\ ended' = "garbled" /\ pc' = "closing"
  /\ ResetReadState /\ ClearFragment
  /\ UNCHANGED <<stream, arrived, conns, once, delivered>>

\* Mutant: a short read is taken for the end of the connection.
WouldBlock_Closes ==
  /\ pc \in {"header", "data"} /\ initialized /\ byteToRead > 0
  /\ arrived = taken /\ ended = "no"
  /\ pc' = "closing"
  /\ UNCHANGED <<server, taken, conns, once, readState, fragment, delivered>>

\* recv would block: recvPacket returns 1 and keeps what it has.
WouldBlock ==
  /\ pc \in {"header", "data"} /\ initialized /\ byteToRead > 0
  /\ arrived = taken /\ ended = "no"
  /\ pc' = "idle"
  /\ UNCHANGED <<server, taken, conns, once, readState, fragment, delivered>>

\* recv returns 0: the server has closed, or there was nothing to ask for.
RecvEnd ==
  /\ pc \in {"header", "data"} /\ initialized
  /\ byteToRead = 0 \/ (arrived = taken /\ ended # "no")
  /\ ResetReadState /\ ClearFragment
  /\ pc' = "closing"
  /\ UNCHANGED <<server, taken, conns, once, delivered>>

\* Between two events the manager closes the connection for another reason
\* than what it reads: a packet could not be sent, or the connection is cleared.
Drop ==
  /\ "drop" \in Faults
  /\ pc = "idle" /\ ended = "no"
  /\ ended' = "drop" /\ pc' = "closing"
  /\ UNCHANGED <<stream, arrived, taken, conns, once, readState, fragment, delivered>>

\* Mutant: the fragment being assembled survives the connection.
Close_KeepsFragment ==
  /\ pc = "closing"
  /\ pc' = "closed"
  /\ ResetReadState /\ UNCHANGED fragment
  /\ UNCHANGED <<server, taken, conns, once, delivered>>

\* closeConnection: disconnect resets the read state, cleanup the fragment.
Close ==
  /\ pc = "closing"
  /\ pc' = "closed"
  /\ ResetReadState /\ ClearFragment
  /\ UNCHANGED <<server, taken, conns, once, delivered>>

\* The connection is made again, and the server starts a new stream.
Reconnect ==
  /\ pc = "closed" /\ conns < MaxConns
  /\ conns' = conns + 1
  /\ stream' \in Streams /\ arrived' = 0 /\ ended' = "no" /\ taken' = 0
  /\ pc' = "idle" /\ once' = FALSE /\ delivered' = <<>>
  /\ UNCHANGED <<readState, fragment>>

Manager ==
  \/ Readable \/ Initialize \/ RecvHeader \/ RecvData \/ RecvGarbled \/ WouldBlock
  \/ RecvEnd \/ Close

Next == Arrive \/ Ends \/ Manager \/ Drop \/ Reconnect

Spec == Init /\ [][Next]_vars

\* The server's bytes arrive and the manager thread handles its events.
FairSpec == Spec /\ WF_vars(Arrive) /\ WF_vars(Manager)

-----------------------------------------------------------------------------
\* What is delivered is what the server sent: the first replies of its stream,
\* whole and in order, wherever reads fall short, replies are split into
\* fragments or the connection is closed.
DeliveredIsSent ==
  /\ Len(delivered) <= Len(Replies(stream))
  /\ \A k \in 1..Len(delivered) : delivered[k] = Replies(stream)[k]

\* The connection gives what ReplyStream promises of it: its bytes, fragments
\* and short reads come to the delivery of one reply after another, each whole
\* and the next one sent, until it is closed; made again, it starts over.
Stream ==
  INSTANCE ReplyStream WITH sent <- Replies(stream), up <- pc # "closed",
                            Sendable <- {Replies(s) : s \in Streams}
StreamSpec == Stream!Spec

\* While it waits for more, the reader knows what the next bytes are: they
\* finish the header or the data of the fragment it is in, or a next header.
ReaderIsAligned ==
  pc = "idle" =>
    \/ ~isHeaderDone /\ ~initialized /\ taken = 0
    \/ /\ initialized /\ byteToRead > 0
       /\ \E i \in 0..Len(stream) :
            IF isHeaderDone THEN i > 0 /\ taken + byteToRead = End(stream)[i]
                            ELSE taken + byteToRead = End(stream)[i] + HeaderLen

\* What recv is asked for fits behind the bytes the packet holds, in the
\* memory allocated for it, however many fragments a reply comes in; the sizes
\* are those of half the index range, beyond which doubling one wraps around.
FragmentFits ==
  isHeaderDone =>
    LET asked == IF initialized THEN byteToRead ELSE length
        end == Len(packet) + asked
    IN 2 * end < IndexRange => end <= capacity

\* A connection that stays up delivers every reply of its stream, unless one is
\* garbled, which closes it, or a fragment is empty: recv then returns 0, as if the
\* server had closed.
EveryReplyIsDelivered ==
  <>[]( \/ delivered = Replies(stream)
        \/ ended # "no"
        \/ \E i \in DOMAIN stream : stream[i].len = 0 )

=============================================================================
