------------------------- MODULE RecordMark_proofs -------------------------
(***************************************************************************)
(* Proofs about RecordMark, for every stream of fragments, header size and *)
(* bound: what is delivered is what the server sent, wherever reads fall   *)
(* short and however the connection ends.                                  *)
(*                                                                         *)
(* What the server sent is given by recursive functions on the stream      *)
(* (End, Count, Bytes).  The first part proves what the reader needs to    *)
(* know of the three, by the lemmas of NatRecursion; the second is the     *)
(* inductive invariant.  From it follow that the packet's buffer holds     *)
(* what is read, and that the connection implements ReplyStream.           *)
(***************************************************************************)
EXTENDS RecordMark, NatRecursion, SequenceTheorems

\* The replies of a stream that are complete after c of its fragments.
First(s, c) == [k \in 1..Count(s)[c] |-> Reply(s, k)]

\* The bytes, in the first c fragments, of the reply that comes after those.
Begun(s, c) == Bytes(s, Count(s)[c] + 1)[c]

\* The n bytes that follow position b.
Run(b, n) == [j \in 1..n |-> b + j]

\* c fragments have been read, and the reader is in the next header or before
\* it.  The packet holds the fragments since the last last one, if any.
InHeader(c) ==
  /\ c \in 0..Len(stream) /\ ~isHeaderDone
  /\ IF initialized
     THEN /\ byteToRead \in 1..HeaderLen
          /\ taken + byteToRead = End(stream)[c] + HeaderLen
     ELSE taken = End(stream)[c]
  /\ packet = IF c > 0 /\ ~stream[c].last THEN Begun(stream, c) ELSE NoPacket
  /\ delivered = First(stream, c)

\* The header of fragment i has been read, and the reader is in its data.  The
\* packet holds the data taken so far, after the fragments it continues.
InData(i) ==
  LET start == End(stream)[i - 1] + HeaderLen IN
  /\ i \in 1..Len(stream) /\ isHeaderDone
  /\ length = stream[i].len /\ isLast = stream[i].last
  /\ IF initialized
     THEN /\ byteToRead \in 0..length /\ (byteToRead = 0 => length = 0)
          /\ taken + byteToRead = End(stream)[i]
     ELSE taken = start
  /\ packet = Begun(stream, i - 1) \o Run(start, taken - start)
  /\ delivered = First(stream, i - 1)

\* While the connection is up the reader is somewhere in the stream.
Place ==
  \/ \E c \in 0..Len(stream) : InHeader(c)
  \/ \E i \in 1..Len(stream) : InData(i)
IsSomewhere == pc \in {"idle", "header", "data"} => Place

\* Where recvTCPPacket is agrees with the state it has left in the members.
ReadStateFits ==
  /\ pc = "header" => ~isHeaderDone
  /\ pc = "data" => isHeaderDone
  /\ pc = "idle" => \/ initialized /\ byteToRead > 0
                    \/ ~initialized /\ ~isHeaderDone /\ taken = 0

\* A connection that is over has delivered some replies, and leaves nothing
\* behind for the next one.
Over ==
  /\ pc \in {"closing", "closed"} =>
       \E c \in 0..Len(stream) : delivered = First(stream, c)
  /\ pc = "closed" => ~initialized /\ ~isHeaderDone /\ packet = NoPacket

IInv == TypeOK /\ IsSomewhere /\ ReadStateFits /\ Over

-----------------------------------------------------------------------------
(* The recursive functions of the model.                                   *)

LEMMA StreamType ==
  ASSUME NEW s \in Streams
  PROVE  /\ s \in Seq(Fragments) /\ Len(s) \in Nat \ {0}
         /\ \A i \in 1..Len(s) :
              s[i] \in Fragments /\ s[i].len \in Nat /\ s[i].last \in BOOLEAN
  <1>1. PICK n \in 1..MaxFrags : s \in [1..n -> Fragments]
    BY DEF Streams
  <1>2. n \in Nat \ {0}
    BY RecordAssumption
  <1>3. s \in Seq(Fragments) /\ Len(s) = n
    BY <1>1, <1>2
  <1>4. \A f \in Fragments : f.len \in Nat /\ f.last \in BOOLEAN
    BY RecordAssumption DEF Fragments
  <1>5. QED
    BY <1>1, <1>2, <1>3, <1>4

\* End obeys its recursion.
LEMMA EndRecursion ==
  ASSUME NEW s \in Streams
  PROVE  /\ End(s) \in [0..Len(s) -> Nat] /\ End(s)[0] = 0
         /\ \A i \in 1..Len(s) : End(s)[i] = End(s)[i - 1] + HeaderLen + s[i].len
  <1> DEFINE N == Len(s)
             step == [i \in 1..N |-> [x \in Nat |-> x + HeaderLen + s[i].len]]
             P(g) == g = [i \in 0..N |->
                            IF i = 0 THEN 0 ELSE g[i - 1] + HeaderLen + s[i].len]
  <1>1. N \in Nat /\ HeaderLen \in Nat /\ \A i \in 1..N : s[i].len \in Nat
    BY StreamType, RecordAssumption
  <1> HIDE DEF N
  <1>2. step \in [1..N -> [Nat -> Nat]]
    BY <1>1
  <1>3. PICK f \in [0..N -> Nat] : Steps(f, 0, step, N)
    <2> HIDE DEF step
    <2>1. QED
      BY <1>1, <1>2, Recursion
  <1>4. ASSUME NEW i \in 0..N
        PROVE  (IF i = 0 THEN 0 ELSE step[i][f[i - 1]])
                 = (IF i = 0 THEN 0 ELSE f[i - 1] + HeaderLen + s[i].len)
    <2>1. CASE i # 0
      <3>1. i \in 1..N /\ i - 1 \in 0..N
        BY <1>1, <2>1
      <3>2. f[i - 1] \in Nat
        BY <3>1
      <3>3. QED
        BY <2>1, <3>1, <3>2
    <2>2. QED
      BY <2>1
  <1> HIDE DEF step
  <1>5. P(f)
    BY <1>3, <1>4 DEF Steps
  <1>6. End(s) = CHOOSE g : P(g)
    BY DEF End, N
  <1> HIDE DEF P
  <1>7. P(CHOOSE g : P(g))
    BY <1>5
  <1>8. P(End(s))
    BY <1>6, <1>7
  <1>9. /\ End(s)[0] = 0
        /\ \A i \in 1..N : End(s)[i] = End(s)[i - 1] + HeaderLen + s[i].len
    <2>1. ASSUME NEW i \in 0..N
          PROVE  End(s)[i] = IF i = 0 THEN 0 ELSE End(s)[i - 1] + HeaderLen + s[i].len
      BY <1>8 DEF P
    <2>2. 0 \in 0..N /\ \A i \in 1..N : i \in 0..N /\ i # 0
      BY <1>1
    <2>3. QED
      BY <2>1, <2>2
  <1> DEFINE T == {m \in 0..N : End(s)[m] \in Nat}
  <1>10. 0 \in T
    BY <1>1, <1>9
  <1>11. ASSUME NEW m \in 0..(N - 1), m \in T
         PROVE  m + 1 \in T
    <2>1. m + 1 \in 1..N /\ m + 1 \in 0..N /\ (m + 1) - 1 = m /\ End(s)[m] \in Nat
      BY <1>1, <1>11
    <2>2. End(s)[m + 1] = End(s)[m] + HeaderLen + s[m + 1].len
      BY <1>9, <2>1
    <2>3. QED
      BY <1>1, <2>1, <2>2
  <1>12. \A m \in 0..N : m \in T
    <2> HIDE DEF T
    <2>1. QED
      BY <1>1, <1>10, <1>11, SetInduction
  <1>13. \A m \in 0..N : End(s)[m] \in Nat
    BY <1>12
  <1>14. End(s) \in [0..N -> Nat]
    BY <1>8, <1>13 DEF P
  <1>15. QED
    BY <1>9, <1>14 DEF N

\* So does Count.
LEMMA CountRecursion ==
  ASSUME NEW s \in Streams
  PROVE  /\ Count(s) \in [0..Len(s) -> Nat] /\ Count(s)[0] = 0
         /\ \A i \in 1..Len(s) :
              Count(s)[i] = Count(s)[i - 1] + IF s[i].last THEN 1 ELSE 0
  <1> DEFINE N == Len(s)
             step == [i \in 1..N |-> [x \in Nat |-> x + IF s[i].last THEN 1 ELSE 0]]
             P(g) == g = [i \in 0..N |->
                            IF i = 0 THEN 0 ELSE g[i - 1] + IF s[i].last THEN 1 ELSE 0]
  <1>1. N \in Nat
    BY StreamType
  <1> HIDE DEF N
  <1>2. step \in [1..N -> [Nat -> Nat]]
    <2>1. ASSUME NEW i \in 1..N
          PROVE  [x \in Nat |-> x + IF s[i].last THEN 1 ELSE 0] \in [Nat -> Nat]
      OBVIOUS
    <2>2. QED
      BY <2>1
  <1>3. PICK f \in [0..N -> Nat] : Steps(f, 0, step, N)
    <2> HIDE DEF step
    <2>1. QED
      BY <1>1, <1>2, Recursion
  <1>4. ASSUME NEW i \in 0..N
        PROVE  (IF i = 0 THEN 0 ELSE step[i][f[i - 1]])
                 = (IF i = 0 THEN 0 ELSE f[i - 1] + IF s[i].last THEN 1 ELSE 0)
    <2>1. CASE i # 0
      <3>1. i \in 1..N /\ i - 1 \in 0..N
        BY <1>1, <2>1
      <3>2. f[i - 1] \in Nat
        BY <3>1
      <3>3. QED
        BY <2>1, <3>1, <3>2
    <2>2. QED
      BY <2>1
  <1> HIDE DEF step
  <1>5. P(f)
    BY <1>3, <1>4 DEF Steps
  <1>6. Count(s) = CHOOSE g : P(g)
    BY DEF Count, N
  <1> HIDE DEF P
  <1>7. P(CHOOSE g : P(g))
    BY <1>5
  <1>8. P(Count(s))
    BY <1>6, <1>7
  <1>9. /\ Count(s)[0] = 0
        /\ \A i \in 1..N : Count(s)[i] = Count(s)[i - 1] + IF s[i].last THEN 1 ELSE 0
    <2>1. ASSUME NEW i \in 0..N
          PROVE  Count(s)[i]
                   = IF i = 0 THEN 0 ELSE Count(s)[i - 1] + IF s[i].last THEN 1 ELSE 0
      BY <1>8 DEF P
    <2>2. 0 \in 0..N /\ \A i \in 1..N : i \in 0..N /\ i # 0
      BY <1>1
    <2>3. QED
      BY <2>1, <2>2
  <1> DEFINE T == {m \in 0..N : Count(s)[m] \in Nat}
  <1>10. 0 \in T
    BY <1>1, <1>9
  <1>11. ASSUME NEW m \in 0..(N - 1), m \in T
         PROVE  m + 1 \in T
    <2>1. m + 1 \in 1..N /\ m + 1 \in 0..N /\ (m + 1) - 1 = m /\ Count(s)[m] \in Nat
      BY <1>1, <1>11
    <2>2. Count(s)[m + 1] = Count(s)[m] + IF s[m + 1].last THEN 1 ELSE 0
      BY <1>9, <2>1
    <2>3. QED
      BY <2>1, <2>2
  <1>12. \A m \in 0..N : m \in T
    <2> HIDE DEF T
    <2>1. QED
      BY <1>1, <1>10, <1>11, SetInduction
  <1>13. \A m \in 0..N : Count(s)[m] \in Nat
    BY <1>12
  <1>14. Count(s) \in [0..N -> Nat]
    BY <1>8, <1>13 DEF P
  <1>15. QED
    BY <1>9, <1>14 DEF N

\* What the i-th fragment adds to the k-th reply.
Part(s, k, i) == IF Count(s)[i - 1] = k - 1 THEN Data(s, i) ELSE <<>>

LEMMA DataType ==
  ASSUME NEW s \in Streams, NEW i \in 1..Len(s)
  PROVE  /\ Data(s, i) \in Seq(Nat \ {0}) /\ Len(Data(s, i)) = s[i].len
         /\ \A j \in 1..s[i].len : Data(s, i)[j] = End(s)[i - 1] + HeaderLen + j
  <1>1. End(s)[i - 1] \in Nat
    <2>1. i - 1 \in 0..Len(s)
      BY StreamType
    <2>2. QED
      BY <2>1, EndRecursion
  <1>2. s[i].len \in Nat /\ HeaderLen \in Nat
    BY StreamType, RecordAssumption
  <1>3. Data(s, i) \in [1..s[i].len -> Nat \ {0}]
    BY <1>1, <1>2 DEF Data
  <1>4. Data(s, i) \in Seq(Nat \ {0}) /\ Len(Data(s, i)) = s[i].len
    BY <1>2, <1>3
  <1>5. QED
    BY <1>4 DEF Data

LEMMA PartType ==
  ASSUME NEW s \in Streams, NEW k, NEW i \in 1..Len(s)
  PROVE  Part(s, k, i) \in Seq(Nat \ {0})
  BY DataType DEF Part

\* And Bytes: the positions in a reply are never 0.
LEMMA BytesRecursion ==
  ASSUME NEW s \in Streams, NEW k
  PROVE  /\ Bytes(s, k) \in [0..Len(s) -> Seq(Nat \ {0})] /\ Bytes(s, k)[0] = <<>>
         /\ \A i \in 1..Len(s) : Bytes(s, k)[i] = Bytes(s, k)[i - 1] \o Part(s, k, i)
  <1> DEFINE N == Len(s)
             V == Seq(Nat \ {0})
             step == [i \in 1..N |-> [x \in V |-> x \o Part(s, k, i)]]
             P(g) == g = [i \in 0..N |->
                            IF i = 0 THEN <<>> ELSE g[i - 1] \o Part(s, k, i)]
  <1>1. N \in Nat /\ <<>> \in V
    BY StreamType
  <1>a. \A i \in 1..N : Part(s, k, i) \in V
    BY PartType
  <1> HIDE DEF N
  <1>2. step \in [1..N -> [V -> V]]
    <2>1. ASSUME NEW i \in 1..N
          PROVE  [x \in V |-> x \o Part(s, k, i)] \in [V -> V]
      BY <1>a
    <2>2. QED
      BY <2>1
  <1>3. PICK f \in [0..N -> V] : Steps(f, <<>>, step, N)
    <2> HIDE DEF step, V
    <2>1. QED
      BY <1>1, <1>2, Recursion
  <1>4. ASSUME NEW i \in 0..N
        PROVE  (IF i = 0 THEN <<>> ELSE step[i][f[i - 1]])
                 = (IF i = 0 THEN <<>> ELSE f[i - 1] \o Part(s, k, i))
    <2>1. CASE i # 0
      <3>1. i \in 1..N /\ i - 1 \in 0..N
        BY <1>1, <2>1
      <3> HIDE DEF V
      <3>2. f[i - 1] \in V
        BY <3>1
      <3>3. QED
        BY <2>1, <3>1, <3>2
    <2>2. QED
      BY <2>1
  <1> HIDE DEF step
  <1>5. P(f)
    BY <1>3, <1>4 DEF Steps
  <1>6. Bytes(s, k) = CHOOSE g : P(g)
    BY DEF Bytes, N, Part
  <1> HIDE DEF P
  <1>7. P(CHOOSE g : P(g))
    BY <1>5
  <1>8. P(Bytes(s, k))
    BY <1>6, <1>7
  <1>9. /\ Bytes(s, k)[0] = <<>>
        /\ \A i \in 1..N : Bytes(s, k)[i] = Bytes(s, k)[i - 1] \o Part(s, k, i)
    <2>1. ASSUME NEW i \in 0..N
          PROVE  Bytes(s, k)[i]
                   = IF i = 0 THEN <<>> ELSE Bytes(s, k)[i - 1] \o Part(s, k, i)
      BY <1>8 DEF P
    <2>2. 0 \in 0..N /\ \A i \in 1..N : i \in 0..N /\ i # 0
      BY <1>1
    <2>3. QED
      BY <2>1, <2>2
  <1> DEFINE T == {m \in 0..N : Bytes(s, k)[m] \in V}
  <1>10. 0 \in T
    <2> HIDE DEF V
    <2>1. 0 \in 0..N /\ Bytes(s, k)[0] \in V
      BY <1>1, <1>9
    <2>2. QED
      BY <2>1
  <1>11. ASSUME NEW m \in 0..(N - 1), m \in T
         PROVE  m + 1 \in T
    <2>1. m + 1 \in 1..N /\ m + 1 \in 0..N /\ (m + 1) - 1 = m /\ Bytes(s, k)[m] \in V
      BY <1>1, <1>11
    <2>2. Bytes(s, k)[m + 1] = Bytes(s, k)[m] \o Part(s, k, m + 1)
      BY <1>9, <2>1
    <2>3. Bytes(s, k)[m + 1] \in V
      BY <1>a, <2>1, <2>2
    <2>4. QED
      BY <2>1, <2>3
  <1>12. \A m \in 0..N : m \in T
    <2> HIDE DEF T
    <2>1. QED
      BY <1>1, <1>10, <1>11, SetInduction
  <1>13. \A m \in 0..N : Bytes(s, k)[m] \in V
    BY <1>12
  <1>14. Bytes(s, k) \in [0..N -> V]
    <2> HIDE DEF V
    <2>1. QED
      BY <1>8, <1>13 DEF P
  <1>15. QED
    BY <1>9, <1>14 DEF N

\* Fragments do not overlap: each takes at least its header.
LEMMA EndGrows ==
  ASSUME NEW s \in Streams
  PROVE  \A j \in 0..Len(s) : \A i \in 0..(j - 1) : End(s)[i] + HeaderLen <= End(s)[j]
  <1> DEFINE N == Len(s)
             T == {j \in 0..N : \A i \in 0..(j - 1) : End(s)[i] + HeaderLen <= End(s)[j]}
  <1>1. N \in Nat /\ HeaderLen \in Nat /\ End(s) \in [0..N -> Nat]
    BY StreamType, RecordAssumption, EndRecursion
  <1>2. \A i \in 1..N : End(s)[i] = End(s)[i - 1] + HeaderLen + s[i].len /\ s[i].len \in Nat
    BY StreamType, EndRecursion
  <1> HIDE DEF N
  <1>3. 0 \in T
    BY <1>1
  <1>4. ASSUME NEW m \in 0..(N - 1), m \in T
        PROVE  m + 1 \in T
    <2>1. /\ m \in 0..N /\ m + 1 \in 1..N /\ m + 1 \in 0..N /\ (m + 1) - 1 = m
          /\ End(s)[m] \in Nat /\ s[m + 1].len \in Nat
      BY <1>1, <1>2
    <2>2. End(s)[m + 1] = End(s)[m] + HeaderLen + s[m + 1].len
      BY <1>2, <2>1
    <2>3. ASSUME NEW i \in 0..m
          PROVE  End(s)[i] + HeaderLen <= End(s)[m + 1]
      <3>1. CASE i = m
        BY <1>1, <2>1, <2>2, <3>1
      <3>2. CASE i # m
        <4>1. i \in 0..(m - 1) /\ i \in 0..N
          BY <1>1, <2>1, <3>2
        <4>2. End(s)[i] + HeaderLen <= End(s)[m] /\ End(s)[i] \in Nat
          BY <1>1, <1>4, <4>1
        <4>3. QED
          BY <1>1, <2>1, <2>2, <4>2
      <3>3. QED
        BY <3>1, <3>2
    <2>4. QED
      BY <2>1, <2>3
  <1> HIDE DEF T
  <1>5. \A m \in 0..N : m \in T
    BY <1>1, <1>3, <1>4, SetInduction
  <1>6. QED
    BY <1>5 DEF T, N

\* No reply is taken back.
LEMMA CountGrows ==
  ASSUME NEW s \in Streams
  PROVE  \A j \in 0..Len(s) : \A i \in 0..j : Count(s)[i] <= Count(s)[j]
  <1> DEFINE N == Len(s)
             T == {j \in 0..N : \A i \in 0..j : Count(s)[i] <= Count(s)[j]}
  <1>1. N \in Nat /\ Count(s) \in [0..N -> Nat]
    BY StreamType, CountRecursion
  <1>2. \A i \in 1..N : Count(s)[i - 1] <= Count(s)[i]
    <2>1. ASSUME NEW i \in 1..N
          PROVE  Count(s)[i - 1] <= Count(s)[i]
      <3>1. i - 1 \in 0..N /\ Count(s)[i - 1] \in Nat
        BY <1>1
      <3>2. Count(s)[i] = Count(s)[i - 1] + IF s[i].last THEN 1 ELSE 0
        BY CountRecursion
      <3>3. QED
        BY <3>1, <3>2
    <2>2. QED
      BY <2>1
  <1> HIDE DEF N
  <1>3. 0 \in T
    BY <1>1
  <1>4. ASSUME NEW m \in 0..(N - 1), m \in T
        PROVE  m + 1 \in T
    <2>1. /\ m \in 0..N /\ m + 1 \in 1..N /\ m + 1 \in 0..N /\ (m + 1) - 1 = m
          /\ Count(s)[m] \in Nat /\ Count(s)[m + 1] \in Nat
      BY <1>1
    <2>2. Count(s)[m] <= Count(s)[m + 1]
      BY <1>2, <2>1
    <2>3. ASSUME NEW i \in 0..(m + 1)
          PROVE  Count(s)[i] <= Count(s)[m + 1]
      <3>1. CASE i = m + 1
        BY <2>1, <3>1
      <3>2. CASE i # m + 1
        <4>1. i \in 0..m /\ i \in 0..N
          BY <1>1, <2>1, <3>2
        <4>2. Count(s)[i] <= Count(s)[m] /\ Count(s)[i] \in Nat
          BY <1>1, <1>4, <4>1
        <4>3. QED
          BY <2>1, <2>2, <4>2
      <3>3. QED
        BY <3>1, <3>2
    <2>4. QED
      BY <2>1, <2>3
  <1> HIDE DEF T
  <1>5. \A m \in 0..N : m \in T
    BY <1>1, <1>3, <1>4, SetInduction
  <1>6. QED
    BY <1>5 DEF T, N

\* A reply has no bytes before its first fragment.
LEMMA BytesBefore ==
  ASSUME NEW s \in Streams, NEW c \in 0..Len(s), NEW k \in Nat,
         c = 0 \/ Count(s)[c - 1] + 1 < k
  PROVE  Bytes(s, k)[c] = <<>>
  <1> DEFINE N == Len(s)
             T == {m \in 0..N : (m = 0 \/ Count(s)[m - 1] + 1 < k) => Bytes(s, k)[m] = <<>>}
  <1>1. N \in Nat /\ Count(s) \in [0..N -> Nat] /\ Bytes(s, k)[0] = <<>>
    BY StreamType, CountRecursion, BytesRecursion
  <1>2. 0 \in T
    BY <1>1
  <1>3. ASSUME NEW m \in 0..(N - 1), m \in T
        PROVE  m + 1 \in T
    <2>1. m \in 0..N /\ m + 1 \in 1..N /\ m + 1 \in 0..N /\ (m + 1) - 1 = m /\ m + 1 # 0
      BY <1>1
    <2>2. ASSUME Count(s)[m] + 1 < k
          PROVE  Bytes(s, k)[m + 1] = <<>>
      <3>1. Count(s)[m] \in Nat /\ Count(s)[m] # k - 1
        BY <1>1, <2>1, <2>2
      <3>2. Part(s, k, m + 1) = <<>>
        BY <2>1, <3>1 DEF Part
      <3>3. m = 0 \/ Count(s)[m - 1] + 1 < k
        <4>1. CASE m # 0
          <5>1. m - 1 \in 0..m /\ m - 1 \in 0..N
            BY <1>1, <4>1
          <5>2. Count(s)[m - 1] <= Count(s)[m] /\ Count(s)[m - 1] \in Nat
            BY <1>1, <2>1, <5>1, CountGrows
          <5>3. QED
            BY <2>2, <3>1, <5>2
        <4>2. QED
          BY <4>1
      <3>4. Bytes(s, k)[m] = <<>>
        BY <1>3, <3>3
      <3>5. Bytes(s, k)[m + 1] = Bytes(s, k)[m] \o Part(s, k, m + 1)
        BY <2>1, BytesRecursion
      <3>6. QED
        BY <3>2, <3>4, <3>5
    <2>3. QED
      BY <2>1, <2>2
  <1> HIDE DEF T
  <1>4. \A m \in 0..N : m \in T
    BY <1>1, <1>2, <1>3, SetInduction
  <1>5. c \in T
    BY <1>4
  <1>6. QED
    BY <1>5 DEF T

\* A reply that is complete gets no more bytes.
LEMMA BytesAfter ==
  ASSUME NEW s \in Streams, NEW c \in 0..Len(s), NEW k \in Nat, k <= Count(s)[c]
  PROVE  Reply(s, k) = Bytes(s, k)[c]
  <1> DEFINE N == Len(s)
             T == {m \in 0..N : c <= m => Bytes(s, k)[m] = Bytes(s, k)[c]}
  <1>1. N \in Nat /\ Count(s) \in [0..N -> Nat] /\ Bytes(s, k) \in [0..N -> Seq(Nat \ {0})]
    BY StreamType, CountRecursion, BytesRecursion
  <1>2. 0 \in T
    BY <1>1
  <1>3. ASSUME NEW m \in 0..(N - 1), m \in T
        PROVE  m + 1 \in T
    <2>1. m \in 0..N /\ m + 1 \in 1..N /\ m + 1 \in 0..N /\ (m + 1) - 1 = m
      BY <1>1
    <2>2. CASE c <= m
      <3>1. c \in 0..m /\ Count(s)[m] \in Nat /\ Count(s)[c] \in Nat
        BY <1>1, <2>1, <2>2
      <3>2. Count(s)[c] <= Count(s)[m]
        BY <2>1, <3>1, CountGrows
      <3>3. Count(s)[m] # k - 1
        BY <3>1, <3>2
      <3>4. Part(s, k, m + 1) = <<>>
        BY <2>1, <3>3 DEF Part
      <3>5. Bytes(s, k)[m + 1] = Bytes(s, k)[m] \o Part(s, k, m + 1)
        BY <2>1, BytesRecursion
      <3>6. Bytes(s, k)[m] = Bytes(s, k)[c] /\ Bytes(s, k)[m] \in Seq(Nat \ {0})
        BY <1>1, <1>3, <2>1, <2>2
      <3>7. Bytes(s, k)[m + 1] = Bytes(s, k)[m]
        BY <3>4, <3>5, <3>6, ConcatEmptySeq
      <3>8. QED
        BY <2>1, <3>6, <3>7
    <2>3. CASE c = m + 1
      BY <2>1, <2>3
    <2>4. CASE m + 1 < c
      BY <2>1, <2>4
    <2>5. QED
      BY <1>1, <2>2, <2>3, <2>4
  <1> HIDE DEF T
  <1>4. \A m \in 0..N : m \in T
    BY <1>1, <1>2, <1>3, SetInduction
  <1>5. N \in T /\ c <= N
    BY <1>1, <1>4
  <1>6. QED
    BY <1>5 DEF T, Reply

-----------------------------------------------------------------------------
(* What reading a fragment adds.                                           *)

LEMMA RunType ==
  ASSUME NEW b \in Nat, NEW n \in Nat
  PROVE  Run(b, n) \in Seq(Nat \ {0}) /\ Len(Run(b, n)) = n
         /\ \A j \in 1..n : Run(b, n)[j] = b + j
  <1>1. Run(b, n) \in [1..n -> Nat \ {0}]
    BY DEF Run
  <1>2. Run(b, n) \in Seq(Nat \ {0}) /\ Len(Run(b, n)) = n
    BY <1>1
  <1>3. QED
    BY <1>2 DEF Run

\* Two reads, one after the other, are one longer read.
LEMMA RunsJoin ==
  ASSUME NEW b \in Nat, NEW d \in Nat, NEW n \in Nat
  PROVE  Run(b, d) \o Run(b + d, n) = Run(b, d + n)
  <1> DEFINE x == Run(b, d)
             y == Run(b + d, n)
             z == Run(b, d + n)
  <1>1. x \in Seq(Nat \ {0}) /\ Len(x) = d /\ \A j \in 1..d : x[j] = b + j
    BY RunType
  <1>2. b + d \in Nat /\ d + n \in Nat
    OBVIOUS
  <1>3. y \in Seq(Nat \ {0}) /\ Len(y) = n /\ \A j \in 1..n : y[j] = (b + d) + j
    BY <1>2, RunType
  <1>4. z \in Seq(Nat \ {0}) /\ Len(z) = d + n /\ \A j \in 1..(d + n) : z[j] = b + j
    BY <1>2, RunType
  <1> HIDE DEF x, y, z
  <1>5. /\ x \o y \in Seq(Nat \ {0}) /\ Len(x \o y) = d + n
        /\ \A j \in 1..(d + n) : (x \o y)[j] = IF j <= d THEN x[j] ELSE y[j - d]
    BY <1>1, <1>3, ConcatProperties
  <1>6. ASSUME NEW j \in 1..(d + n)
        PROVE  (x \o y)[j] = z[j]
    <2>1. CASE j <= d
      <3>1. j \in 1..d
        BY <2>1
      <3>2. QED
        BY <1>1, <1>4, <1>5, <2>1, <3>1
    <2>2. CASE ~(j <= d)
      <3>1. j - d \in 1..n /\ (b + d) + (j - d) = b + j
        BY <2>2
      <3>2. (x \o y)[j] = y[j - d]
        BY <1>5, <2>2
      <3>3. y[j - d] = b + j /\ z[j] = b + j
        BY <1>3, <1>4, <3>1
      <3>4. QED
        BY <3>2, <3>3
    <2>3. QED
      BY <2>1, <2>2
  <1>7. x \o y = z
    BY <1>4, <1>5, <1>6, SeqEqual
  <1>8. QED
    BY <1>7 DEF x, y, z

\* So the packet grows by what is read.
LEMMA RunExtends ==
  ASSUME NEW x \in Seq(Nat \ {0}), NEW b \in Nat, NEW d \in Nat, NEW n \in Nat
  PROVE  /\ (x \o Run(b, d)) \o Run(b + d, n) = x \o Run(b, d + n)
         /\ x \o Run(b, d + n) \in Seq(Nat \ {0})
  <1>1. b + d \in Nat /\ d + n \in Nat
    OBVIOUS
  <1>2. /\ Run(b, d) \in Seq(Nat \ {0}) /\ Run(b + d, n) \in Seq(Nat \ {0})
        /\ Run(b, d + n) \in Seq(Nat \ {0})
    BY <1>1, RunType
  <1>3. (x \o Run(b, d)) \o Run(b + d, n) = x \o (Run(b, d) \o Run(b + d, n))
    <2> DEFINE V == Nat \ {0}
    <2>1. x \in Seq(V) /\ Run(b, d) \in Seq(V) /\ Run(b + d, n) \in Seq(V)
      BY <1>2
    <2> HIDE DEF V
    <2>2. QED
      BY <2>1, ConcatAssociative
  <1>4. x \o Run(b, d + n) \in Seq(Nat \ {0})
    BY <1>2, ConcatProperties
  <1>5. QED
    BY <1>3, <1>4, RunsJoin

LEMMA DataIsRun ==
  ASSUME NEW s \in Streams, NEW i \in 1..Len(s)
  PROVE  Data(s, i) = Run(End(s)[i - 1] + HeaderLen, s[i].len)
  BY DEF Data, Run

LEMMA BegunType ==
  ASSUME NEW s \in Streams, NEW c \in 0..Len(s)
  PROVE  Begun(s, c) \in Seq(Nat \ {0}) /\ Begun(s, c) # NoPacket
  <1>1. Begun(s, c) \in Seq(Nat \ {0})
    BY BytesRecursion DEF Begun
  <1>2. NoPacket \notin Seq(Nat \ {0})
    <2>1. NoPacket[1] = 0 /\ Len(NoPacket) = 1
      BY DEF NoPacket
    <2>2. QED
      BY <2>1, ElementOfSeq
  <1>3. QED
    BY <1>1, <1>2

\* After a last fragment no reply has been begun.
LEMMA BegunEmpty ==
  ASSUME NEW s \in Streams, NEW c \in 0..Len(s), c = 0 \/ s[c].last
  PROVE  Begun(s, c) = <<>>
  <1>1. Count(s)[c] + 1 \in Nat
    <2>1. Count(s)[c] \in Nat
      BY CountRecursion
    <2>2. QED
      BY <2>1
  <1>2. c = 0 \/ Count(s)[c - 1] + 1 < Count(s)[c] + 1
    <2>1. CASE c # 0
      <3>1. c \in 1..Len(s) /\ c - 1 \in 0..Len(s) /\ s[c].last
        BY <2>1
      <3>2. Count(s)[c - 1] \in Nat
        BY <3>1, CountRecursion
      <3>3. Count(s)[c] = Count(s)[c - 1] + 1
        BY <3>1, CountRecursion
      <3>4. QED
        BY <3>2, <3>3
    <2>2. QED
      BY <2>1
  <1>3. QED
    BY <1>1, <1>2, BytesBefore DEF Begun

\* A fragment's data goes to the reply that was begun.
LEMMA FragmentAdds ==
  ASSUME NEW s \in Streams, NEW i \in 1..Len(s)
  PROVE  Bytes(s, Count(s)[i - 1] + 1)[i] = Begun(s, i - 1) \o Data(s, i)
  <1> DEFINE k == Count(s)[i - 1] + 1
  <1>1. i - 1 \in 0..Len(s)
    OBVIOUS
  <1>2. Count(s)[i - 1] \in Nat
    BY <1>1, CountRecursion
  <1>3. Part(s, k, i) = Data(s, i)
    BY <1>2 DEF Part
  <1>4. Bytes(s, k)[i] = Bytes(s, k)[i - 1] \o Part(s, k, i)
    BY BytesRecursion
  <1>5. QED
    BY <1>3, <1>4 DEF Begun

\* A fragment that is not the last one leaves the reply begun.
LEMMA MoreFollows ==
  ASSUME NEW s \in Streams, NEW i \in 1..Len(s), ~s[i].last
  PROVE  /\ Begun(s, i) = Begun(s, i - 1) \o Data(s, i)
         /\ First(s, i) = First(s, i - 1)
  <1>1. Count(s)[i] = Count(s)[i - 1]
    <2>1. i - 1 \in 0..Len(s)
      OBVIOUS
    <2>2. Count(s)[i] = Count(s)[i - 1] + 0 /\ Count(s)[i - 1] \in Nat
      BY <2>1, CountRecursion
    <2>3. QED
      BY <2>2
  <1>2. QED
    BY <1>1, FragmentAdds DEF Begun, First

\* A last one completes it.
LEMMA LastCompletes ==
  ASSUME NEW s \in Streams, NEW i \in 1..Len(s), s[i].last
  PROVE  First(s, i) = Append(First(s, i - 1), Begun(s, i - 1) \o Data(s, i))
  <1> DEFINE n == Count(s)[i - 1]
             r == Begun(s, i - 1) \o Data(s, i)
             V == Seq(Nat \ {0})
  <1>1. i - 1 \in 0..Len(s) /\ i \in 0..Len(s)
    OBVIOUS
  <1>2. n \in Nat /\ Count(s)[i] = n + 1
    <2>1. Count(s)[i] = Count(s)[i - 1] + 1
      BY CountRecursion
    <2>2. QED
      BY <1>1, <2>1, CountRecursion
  <1>3. Reply(s, n + 1) = r
    <2>1. n + 1 \in Nat /\ n + 1 <= Count(s)[i]
      BY <1>2
    <2>2. Reply(s, n + 1) = Bytes(s, n + 1)[i]
      BY <1>1, <2>1, BytesAfter
    <2>3. QED
      BY <2>2, FragmentAdds
  <1>4. \A k \in Nat : Reply(s, k) \in V
    <2>1. Len(s) \in 0..Len(s)
      BY StreamType
    <2>2. QED
      BY <2>1, BytesRecursion DEF Reply
  <1>5. First(s, i) = [k \in 1..(n + 1) |-> Reply(s, k)]
        /\ First(s, i - 1) = [k \in 1..n |-> Reply(s, k)]
    BY <1>2 DEF First
  <1> HIDE DEF n, r, V
  <1>6. [k \in 1..n |-> Reply(s, k)] \in Seq(V)
    <2>1. [k \in 1..n |-> Reply(s, k)] \in [1..n -> V]
      BY <1>2, <1>4
    <2>2. QED
      BY <1>2, <2>1
  <1>7. Len([k \in 1..n |-> Reply(s, k)]) = n
    BY <1>2
  <1>8. [k \in 1..(n + 1) |-> Reply(s, k)] = Append([k \in 1..n |-> Reply(s, k)], Reply(s, n + 1))
    BY <1>2, <1>6, <1>7
  <1>9. QED
    BY <1>3, <1>5, <1>8 DEF r

\* The header that recvTCPPacket decodes is the one of the fragment it is at.
LEMMA HeaderFound ==
  ASSUME stream \in Streams, NEW i \in 1..Len(stream)
  PROVE  HeaderEndingAt(End(stream)[i - 1] + HeaderLen) = stream[i]
  <1> DEFINE N == Len(stream)
             p == End(stream)[i - 1] + HeaderLen
  <1>1. N \in Nat /\ HeaderLen \in Nat \ {0} /\ End(stream) \in [0..N -> Nat]
    BY StreamType, RecordAssumption, EndRecursion
  <1>2. ASSUME NEW j \in 1..N, End(stream)[j - 1] + HeaderLen = p
        PROVE  j = i
    <2>1. i - 1 \in 0..N /\ j - 1 \in 0..N
      BY <1>1
    <2>2. End(stream)[i - 1] \in Nat /\ End(stream)[j - 1] \in Nat
      BY <1>1, <2>1
    <2>3. End(stream)[j - 1] = End(stream)[i - 1]
      BY <1>1, <1>2, <2>2
    <2>4. CASE j < i
      <3>1. j - 1 \in 0..((i - 1) - 1)
        BY <1>1, <2>4
      <3>2. End(stream)[j - 1] + HeaderLen <= End(stream)[i - 1]
        BY <2>1, <3>1, EndGrows
      <3>3. QED
        BY <1>1, <2>2, <2>3, <3>2
    <2>5. CASE i < j
      <3>1. i - 1 \in 0..((j - 1) - 1)
        BY <1>1, <2>5
      <3>2. End(stream)[i - 1] + HeaderLen <= End(stream)[j - 1]
        BY <2>1, <3>1, EndGrows
      <3>3. QED
        BY <1>1, <2>2, <2>3, <3>2
    <2>6. QED
      BY <1>1, <2>4, <2>5
  <1>3. \E j \in 1..N : End(stream)[j - 1] + HeaderLen = p
    OBVIOUS
  <1>4. (CHOOSE j \in 1..N : End(stream)[j - 1] + HeaderLen = p) = i
    BY <1>2, <1>3
  <1>5. QED
    BY <1>3, <1>4 DEF HeaderEndingAt

-----------------------------------------------------------------------------
(* The buffer of the packet.                                               *)

LEMMA ModIsBelow ==
  ASSUME NEW a \in Nat
  PROVE  /\ a % IndexRange \in Nat /\ a % IndexRange < IndexRange
         /\ a < IndexRange => a % IndexRange = a
  BY RecordAssumption

LEMMA ResizeType ==
  ASSUME NEW cap \in Nat, NEW n \in Nat
  PROVE  resize(cap, n % IndexRange) \in Nat
  <1>1. n % IndexRange \in Nat
    BY ModIsBelow
  <1>2. (2 * cap) % IndexRange \in Nat /\ (2 * (n % IndexRange)) % IndexRange \in Nat
    <2>1. 2 * cap \in Nat /\ 2 * (n % IndexRange) \in Nat
      BY <1>1
    <2>2. QED
      BY <2>1, ModIsBelow
  <1>3. QED
    BY <1>1, <1>2 DEF resize

\* As long as doubling what is asked for does not wrap around, there is room
\* for it.
LEMMA ResizeHolds ==
  ASSUME NEW cap \in Nat, NEW n \in Nat, 2 * n < IndexRange
  PROVE  n <= resize(cap, n % IndexRange)
  <1>1. n % IndexRange = n /\ (2 * n) % IndexRange = 2 * n
    <2>1. 2 * n \in Nat /\ n < IndexRange
      BY RecordAssumption
    <2>2. QED
      BY <2>1, ModIsBelow
  <1>2. (2 * cap) % IndexRange \in Nat
    <2>1. 2 * cap \in Nat
      OBVIOUS
    <2>2. QED
      BY <2>1, ModIsBelow
  <1>3. QED
    BY <1>1, <1>2 DEF resize

-----------------------------------------------------------------------------
(* The inductive invariant.                                                *)

LEMMA EndFacts ==
  ASSUME stream \in Streams
  PROVE  /\ Len(stream) \in Nat \ {0} /\ HeaderLen \in Nat \ {0}
         /\ End(stream)[0] = 0
         /\ \A c \in 0..Len(stream) :
              End(stream)[c] \in Nat /\ End(stream)[c] <= End(stream)[Len(stream)]
         /\ \A i \in 1..Len(stream) :
              /\ i - 1 \in 0..Len(stream) /\ i \in 0..Len(stream)
              /\ stream[i].len \in Nat /\ stream[i].last \in BOOLEAN
              /\ End(stream)[i] = End(stream)[i - 1] + HeaderLen + stream[i].len
  <1> DEFINE N == Len(stream)
  <1>1. N \in Nat \ {0} /\ HeaderLen \in Nat \ {0} /\ End(stream) \in [0..N -> Nat]
    BY StreamType, RecordAssumption, EndRecursion
  <1>2. ASSUME NEW c \in 0..N
        PROVE  End(stream)[c] \in Nat /\ End(stream)[c] <= End(stream)[N]
    <2>1. End(stream)[c] \in Nat /\ End(stream)[N] \in Nat /\ N \in 0..N
      BY <1>1
    <2>2. CASE c # N
      <3>1. c \in 0..(N - 1)
        BY <1>1, <2>2
      <3>2. End(stream)[c] + HeaderLen <= End(stream)[N]
        BY <2>1, <3>1, EndGrows
      <3>3. QED
        BY <1>1, <2>1, <3>2
    <2>3. QED
      BY <2>1, <2>2
  <1>3. \A i \in 1..N : i - 1 \in 0..N /\ i \in 0..N
    BY <1>1
  <1>4. QED
    BY <1>1, <1>2, <1>3, StreamType, EndRecursion

LEMMA FirstType ==
  ASSUME NEW s \in Streams, NEW c \in 0..Len(s)
  PROVE  First(s, c) \in Seq(Seq(Nat)) /\ Len(First(s, c)) = Count(s)[c]
  <1>1. Count(s)[c] \in Nat
    BY CountRecursion
  <1>2. \A k \in Nat : Reply(s, k) \in Seq(Nat)
    <2>1. Len(s) \in 0..Len(s)
      BY StreamType
    <2>2. \A k \in Nat : Reply(s, k) \in Seq(Nat \ {0})
      BY <2>1, BytesRecursion DEF Reply
    <2>3. QED
      BY <2>2, SeqMonotonic
  <1>3. First(s, c) \in [1..Count(s)[c] -> Seq(Nat)]
    BY <1>1, <1>2 DEF First
  <1>4. QED
    BY <1>1, <1>3

LEMMA FirstOfNone ==
  ASSUME NEW s \in Streams
  PROVE  First(s, 0) = <<>>
  <1>1. 0 \in 0..Len(s)
    BY StreamType
  <1>2. First(s, 0) \in Seq(Seq(Nat)) /\ Len(First(s, 0)) = 0
    BY <1>1, FirstType, CountRecursion
  <1>3. QED
    BY <1>2, EmptySeq

LEMMA InitInvariant == Init => IInv
  <1> SUFFICES ASSUME Init
               PROVE  IInv
    OBVIOUS
  <1> USE DEF Init
  <1>1. Len(stream) \in Nat \ {0} /\ End(stream)[0] = 0
        /\ End(stream)[Len(stream)] \in Nat /\ 0 \in 0..Len(stream)
    <2>1. Len(stream) \in 0..Len(stream) /\ 0 \in 0..Len(stream)
      BY EndFacts
    <2>2. QED
      BY <2>1, EndFacts
  <1>2. TypeOK
    <2>1. NoPacket \in Seq(Nat) /\ <<>> \in Seq(Seq(Nat))
      BY DEF NoPacket
    <2>2. conns \in 1..MaxConns
      BY RecordAssumption
    <2>3. arrived \in 0..End(stream)[Len(stream)] /\ taken \in 0..arrived
      BY <1>1
    <2>4. QED
      BY <2>1, <2>2, <2>3 DEF TypeOK
  <1>3. InHeader(0)
    BY <1>1, FirstOfNone DEF InHeader
  <1>4. IsSomewhere /\ ReadStateFits /\ Over
    BY <1>1, <1>3 DEF IsSomewhere, Place, ReadStateFits, Over
  <1>5. QED
    BY <1>2, <1>4 DEF IInv

\* The place depends on what has been read alone.
LEMMA PlaceKept ==
  ASSUME UNCHANGED <<stream, taken, readState, fragment, delivered>>, Place
  PROVE  Place'
  <1>1. ASSUME NEW c \in 0..Len(stream), InHeader(c)
        PROVE  InHeader(c)'
    BY <1>1 DEF InHeader, First, Begun, readState, fragment
  <1>2. ASSUME NEW i \in 1..Len(stream), InData(i)
        PROVE  InData(i)'
    BY <1>2 DEF InData, First, Begun, Run, readState, fragment
  <1>3. QED
    BY <1>1, <1>2 DEF Place

\* Wherever the reader is, it has delivered the replies that are complete.
LEMMA PlaceDelivered ==
  ASSUME stream \in Streams, Place
  PROVE  \E c \in 0..Len(stream) : delivered = First(stream, c)
  BY EndFacts DEF Place, InHeader, InData

LEMMA ArriveInvariant ==
  ASSUME IInv, Arrive
  PROVE  IInv'
  <1> USE DEF Arrive, server, readState, fragment
  <1>1. TypeOK'
    <2>1. Len(stream) \in 0..Len(stream) /\ stream \in Streams
      BY EndFacts DEF IInv, TypeOK
    <2>2. End(stream)[Len(stream)] \in Nat /\ arrived \in Nat /\ taken \in Nat /\ taken <= arrived
      BY <2>1, EndFacts DEF IInv, TypeOK
    <2>3. arrived' \in 0..End(stream)[Len(stream)] /\ taken \in 0..arrived'
      BY <2>2
    <2>4. QED
      BY <2>3 DEF IInv, TypeOK
  <1>2. IsSomewhere'
    BY PlaceKept DEF IInv, IsSomewhere
  <1>3. ReadStateFits'
    BY DEF IInv, ReadStateFits
  <1>4. Over'
    BY DEF IInv, Over
  <1>5. QED
    BY <1>1, <1>2, <1>3, <1>4 DEF IInv

LEMMA EndsInvariant ==
  ASSUME IInv, Ends
  PROVE  IInv'
  <1> USE DEF Ends, readState, fragment
  <1>1. TypeOK'
    BY RecordAssumption DEF IInv, TypeOK
  <1>2. IsSomewhere'
    BY PlaceKept DEF IInv, IsSomewhere
  <1>3. ReadStateFits' /\ Over'
    BY DEF IInv, ReadStateFits, Over
  <1>4. QED
    BY <1>1, <1>2, <1>3 DEF IInv

LEMMA ReadableInvariant ==
  ASSUME IInv, Readable
  PROVE  IInv'
  <1> USE DEF Readable, server, readState, fragment
  <1>1. TypeOK'
    BY DEF IInv, TypeOK
  <1>2. IsSomewhere'
    BY PlaceKept DEF IInv, IsSomewhere
  <1>3. ReadStateFits' /\ Over'
    BY DEF IInv, TypeOK, ReadStateFits, Over
  <1>4. QED
    BY <1>1, <1>2, <1>3 DEF IInv

LEMMA WouldBlockInvariant ==
  ASSUME IInv, WouldBlock
  PROVE  IInv'
  <1> USE DEF WouldBlock, server, readState, fragment
  <1>1. TypeOK'
    BY DEF IInv, TypeOK
  <1>2. IsSomewhere'
    BY PlaceKept DEF IInv, IsSomewhere
  <1>3. ReadStateFits' /\ Over'
    BY DEF IInv, ReadStateFits, Over
  <1>4. QED
    BY <1>1, <1>2, <1>3 DEF IInv

LEMMA DropInvariant ==
  ASSUME IInv, Drop
  PROVE  IInv'
  <1> USE DEF Drop, readState, fragment
  <1>1. TypeOK'
    BY DEF IInv, TypeOK, FaultKinds
  <1>2. Over'
    BY PlaceDelivered DEF IInv, TypeOK, IsSomewhere, Over
  <1>3. IsSomewhere' /\ ReadStateFits'
    BY DEF IsSomewhere, ReadStateFits
  <1>4. QED
    BY <1>1, <1>2, <1>3 DEF IInv

LEMMA RecvEndInvariant ==
  ASSUME IInv, RecvEnd
  PROVE  IInv'
  <1> USE DEF RecvEnd, ResetReadState, ClearFragment, server
  <1>1. TypeOK'
    <2>1. NoPacket \in Seq(Nat)
      BY DEF NoPacket
    <2>2. QED
      BY <2>1 DEF IInv, TypeOK
  <1>2. Over'
    BY PlaceDelivered DEF IInv, TypeOK, IsSomewhere, Over
  <1>3. IsSomewhere' /\ ReadStateFits'
    BY DEF IsSomewhere, ReadStateFits
  <1>4. QED
    BY <1>1, <1>2, <1>3 DEF IInv

\* A reply that is dropped leaves what was delivered before it.
LEMMA RecvGarbledInvariant ==
  ASSUME IInv, RecvGarbled
  PROVE  IInv'
  <1> USE DEF RecvGarbled, ResetReadState, ClearFragment
  <1>1. TypeOK'
    <2>1. NoPacket \in Seq(Nat)
      BY DEF NoPacket
    <2>2. Len(stream) \in 0..Len(stream) /\ stream \in Streams
      BY EndFacts DEF IInv, TypeOK
    <2>3. End(stream)[Len(stream)] \in Nat
      BY <2>2, EndFacts
    <2>4. taken' \in 0..arrived
      BY <2>3 DEF IInv, TypeOK
    <2>5. QED
      BY <2>1, <2>4 DEF IInv, TypeOK, FaultKinds
  <1>2. Over'
    BY PlaceDelivered DEF IInv, TypeOK, IsSomewhere, Over
  <1>3. IsSomewhere' /\ ReadStateFits'
    BY DEF IsSomewhere, ReadStateFits
  <1>4. QED
    BY <1>1, <1>2, <1>3 DEF IInv

LEMMA CloseInvariant ==
  ASSUME IInv, Close
  PROVE  IInv'
  <1> USE DEF Close, ResetReadState, ClearFragment, server
  <1>1. TypeOK'
    <2>1. NoPacket \in Seq(Nat)
      BY DEF NoPacket
    <2>2. QED
      BY <2>1 DEF IInv, TypeOK
  <1>2. Over'
    BY DEF IInv, Over
  <1>3. IsSomewhere' /\ ReadStateFits'
    BY DEF IsSomewhere, ReadStateFits
  <1>4. QED
    BY <1>1, <1>2, <1>3 DEF IInv

\* The connection is made again: the reader is at the start of a new stream,
\* and nothing is left of the old one.
LEMMA ReconnectInvariant ==
  ASSUME IInv, Reconnect
  PROVE  IInv'
  <1> USE DEF Reconnect, readState, fragment
  <1>1. stream' \in Streams /\ Len(stream') \in Nat \ {0} /\ End(stream')[0] = 0
        /\ End(stream')[Len(stream')] \in Nat /\ 0 \in 0..Len(stream')
    <2>1. stream' \in Streams /\ Len(stream') \in Nat \ {0}
      BY StreamType
    <2>2. 0 \in 0..Len(stream') /\ Len(stream') \in 0..Len(stream')
      BY <2>1
    <2>3. QED
      BY <2>1, <2>2, EndRecursion
  <1>2. TypeOK'
    <2>1. <<>> \in Seq(Seq(Nat))
      OBVIOUS
    <2>2. conns' \in 1..MaxConns
      BY RecordAssumption DEF IInv, TypeOK
    <2>3. arrived' \in 0..End(stream')[Len(stream')] /\ taken' \in 0..arrived'
      BY <1>1
    <2>4. QED
      BY <1>1, <2>1, <2>2, <2>3 DEF IInv, TypeOK
  <1>3. InHeader(0)'
    <2>1. First(stream', 0) = <<>>
      BY <1>1, FirstOfNone
    <2>2. QED
      BY <1>1, <2>1 DEF IInv, Over, InHeader
  <1>4. IsSomewhere'
    BY <1>1, <1>3 DEF IsSomewhere, Place
  <1>5. ReadStateFits' /\ Over'
    BY DEF IInv, Over, ReadStateFits
  <1>6. QED
    BY <1>2, <1>4, <1>5 DEF IInv

LEMMA InitializeInvariant ==
  ASSUME IInv, Initialize
  PROVE  IInv'
  <1> USE DEF Initialize, server, fragment
  <1>1. stream \in Streams /\ HeaderLen \in Nat \ {0} /\ taken \in Nat
    BY EndFacts DEF IInv, TypeOK
  <1>2. TypeOK'
    BY <1>1 DEF IInv, TypeOK
  <1>3. Place'
    <2>1. CASE pc = "header"
      <3>1. PICK c \in 0..Len(stream) : InHeader(c)
        BY <2>1 DEF IInv, IsSomewhere, Place, InData, ReadStateFits
      <3>2. InHeader(c)'
        BY <1>1, <2>1, <3>1 DEF InHeader, First, Begun
      <3>3. QED
        BY <3>1, <3>2 DEF Place
    <2>2. CASE pc = "data"
      <3>1. PICK i \in 1..Len(stream) : InData(i)
        BY <2>2 DEF IInv, IsSomewhere, Place, InHeader, ReadStateFits
      <3>2. taken = End(stream)[i - 1] + HeaderLen /\ length = stream[i].len
            /\ length \in Nat /\ End(stream)[i - 1] \in Nat
            /\ End(stream)[i] = End(stream)[i - 1] + HeaderLen + stream[i].len
        BY <1>1, <3>1, EndFacts DEF InData
      <3>3. taken + length = End(stream)[i] /\ length \in 0..length
        BY <1>1, <3>2
      <3>4. InData(i)'
        BY <1>1, <2>2, <3>1, <3>3 DEF InData, First, Begun, Run
      <3>5. QED
        BY <3>1, <3>4 DEF Place
    <2>3. QED
      BY <2>1, <2>2
  <1>4. ReadStateFits' /\ Over'
    BY DEF IInv, ReadStateFits, Over
  <1>5. QED
    BY <1>2, <1>3, <1>4 DEF IInv, IsSomewhere

LEMMA RecvHeaderInvariant ==
  ASSUME IInv, RecvHeader
  PROVE  IInv'
  <1> USE DEF server
  <1>1. PICK c \in 0..Len(stream) : InHeader(c)
    BY DEF IInv, IsSomewhere, Place, InData, ReadStateFits, RecvHeader
  <1> DEFINE N == Len(stream)
             e == End(stream)[c]
  <1>2. /\ stream \in Streams /\ N \in Nat \ {0} /\ HeaderLen \in Nat \ {0}
        /\ e \in Nat /\ e <= End(stream)[N] /\ End(stream)[N] \in Nat
        /\ arrived \in 0..End(stream)[N] /\ taken \in 0..arrived
    <2>1. stream \in Streams
      BY DEF IInv, TypeOK
    <2>2. N \in 0..N
      BY <2>1, EndFacts
    <2>3. QED
      BY <2>1, <2>2, EndFacts DEF IInv, TypeOK
  <1>3. /\ pc = "header" /\ initialized /\ arrived > taken
        /\ byteToRead \in 1..HeaderLen /\ taken + byteToRead = e + HeaderLen
        /\ stream' = stream /\ arrived' = arrived /\ delivered' = delivered
        /\ delivered = First(stream, c)
        /\ packet = IF c > 0 /\ ~stream[c].last THEN Begun(stream, c) ELSE NoPacket
    BY <1>1 DEF InHeader, RecvHeader
  <1>4. PICK n \in 1..byteToRead :
          /\ taken + n <= arrived
          /\ taken' = taken + n
          /\ IF n < byteToRead
             THEN /\ byteToRead' = byteToRead - n
                  /\ UNCHANGED <<pc, initialized, fragment>>
             ELSE /\ ResetReadState
                  /\ isHeaderDone' = TRUE
                  /\ length' = HeaderEndingAt(taken').len
                  /\ isLast' = HeaderEndingAt(taken').last
                  /\ IF packet = NoPacket
                     THEN packet' = <<>> /\ capacity' = length'
                     ELSE /\ packet' = packet
                          /\ capacity' = resize(capacity, (Len(packet) + length') % IndexRange)
                  /\ pc' = "data"
    BY DEF RecvHeader
  <1>5. /\ n \in Nat /\ n <= byteToRead
        /\ arrived' \in 0..End(stream')[Len(stream')] /\ taken' \in 0..arrived'
    BY <1>2, <1>3, <1>4
  <1>6. CASE n < byteToRead
    <2> USE DEF fragment
    <2>1. byteToRead' \in 1..HeaderLen /\ taken' + byteToRead' = e + HeaderLen
      BY <1>2, <1>3, <1>4, <1>5, <1>6
    <2>2. TypeOK'
      BY <1>2, <1>3, <1>4, <1>5, <1>6, <2>1 DEF IInv, TypeOK, RecvHeader
    <2>3. InHeader(c)'
      BY <1>1, <1>3, <1>4, <1>6, <2>1 DEF InHeader, First, Begun
    <2>4. Place'
      BY <1>3, <2>3 DEF Place
    <2>5. ReadStateFits' /\ Over'
      BY <1>3, <1>4, <1>6 DEF IInv, ReadStateFits, Over
    <2>6. QED
      BY <2>2, <2>4, <2>5 DEF IInv, IsSomewhere
  <1>7. CASE ~(n < byteToRead)
    \* The header is complete: there is a fragment after the first c.
    <2> DEFINE i == c + 1
    <2>1. taken' = e + HeaderLen
      BY <1>2, <1>3, <1>4, <1>5, <1>7
    <2>2. c < N
      <3>1. taken >= e /\ taken < End(stream)[N]
        BY <1>2, <1>3
      <3>2. c # N
        BY <1>2, <3>1
      <3>3. QED
        BY <1>2, <3>2
    <2>3. i \in 1..N /\ i - 1 = c
      BY <1>2, <2>2
    <2>4. length' = stream[i].len /\ isLast' = stream[i].last
      <3>1. HeaderEndingAt(taken') = stream[i]
        BY <1>2, <2>1, <2>3, HeaderFound
      <3>2. QED
        BY <1>4, <1>7, <3>1
    <2>5. packet' = Begun(stream, c) /\ packet' \in Seq(Nat \ {0})
      <3>1. Begun(stream, c) \in Seq(Nat \ {0}) /\ Begun(stream, c) # NoPacket
        BY <1>2, BegunType
      <3>2. packet' = IF packet = NoPacket THEN <<>> ELSE packet
        BY <1>4, <1>7
      <3>3. CASE c > 0 /\ ~stream[c].last
        BY <1>3, <3>1, <3>2, <3>3
      <3>4. CASE ~(c > 0 /\ ~stream[c].last)
        <4>1. c = 0 \/ stream[c].last
          BY <3>4
        <4>2. Begun(stream, c) = <<>>
          BY <1>2, <4>1, BegunEmpty
        <4>3. QED
          BY <1>3, <3>1, <3>2, <3>4, <4>2
      <3>5. QED
        BY <3>3, <3>4
    <2>6. TypeOK'
      <3>1. packet' \in Seq(Nat)
        BY <2>5, SeqMonotonic
      <3>2. length' \in Nat /\ isLast' \in BOOLEAN
        BY <1>2, <2>3, <2>4, EndFacts
      <3>3. initialized' = FALSE /\ byteToRead' = 0 /\ isHeaderDone' = TRUE /\ pc' = "data"
        BY <1>4, <1>7 DEF ResetReadState
      <3>4. UNCHANGED <<stream, ended, conns, once, delivered>>
        BY DEF RecvHeader
      <3>5. capacity' \in Nat
        <4>1. Len(packet) \in Nat /\ capacity \in Nat
          BY DEF IInv, TypeOK
        <4>2. Len(packet) + length' \in Nat
          BY <3>2, <4>1
        <4>3. resize(capacity, (Len(packet) + length') % IndexRange) \in Nat
          BY <4>1, <4>2, ResizeType
        <4>4. QED
          BY <1>4, <1>7, <3>2, <4>3
      <3>6. QED
        BY <1>5, <3>1, <3>2, <3>3, <3>4, <3>5 DEF IInv, TypeOK
    <2>7. InData(i)'
      <3> DEFINE start == End(stream)[i - 1] + HeaderLen
      <3>1. taken' - start = 0 /\ start \in Nat /\ taken' = start
        BY <1>2, <2>1, <2>3
      <3>2. Run(start, taken' - start) = <<>>
        <4>1. Run(start, 0) \in Seq(Nat \ {0}) /\ Len(Run(start, 0)) = 0
          BY <3>1, RunType
        <4>2. QED
          BY <3>1, <4>1, EmptySeq
      <3>3. packet' = Begun(stream, i - 1) \o Run(start, taken' - start)
        <4>1. packet' \o <<>> = packet'
          BY <2>5, ConcatEmptySeq
        <4>2. QED
          BY <2>3, <2>5, <3>2, <4>1
      <3>4. delivered' = First(stream, i - 1)
        BY <1>3, <2>3
      <3>5. QED
        BY <1>3, <1>4, <1>7, <2>3, <2>4, <3>1, <3>3, <3>4
           DEF InData, First, Begun, Run, ResetReadState
    <2>8. Place'
      BY <1>3, <2>3, <2>7 DEF Place
    <2>9. ReadStateFits' /\ Over'
      BY <1>4, <1>7 DEF ReadStateFits, Over
    <2>10. QED
      BY <2>6, <2>8, <2>9 DEF IInv, IsSomewhere
  <1>8. QED
    BY <1>6, <1>7

LEMMA RecvDataInvariant ==
  ASSUME IInv, RecvData
  PROVE  IInv'
  <1> USE DEF server
  <1>1. PICK i \in 1..Len(stream) : InData(i)
    BY DEF IInv, IsSomewhere, Place, InHeader, ReadStateFits, RecvData
  <1> DEFINE N == Len(stream)
             b == Begun(stream, i - 1)
             start == End(stream)[i - 1] + HeaderLen
             len == stream[i].len
  <1>2. /\ stream \in Streams /\ N \in Nat \ {0} /\ i - 1 \in 0..N /\ i \in 0..N
        /\ start \in Nat /\ len \in Nat /\ End(stream)[i] = start + len
        /\ stream[i].last \in BOOLEAN
        /\ arrived \in Nat /\ arrived \in 0..End(stream)[N] /\ taken \in 0..arrived
    <2>1. stream \in Streams
      BY DEF IInv, TypeOK
    <2>2. i - 1 \in 0..N /\ N \in 0..N /\ HeaderLen \in Nat
      BY <2>1, EndFacts
    <2>3. End(stream)[i - 1] \in Nat /\ End(stream)[N] \in Nat
      BY <2>1, <2>2, EndFacts
    <2>4. End(stream)[i] = End(stream)[i - 1] + HeaderLen + len /\ len \in Nat
      BY <2>1, EndFacts
    <2>5. arrived \in 0..End(stream)[N] /\ taken \in 0..arrived
      BY DEF IInv, TypeOK
    <2>6. arrived \in Nat /\ start \in Nat /\ End(stream)[i] = start + len
      BY <2>2, <2>3, <2>4, <2>5
    <2>7. N \in Nat \ {0} /\ i \in 0..N /\ stream[i].last \in BOOLEAN
      BY <2>1, EndFacts
    <2>8. QED
      BY <2>1, <2>2, <2>4, <2>5, <2>6, <2>7
  <1>3. /\ pc = "data" /\ initialized /\ byteToRead > 0 /\ isHeaderDone
        /\ length = len /\ isLast = stream[i].last
        /\ byteToRead \in 0..len /\ taken + byteToRead = start + len
        /\ stream' = stream /\ arrived' = arrived
        /\ delivered = First(stream, i - 1)
        /\ packet = b \o Run(start, taken - start)
    BY <1>1, <1>2 DEF InData, RecvData
  <1>4. PICK n \in 1..byteToRead :
          /\ taken + n <= arrived
          /\ taken' = taken + n
          /\ LET data == packet \o [j \in 1..n |-> taken + j] IN
             IF n < byteToRead
             THEN /\ byteToRead' = byteToRead - n /\ packet' = data
                  /\ UNCHANGED <<pc, initialized, isHeaderDone, length, isLast,
                                 capacity, delivered>>
             ELSE FragmentDone(data)
    BY DEF RecvData
  <1> DEFINE d == taken - start
             data == packet \o Run(taken, n)
  <1>5. /\ n \in Nat /\ n <= byteToRead /\ d \in Nat /\ taken \in Nat /\ taken = start + d
        /\ d + n = taken' - start /\ d + byteToRead = len /\ d + n \in Nat
        /\ arrived' \in 0..End(stream')[Len(stream')] /\ taken' \in 0..arrived'
    <2>1. arrived' \in 0..End(stream')[Len(stream')] /\ arrived' = arrived
      BY <1>2, <1>3
    <2>2. taken \in Nat /\ taken >= start
      <3> HIDE DEF start
      <3>1. taken \in Nat /\ byteToRead \in 0..len /\ taken + byteToRead = start + len
        BY <1>2, <1>3
      <3>2. QED
        BY <1>2, <3>1
    <2> HIDE DEF start
    <2>3. n \in Nat /\ n <= byteToRead /\ byteToRead \in Nat
      BY <1>2, <1>3, <1>4
    <2>4. d \in Nat /\ taken = start + d /\ d + n \in Nat
      BY <1>2, <2>2, <2>3
    <2>5. taken' = taken + n /\ taken + n <= arrived
      BY <1>4
    <2>6. taken' \in 0..arrived'
      BY <1>2, <2>1, <2>2, <2>3, <2>5
    <2>7. d + n = taken' - start /\ d + byteToRead = len
      <3>1. taken + byteToRead = start + len
        BY <1>3
      <3>2. start \in Nat /\ len \in Nat
        BY <1>2
      <3> HIDE DEF len
      <3>3. QED
        BY <2>2, <2>3, <2>5, <3>1, <3>2
    <2>8. QED
      BY <2>1, <2>2, <2>3, <2>4, <2>6, <2>7
  <1>6. /\ data = b \o Run(start, d + n) /\ data \in Seq(Nat \ {0})
        /\ b \in Seq(Nat \ {0}) /\ Run(start, d + n) \in Seq(Nat \ {0})
    <2>1. b \in Seq(Nat \ {0})
      BY <1>2, BegunType
    <2>2. start \in Nat /\ d \in Nat /\ n \in Nat /\ d + n \in Nat /\ taken = start + d
      BY <1>2, <1>5
    <2>3. packet = b \o Run(start, d)
      BY <1>3
    <2> HIDE DEF start, d, b
    <2>4. Run(start, d + n) \in Seq(Nat \ {0})
      BY <2>2, RunType
    <2>5. /\ (b \o Run(start, d)) \o Run(start + d, n) = b \o Run(start, d + n)
          /\ b \o Run(start, d + n) \in Seq(Nat \ {0})
      BY <2>1, <2>2, RunExtends
    <2>6. data = b \o Run(start, d + n)
      BY <2>2, <2>3, <2>5
    <2>7. QED
      BY <2>1, <2>4, <2>5, <2>6
  <1>7. data \in Seq(Nat)
    BY <1>6, SeqMonotonic
  <1>8. data = packet \o [j \in 1..n |-> taken + j]
    BY DEF Run
  <1> HIDE DEF data
  <1>9. CASE n < byteToRead
    <2>1. byteToRead' \in 0..len /\ byteToRead' > 0 /\ taken' + byteToRead' = start + len
          /\ byteToRead' \in Nat
      <3>1. byteToRead \in 0..len /\ taken + byteToRead = start + len
        BY <1>3
      <3>2. taken' = taken + n /\ byteToRead' = byteToRead - n
        BY <1>4, <1>9
      <3>3. taken \in Nat /\ start \in Nat /\ len \in Nat /\ n \in Nat
        BY <1>2, <1>5
      <3> HIDE DEF start, len
      <3>4. QED
        BY <1>9, <3>1, <3>2, <3>3
    <2>2. packet' = data
      BY <1>4, <1>8, <1>9
    <2>3. TypeOK'
      BY <1>3, <1>4, <1>5, <1>7, <1>9, <2>1, <2>2 DEF IInv, TypeOK, RecvData
    <2>4. InData(i)'
      <3>1. packet' = b \o Run(start, taken' - start)
        BY <1>5, <1>6, <2>2
      <3>2. /\ UNCHANGED <<stream, initialized, isHeaderDone, length, isLast, delivered>>
            /\ initialized /\ isHeaderDone /\ length = len
        BY <1>3, <1>4, <1>9
      <3>3. /\ byteToRead' \in 0..length' /\ (byteToRead' = 0 => length' = 0)
            /\ taken' + byteToRead' = End(stream')[i]
        BY <1>2, <2>1, <3>2
      <3>4. packet' = Begun(stream', i - 1)
                        \o Run(End(stream')[i - 1] + HeaderLen,
                               taken' - (End(stream')[i - 1] + HeaderLen))
        BY <3>1, <3>2
      <3>5. QED
        BY <1>3, <3>2, <3>3, <3>4 DEF InData, First, Begun, Run
    <2>5. Place'
      BY <1>3, <2>4 DEF Place
    <2>6. ReadStateFits' /\ Over'
      BY <1>3, <1>4, <1>9 DEF ReadStateFits, Over
    <2>7. QED
      BY <2>3, <2>5, <2>6 DEF IInv, IsSomewhere
  <1>10. CASE ~(n < byteToRead)
    \* The fragment is complete: i have been read.
    <2>1. FragmentDone(data)
      BY <1>4, <1>8, <1>10
    <2>2. n = byteToRead /\ taken' = End(stream)[i] /\ d + n = len
      BY <1>2, <1>3, <1>4, <1>5, <1>10
    <2>3. data = b \o Data(stream, i)
      <3>1. Data(stream, i) = Run(start, len)
        BY <1>2, DataIsRun
      <3>2. QED
        BY <1>6, <2>2, <3>1
    <2>4. initialized' = FALSE /\ byteToRead' = 0 /\ isHeaderDone' = FALSE
      BY <2>1 DEF FragmentDone, ResetReadState
    <2>5. i > 0
      BY <1>2
    <2>6. CASE stream[i].last
      <3>1. /\ delivered' = Append(delivered, data) /\ length' = 0 /\ isLast' = FALSE
            /\ packet' = NoPacket /\ capacity' = 0
            /\ pc' = IF once THEN "closing" ELSE "header"
        BY <1>3, <2>1, <2>6 DEF FragmentDone
      <3>2. delivered' = First(stream, i)
        BY <1>2, <1>3, <2>3, <2>6, <3>1, LastCompletes
      <3>3. TypeOK'
        <4>1. delivered' \in Seq(Seq(Nat))
          BY <1>2, <3>2, FirstType
        <4>2. packet' \in Seq(Nat)
          BY <3>1 DEF NoPacket
        <4>3. QED
          BY <1>3, <1>5, <2>4, <3>1, <4>1, <4>2 DEF IInv, TypeOK, RecvData
      <3>4. InHeader(i)'
        BY <1>2, <1>3, <2>2, <2>4, <2>6, <3>1, <3>2 DEF InHeader, First, Begun
      <3>5. Place'
        BY <1>2, <1>3, <3>4 DEF Place
      <3>6. ReadStateFits'
        BY <2>4, <3>1 DEF ReadStateFits
      <3>7. Over'
        BY <1>2, <1>3, <3>1, <3>2 DEF Over, First
      <3>8. QED
        BY <3>3, <3>5, <3>6, <3>7 DEF IInv, IsSomewhere
    <2>7. CASE ~stream[i].last
      <3>1. /\ pc' = "header" /\ packet' = data /\ delivered' = delivered
            /\ length' = length /\ isLast' = isLast
            /\ capacity' = resize(capacity, Len(data) % IndexRange)
        BY <1>3, <2>1, <2>7 DEF FragmentDone
      <3>2. packet' = Begun(stream, i) /\ delivered' = First(stream, i)
        BY <1>2, <1>3, <2>3, <2>7, <3>1, MoreFollows
      <3>3. TypeOK'
        <4>1. Len(data) \in Nat /\ capacity \in Nat
          BY <1>7 DEF IInv, TypeOK
        <4>2. capacity' \in Nat
          BY <3>1, <4>1, ResizeType
        <4>3. QED
          BY <1>3, <1>5, <1>7, <2>4, <3>1, <4>2 DEF IInv, TypeOK, RecvData
      <3>4. InHeader(i)'
        BY <1>2, <1>3, <2>2, <2>4, <2>5, <2>7, <3>2 DEF InHeader, First, Begun
      <3>5. Place'
        BY <1>2, <1>3, <3>4 DEF Place
      <3>6. ReadStateFits' /\ Over'
        BY <2>4, <3>1 DEF ReadStateFits, Over
      <3>7. QED
        BY <3>3, <3>5, <3>6 DEF IInv, IsSomewhere
    <2>8. QED
      BY <2>6, <2>7
  <1>11. QED
    BY <1>9, <1>10

LEMMA NextInvariant == IInv /\ [Next]_vars => IInv'
  <1> SUFFICES ASSUME IInv, [Next]_vars
               PROVE  IInv'
    OBVIOUS
  <1>1. CASE Arrive
    BY <1>1, ArriveInvariant
  <1>2. CASE Ends
    BY <1>2, EndsInvariant
  <1>3. CASE Readable
    BY <1>3, ReadableInvariant
  <1>4. CASE Initialize
    BY <1>4, InitializeInvariant
  <1>5. CASE RecvHeader
    BY <1>5, RecvHeaderInvariant
  <1>6. CASE RecvData
    BY <1>6, RecvDataInvariant
  <1>7. CASE WouldBlock
    BY <1>7, WouldBlockInvariant
  <1>8. CASE RecvEnd
    BY <1>8, RecvEndInvariant
  <1>9. CASE Close
    BY <1>9, CloseInvariant
  <1>10. CASE Drop
    BY <1>10, DropInvariant
  <1>11. CASE Reconnect
    BY <1>11, ReconnectInvariant
  <1>12. CASE UNCHANGED vars
    <2> USE <1>12 DEF vars, server, readState, fragment
    <2>1. TypeOK'
      BY DEF IInv, TypeOK
    <2>2. IsSomewhere'
      BY PlaceKept DEF IInv, IsSomewhere
    <2>3. ReadStateFits' /\ Over'
      BY DEF IInv, ReadStateFits, Over
    <2>4. QED
      BY <2>1, <2>2, <2>3 DEF IInv
  <1>13. CASE RecvGarbled
    BY <1>13, RecvGarbledInvariant
  <1>14. QED
    BY <1>1, <1>2, <1>3, <1>4, <1>5, <1>6, <1>7, <1>8, <1>9, <1>10, <1>11, <1>12, <1>13
       DEF Next, Manager

\* The inductive invariant holds in every reachable state: the reader's place
\* in the stream, what it keeps of a short read and of the packet being
\* assembled, and what it has delivered fit one another.
THEOREM IInvAlways == Spec => []IInv
  <1>1. Init => IInv
    BY InitInvariant
  <1>2. IInv /\ [Next]_vars => IInv'
    BY NextInvariant
  <1>3. QED
    BY <1>1, <1>2, PTL DEF Spec

\* recvTCPPacket never takes more bytes than have arrived, and every member
\* keeps its type.
THEOREM TypeCorrect == Spec => []TypeOK
  <1>1. IInv => TypeOK
    BY DEF IInv
  <1>2. QED
    BY <1>1, IInvAlways, PTL

\* The packets given to matchPendingRequest are the first replies of the
\* server's stream, whole and in order: for every way of cutting replies into
\* fragments, of splitting the reads, and of losing and making the connection.
THEOREM RepliesAreWhole == Spec => []DeliveredIsSent
  <1>1. IInv => DeliveredIsSent
    <2> SUFFICES ASSUME IInv
                 PROVE  DeliveredIsSent
      OBVIOUS
    <2>1. stream \in Streams /\ Len(stream) \in 0..Len(stream)
      BY EndFacts DEF IInv, TypeOK
    <2>2. PICK c \in 0..Len(stream) : delivered = First(stream, c)
      BY <2>1, PlaceDelivered DEF IInv, TypeOK, IsSomewhere, Over
    <2>3. Count(stream)[c] <= Count(stream)[Len(stream)]
      <3>1. c \in 0..Len(stream)
        OBVIOUS
      <3>2. QED
        BY <2>1, <3>1, CountGrows
    <2>4. Count(stream)[c] \in Nat /\ Count(stream)[Len(stream)] \in Nat
      BY <2>1, CountRecursion
    <2>5. First(stream, Len(stream)) = Replies(stream)
      BY DEF First, Replies
    <2>6. /\ Len(delivered) = Count(stream)[c]
          /\ Len(Replies(stream)) = Count(stream)[Len(stream)]
      BY <2>1, <2>2, <2>5, FirstType
    <2>7. ASSUME NEW k \in 1..Count(stream)[c]
          PROVE  delivered[k] = Replies(stream)[k]
      <3>1. k \in 1..Count(stream)[Len(stream)]
        BY <2>3, <2>4
      <3>2. QED
        BY <2>2, <3>1 DEF First, Replies
    <2>8. QED
      BY <2>3, <2>6, <2>7 DEF DeliveredIsSent
  <1>2. QED
    BY <1>1, IInvAlways, PTL

\* Whenever recvPacket has returned and the connection is up, the read state
\* and the fragment say where in the stream the next byte belongs.
THEOREM ReaderAligned == Spec => []ReaderIsAligned
  <1>1. IInv => ReaderIsAligned
    <2> SUFFICES ASSUME IInv, pc = "idle", initialized, byteToRead > 0
                 PROVE  \E i \in 0..Len(stream) :
                          IF isHeaderDone
                          THEN i > 0 /\ taken + byteToRead = End(stream)[i]
                          ELSE taken + byteToRead = End(stream)[i] + HeaderLen
      BY DEF IInv, ReadStateFits, ReaderIsAligned
    <2>1. CASE isHeaderDone
      <3>1. PICK i \in 1..Len(stream) : InData(i)
        BY <2>1 DEF IInv, IsSomewhere, Place, InHeader
      <3>2. i \in 0..Len(stream) /\ i > 0
        OBVIOUS
      <3>3. QED
        BY <2>1, <3>1, <3>2 DEF InData
    <2>2. CASE ~isHeaderDone
      <3>1. PICK c \in 0..Len(stream) : InHeader(c)
        BY <2>2 DEF IInv, IsSomewhere, Place, InData
      <3>2. QED
        BY <2>2, <3>1 DEF InHeader
    <2>3. QED
      BY <2>1, <2>2
  <1>2. QED
    BY <1>1, IInvAlways, PTL

\* What recv is asked for lies within the packet's buffer.
LEMMA FragmentFitsKept == IInv /\ FragmentFits /\ [Next]_vars => FragmentFits'
  <1> SUFFICES ASSUME IInv, FragmentFits, [Next]_vars, isHeaderDone'
               PROVE  LET asked == IF initialized' THEN byteToRead' ELSE length'
                          end == Len(packet') + asked
                      IN 2 * end < IndexRange => end <= capacity'
    BY DEF FragmentFits
  <1>0. packet \in Seq(Nat) /\ capacity \in Nat /\ length \in Nat /\ byteToRead \in Nat
    BY DEF IInv, TypeOK
  <1>1. CASE UNCHANGED <<readState, fragment>>
    BY <1>1 DEF FragmentFits, readState, fragment
  <1>2. CASE Initialize
    BY <1>2 DEF Initialize, IInv, ReadStateFits, FragmentFits, fragment
  <1>3. CASE RecvHeader
    <2>1. ~isHeaderDone
      BY <1>3 DEF RecvHeader, IInv, ReadStateFits
    <2>2. /\ initialized' = FALSE /\ length' \in Nat
          /\ IF packet = NoPacket
             THEN packet' = <<>> /\ capacity' = length'
             ELSE /\ packet' = packet
                  /\ capacity' = resize(capacity, (Len(packet) + length') % IndexRange)
      <3>1. IInv'
        BY <1>3, RecvHeaderInvariant
      <3>2. QED
        BY <1>3, <2>1, <3>1 DEF RecvHeader, ResetReadState, fragment, IInv, TypeOK
    <2>3. CASE packet = NoPacket
      <3>1. PICK n \in Nat : packet' = <<>> /\ capacity' = n /\ length' = n
        BY <2>2, <2>3
      <3>2. Len(packet') + length' <= capacity'
        BY <3>1
      <3>3. QED
        BY <2>2, <3>2
    <2>4. CASE packet # NoPacket
      <3> DEFINE end == Len(packet) + length'
      <3>1. end \in Nat
        BY <1>0, <2>2
      <3> HIDE DEF end
      <3>2. 2 * end < IndexRange => end <= resize(capacity, end % IndexRange)
        BY <1>0, <3>1, ResizeHolds
      <3>3. QED
        BY <2>2, <2>4, <3>2 DEF end
    <2>5. QED
      BY <2>3, <2>4
  <1>4. CASE RecvData
    <2>1. PICK n \in 1..byteToRead :
            /\ n < byteToRead
            /\ byteToRead' = byteToRead - n
            /\ packet' = packet \o Run(taken, n)
            /\ UNCHANGED <<initialized, isHeaderDone, capacity>>
      BY <1>4 DEF RecvData, FragmentDone, Run
    <2>2. Len(packet') = Len(packet) + n
      <3>1. n \in Nat /\ taken \in Nat
        BY <1>0 DEF IInv, TypeOK
      <3>2. Run(taken, n) \in Seq(Nat) /\ Len(Run(taken, n)) = n
        BY <3>1, RunType, SeqMonotonic
      <3>3. QED
        BY <1>0, <2>1, <3>2, ConcatProperties
    <2>3. initialized /\ isHeaderDone /\ Len(packet) \in Nat
      BY <1>0, <1>4, <2>1 DEF RecvData
    <2>4. Len(packet') + byteToRead' = Len(packet) + byteToRead
      BY <1>0, <2>1, <2>2, <2>3
    <2>5. QED
      BY <2>1, <2>3, <2>4 DEF FragmentFits
  <1>5. CASE RecvEnd \/ RecvGarbled \/ Close
    BY <1>5 DEF RecvEnd, RecvGarbled, Close, ClearFragment
  <1>6. QED
    BY <1>1, <1>2, <1>3, <1>4, <1>5
       DEF Next, Manager, Arrive, Ends, Readable, WouldBlock, Drop, Reconnect, vars

\* recvTCPPacket has recv write inside the packet's buffer: the packet is made
\* for its first fragment and enlarged for each that follows, for any number of
\* fragments and of short reads, as long as twice the size is an index.
THEOREM BufferHolds == Spec => []FragmentFits
  <1>1. Init => FragmentFits
    BY DEF Init, FragmentFits
  <1>2. QED
    BY <1>1, FragmentFitsKept, IInvAlways, PTL DEF Spec

-----------------------------------------------------------------------------
(* The connection as a stream of replies.                                  *)

\* The replies sent depend on the stream alone.
LEMMA SentIsKept == UNCHANGED stream => UNCHANGED Replies(stream)
  BY DEF Replies, Reply, Bytes, Count, Data, End

\* A fragment that completes a reply delivers the next one of the stream.
LEMMA DeliverStep ==
  ASSUME IInv, IInv', DeliveredIsSent', RecvData
  PROVE  Stream!Deliver \/ UNCHANGED <<stream, delivered, pc # "closed">>
  <1>1. stream' = stream /\ pc = "data"
    BY DEF RecvData, server
  <1>2. pc' # "closed"
    BY <1>1 DEF RecvData, FragmentDone
  <1>3. PICK data : delivered' = delivered \/ delivered' = Append(delivered, data)
    BY DEF RecvData, FragmentDone
  <1>4. CASE delivered' = delivered
    BY <1>1, <1>2, <1>4
  <1>5. CASE delivered' = Append(delivered, data)
    <2> DEFINE n == Len(delivered)
    <2>1. n \in Nat /\ Len(delivered') = n + 1 /\ delivered'[n + 1] = data
      <3>1. delivered \in Seq(Seq(Nat)) /\ delivered' \in Seq(Seq(Nat))
        BY DEF IInv, TypeOK
      <3>2. n \in Nat /\ Len(delivered') = n + 1
        BY <1>5, <3>1
      <3>3. delivered'[n + 1] = data
        BY <1>5, <3>1
      <3>4. QED
        BY <3>2, <3>3
    <2>2. Replies(stream') = Replies(stream)
      BY <1>1, SentIsKept
    <2>3. /\ Len(delivered') <= Len(Replies(stream))
          /\ \A k \in 1..Len(delivered') : delivered'[k] = Replies(stream)[k]
      BY <2>2 DEF DeliveredIsSent
    <2>4. Len(Replies(stream)) \in Nat
      <3>1. stream \in Streams /\ Len(stream) \in 0..Len(stream)
        BY EndFacts DEF IInv, TypeOK
      <3>2. QED
        BY <3>1, FirstType, CountRecursion DEF First, Replies
    <2>5. n < Len(Replies(stream)) /\ data = Replies(stream)[n + 1]
      BY <2>1, <2>3, <2>4
    <2>6. QED
      BY <1>1, <1>2, <1>5, <2>2, <2>5 DEF Stream!Deliver
  <1>6. QED
    BY <1>3, <1>4, <1>5

\* Every step is one of ReplyStream or leaves what it sees alone.
LEMMA StreamStep ==
  IInv /\ IInv' /\ DeliveredIsSent' /\ [Next]_vars => [Stream!Next]_(Stream!vars)
  <1> SUFFICES ASSUME IInv, IInv', DeliveredIsSent', [Next]_vars
               PROVE  \/ Stream!Next
                      \/ UNCHANGED <<stream, delivered, pc # "closed">>
    BY SentIsKept DEF Stream!vars
  <1>1. CASE RecvData
    BY <1>1, DeliverStep DEF Stream!Next
  <1>2. CASE Close
    <2>1. UNCHANGED <<stream, delivered>> /\ pc # "closed" /\ pc' = "closed"
      BY <1>2 DEF Close, server
    <2>2. Stream!Close
      BY <2>1, SentIsKept DEF Stream!Close
    <2>3. QED
      BY <2>2 DEF Stream!Next
  <1>3. CASE Reconnect
    <2>1. Stream!Connect
      BY <1>3 DEF Reconnect, Stream!Connect
    <2>2. QED
      BY <2>1 DEF Stream!Next
  <1>4. CASE \/ Arrive \/ Ends \/ Readable \/ Initialize \/ RecvHeader
             \/ RecvGarbled \/ WouldBlock \/ RecvEnd \/ Drop \/ UNCHANGED vars
    BY <1>4 DEF Arrive, Ends, Readable, Initialize, RecvHeader, RecvGarbled, WouldBlock,
                RecvEnd, Drop, vars, server
  <1>5. QED
    BY <1>1, <1>2, <1>3, <1>4 DEF Next, Manager

\* recvTCPPacket and closeConnection implement a stream of replies: whatever
\* the fragments, the short reads and the ends of the connection, what
\* matchPendingRequest gets is one reply after another, each whole and the next
\* one the server sent on this connection.
THEOREM StreamRefinement == Spec => StreamSpec
  <1>1. Init => Stream!Init
    BY DEF Init, Stream!Init
  <1>2. IInv /\ IInv' /\ DeliveredIsSent' /\ [Next]_vars => [Stream!Next]_(Stream!vars)
    BY StreamStep
  <1>3. QED
    BY <1>1, <1>2, IInvAlways, RepliesAreWhole, PTL DEF Spec, StreamSpec, Stream!Spec

=============================================================================
