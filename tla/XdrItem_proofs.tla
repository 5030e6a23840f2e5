---------------------------- MODULE XdrItem_proofs ----------------------------
(***************************************************************************)
(* Proofs about the reading and writing of flat messages, for every layout,*)
(* value, place in the message and size received: what is written is what  *)
(* is read back, the server's reading of a call's header included, and of a*)
(* message that is cut short the reader finds that it cannot be read.      *)
(*                                                                         *)
(* First what Packet's reads do to a reader; then one item, then a layout, *)
(* by induction on its items; then the header; then messages cut short.    *)
(***************************************************************************)
EXTENDS RpcMessage, NatRecursion, SequenceTheorems

\* A reader whose reads have succeeded: where it is, in bytes, and what it has read.
At(pos, cap, vals, attrs) ==
  [ok |-> TRUE, pos |-> pos, cap |-> cap, vals |-> vals, attrs |-> attrs]

\* The readers, for values and attributes of the sets V and W.
Readers(V, W) == [ok: BOOLEAN, pos: Nat, cap: Nat, vals: V, attrs: W]

\* Readers with the same fields are the same.
LEMMA SameReader ==
  ASSUME NEW V, NEW W, NEW r \in Readers(V, W), NEW s \in Readers(V, W),
         r.ok = s.ok, r.pos = s.pos, r.cap = s.cap, r.vals = s.vals, r.attrs = s.attrs
  PROVE  r = s
  BY DEF Readers

LEMMA AtIsReader ==
  ASSUME NEW V, NEW W, NEW vals \in V, NEW attrs \in W, NEW pos \in Nat, NEW cap \in Nat
  PROVE  At(pos, cap, vals, attrs) \in Readers(V, W)
  BY DEF At, Readers

\* What each of the three updates of a reader makes of it.
LEMMA AdvancedReader ==
  ASSUME NEW vals, NEW attrs, NEW pos \in Nat, NEW cap \in Nat, NEW bytes \in Nat
  PROVE  Advanced(At(pos, cap, vals, attrs), bytes) = At(pos + bytes, cap, vals, attrs)
  <1> DEFINE V == {vals}
             W == {attrs}
             r == At(pos, cap, vals, attrs)
             s == [r EXCEPT !.pos = r.pos + bytes]
             t == At(pos + bytes, cap, vals, attrs)
  <1>1. vals \in V /\ attrs \in W /\ pos + bytes \in Nat
    OBVIOUS
  <1> HIDE DEF V, W
  <1>2. r \in Readers(V, W) /\ t \in Readers(V, W)
    BY <1>1, AtIsReader
  <1>3. /\ r.ok = TRUE /\ r.pos = pos /\ r.cap = cap /\ r.vals = vals /\ r.attrs = attrs
        /\ t.ok = TRUE /\ t.pos = pos + bytes /\ t.cap = cap /\ t.vals = vals
        /\ t.attrs = attrs
    BY DEF At
  <1> HIDE DEF r, t
  <1>4. s \in Readers(V, W)
    BY <1>1, <1>2, <1>3 DEF Readers
  <1>5. /\ s.ok = r.ok /\ s.pos = pos + bytes /\ s.cap = r.cap
        /\ s.vals = r.vals /\ s.attrs = r.attrs
    BY <1>2, <1>3 DEF Readers
  <1>6. Advanced(r, bytes) = s
    BY <1>2 DEF Advanced, Readers
  <1> HIDE DEF s
  <1>7. s = t
    BY <1>2, <1>3, <1>4, <1>5, SameReader
  <1>8. QED
    BY <1>6, <1>7 DEF r, t

LEMMA StoredReader ==
  ASSUME NEW vals, NEW attrs, NEW pos \in Nat, NEW cap \in Nat, NEW v
  PROVE  Stored(At(pos, cap, vals, attrs), v) = At(pos, cap, Append(vals, v), attrs)
  <1> DEFINE V == {vals, Append(vals, v)}
             W == {attrs}
             r == At(pos, cap, vals, attrs)
             s == [r EXCEPT !.vals = Append(r.vals, v)]
             t == At(pos, cap, Append(vals, v), attrs)
  <1>1. vals \in V /\ attrs \in W /\ Append(vals, v) \in V
    OBVIOUS
  <1> HIDE DEF V, W
  <1>2. r \in Readers(V, W) /\ t \in Readers(V, W)
    BY <1>1, AtIsReader
  <1>3. /\ r.ok = TRUE /\ r.pos = pos /\ r.cap = cap /\ r.vals = vals /\ r.attrs = attrs
        /\ t.ok = TRUE /\ t.pos = pos /\ t.cap = cap /\ t.vals = Append(vals, v)
        /\ t.attrs = attrs
    BY DEF At
  <1> HIDE DEF r, t
  <1>4. s \in Readers(V, W)
    BY <1>1, <1>2, <1>3 DEF Readers
  <1>5. /\ s.ok = r.ok /\ s.pos = r.pos /\ s.cap = r.cap
        /\ s.vals = Append(vals, v) /\ s.attrs = r.attrs
    BY <1>2, <1>3 DEF Readers
  <1>6. Stored(r, v) = s
    BY <1>2 DEF Stored, Readers
  <1> HIDE DEF s
  <1>7. s = t
    BY <1>2, <1>3, <1>4, <1>5, SameReader
  <1>8. QED
    BY <1>6, <1>7 DEF r, t

\* A read that succeeds: the reader has moved on and has the value.
LEMMA ReadsOn ==
  \A vals, attrs, v : \A pos, cap, bytes \in Nat :
    Stored(Advanced(At(pos, cap, vals, attrs), bytes), v)
      = At(pos + bytes, cap, Append(vals, v), attrs)
  <1> TAKE vals, attrs, v
  <1> TAKE pos, cap, bytes \in Nat
  <1>1. Advanced(At(pos, cap, vals, attrs), bytes) = At(pos + bytes, cap, vals, attrs)
    BY AdvancedReader
  <1>2. pos + bytes \in Nat
    OBVIOUS
  <1>3. Stored(At(pos + bytes, cap, vals, attrs), v)
          = At(pos + bytes, cap, Append(vals, v), attrs)
    BY <1>2, StoredReader
  <1>4. QED
    BY <1>1, <1>3

LEMMA RefusedReader ==
  ASSUME NEW vals, NEW attrs, NEW pos \in Nat, NEW cap \in Nat
  PROVE  Refused(At(pos, cap, vals, attrs)).ok = FALSE
  <1> DEFINE V == {vals}
             W == {attrs}
             r == At(pos, cap, vals, attrs)
  <1>1. vals \in V /\ attrs \in W
    OBVIOUS
  <1> HIDE DEF V, W
  <1>2. r \in Readers(V, W)
    BY <1>1, AtIsReader
  <1> HIDE DEF r
  <1>3. Refused(r).ok = FALSE
    BY <1>2 DEF Refused, Readers
  <1>4. QED
    BY <1>3 DEF r

\* Words rounds up to whole words.
LEMMA WordsOf ==
  ASSUME NEW bytes \in Nat
  PROVE  /\ Words(bytes) \in Nat /\ bytes <= 4 * Words(bytes) /\ 4 * Words(bytes) < bytes + 4
         /\ (bytes % 4) \in 0..3
         /\ (bytes % 4) = 0 => bytes = 4 * Words(bytes)
         /\ (bytes % 4) # 0 => bytes + (4 - (bytes % 4)) = 4 * Words(bytes)
  BY DEF Words

LEMMA WordIsAt ==
  ASSUME NEW wire \in Seq(Nat), NEW p \in Nat, p < Len(wire)
  PROVE  WordAt(wire, 4 * p) = wire[p + 1]
  BY DEF WordAt

\* From word p on the message holds these words.
Holds(wire, p, words) ==
  /\ p + Len(words) <= Len(wire)
  /\ \A i \in 1..Len(words) : wire[p + i] = words[i]

\* Packet::read returns the words that are there.
LEMMA TakeBytesReads ==
  ASSUME NEW wire \in Seq(Nat), NEW p \in Nat, NEW cap \in Nat, NEW vals, NEW attrs,
         NEW n, NEW bytes \in Nat, NEW data \in Seq(Nat), Len(data) = Words(bytes),
         Holds(wire, p, data), 4 * p + bytes <= cap
  PROVE  TakeBytes(wire, At(4 * p, cap, vals, attrs), n, bytes)
           = At(4 * p + bytes, cap, Append(vals, <<n, bytes, data>>), attrs)
  <1>1. ASSUME NEW i \in 1..Words(bytes)
        PROVE  WordAt(wire, 4 * p + 4 * (i - 1)) = data[i]
    <2>1. Words(bytes) \in Nat /\ Len(wire) \in Nat
      BY WordsOf
    <2>2. i \in Nat /\ p + (i - 1) \in Nat /\ p + (i - 1) < Len(wire)
          /\ 4 * p + 4 * (i - 1) = 4 * (p + (i - 1)) /\ (p + (i - 1)) + 1 = p + i
      BY <2>1 DEF Holds
    <2>3. WordAt(wire, 4 * (p + (i - 1))) = wire[(p + (i - 1)) + 1]
      BY <2>2, WordIsAt
    <2>4. QED
      BY <2>2, <2>3 DEF Holds
  <1>2. [i \in 1..Words(bytes) |-> WordAt(wire, 4 * p + 4 * (i - 1))] = data
    <2>1. data = [i \in 1..Len(data) |-> data[i]]
      OBVIOUS
    <2>2. data = [i \in 1..Words(bytes) |-> data[i]]
      BY <2>1
    <2>3. \A i \in 1..Words(bytes) : WordAt(wire, 4 * p + 4 * (i - 1)) = data[i]
      BY <1>1
    <2>4. QED
      BY <2>2, <2>3, Zenon
  <1> DEFINE r == At(4 * p, cap, vals, attrs)
             read == [i \in 1..Words(bytes) |-> WordAt(wire, r.pos + 4 * (i - 1))]
  <1>3. r.pos = 4 * p /\ r.cap = cap
    BY DEF At
  <1>4. read = data
    BY <1>2, <1>3
  <1>5. Stored(Advanced(r, bytes), <<n, bytes, data>>)
          = At(4 * p + bytes, cap, Append(vals, <<n, bytes, data>>), attrs)
    <2>1. 4 * p \in Nat
      OBVIOUS
    <2>2. QED
      BY <2>1, ReadsOn, SMT
  <1>6. ~(r.pos + bytes > r.cap)
    BY <1>3
  <1> HIDE DEF r
  <1>7. TakeBytes(wire, r, n, bytes) = Stored(Advanced(r, bytes), <<n, bytes, read>>)
    BY <1>6 DEF TakeBytes
  <1>8. QED
    BY <1>4, <1>5, <1>7 DEF r

\* Packet::skip moves the read index, unless that is beyond the size.
LEMMA SkipBytesReads ==
  ASSUME NEW pos \in Nat, NEW cap \in Nat, NEW vals, NEW attrs, NEW bytes \in Nat
  PROVE  SkipBytes(At(pos, cap, vals, attrs), bytes)
           = IF pos + bytes <= cap THEN At(pos + bytes, cap, vals, attrs)
             ELSE Refused(At(pos, cap, vals, attrs))
  <1> DEFINE r == At(pos, cap, vals, attrs)
  <1>1. r.pos = pos /\ r.cap = cap
    BY DEF At
  <1>2. Advanced(r, bytes) = At(pos + bytes, cap, vals, attrs)
    BY AdvancedReader
  <1> HIDE DEF r
  <1>3. SkipBytes(r, bytes) = IF pos + bytes > cap THEN Refused(r)
                              ELSE At(pos + bytes, cap, vals, attrs)
    BY <1>1, <1>2 DEF SkipBytes
  <1>4. QED
    BY <1>3 DEF r

\* After a value and its padding the reader is at the next word.
LEMMA SkipPaddingReads ==
  ASSUME NEW p \in Nat, NEW cap \in Nat, NEW vals, NEW attrs, NEW bytes \in Nat,
         4 * p + bytes <= cap
  PROVE  SkipPadding(At(4 * p + bytes, cap, vals, attrs), bytes)
           = IF 4 * (p + Words(bytes)) <= cap
             THEN At(4 * (p + Words(bytes)), cap, vals, attrs)
             ELSE Refused(At(4 * p + bytes, cap, vals, attrs))
  <1> DEFINE r == At(4 * p + bytes, cap, vals, attrs)
             m == bytes % 4
             w == Words(bytes)
  <1>1. /\ w \in Nat /\ m \in 0..3 /\ (m = 0 => bytes = 4 * w)
        /\ (m # 0 => bytes + (4 - m) = 4 * w)
    BY WordsOf
  <1>2. r.ok = TRUE
    BY DEF At
  <1>3. SkipPadding(r, bytes) = IF 4 - m < 4 /\ r.ok THEN SkipBytes(r, 4 - m) ELSE r
    BY DEF SkipPadding
  <1> HIDE DEF m, w, r
  <1>4. CASE m = 0
    <2>1. 4 * p + bytes = 4 * (p + w) /\ ~(4 - m < 4)
      BY <1>1, <1>4
    <2>2. QED
      BY <1>3, <2>1 DEF r, w
  <1>5. CASE m # 0
    <2>1. 4 - m \in Nat /\ 4 - m < 4 /\ (4 * p + bytes) + (4 - m) = 4 * (p + w)
      BY <1>1, <1>5
    <2>2. 4 * p + bytes \in Nat
      OBVIOUS
    <2>3. SkipBytes(r, 4 - m) = IF (4 * p + bytes) + (4 - m) <= cap
                                THEN At((4 * p + bytes) + (4 - m), cap, vals, attrs)
                                ELSE Refused(r)
      BY <2>1, <2>2, SkipBytesReads DEF r
    <2>4. QED
      BY <1>2, <1>3, <2>1, <2>3 DEF r, w
  <1>6. QED
    BY <1>4, <1>5

\* A length that needs no padding.
Aligned(bytes) == (bytes % 4) = 0

\* A value an item can hold: its length in bytes and its words.
Fits(item, bytes, data) ==
  /\ bytes \in Nat /\ data \in Seq(Nat) /\ Len(data) = Words(bytes)
  /\ \/ item.k = "fix" /\ item.bytes = bytes
     \/ item.k = "str"
     \/ item.k \in {"raw", "bits"} /\ Aligned(bytes)

\* The words of a value with a length before them.
LEMMA HoldsBehindLength ==
  ASSUME NEW wire \in Seq(Nat), NEW p \in Nat, NEW n \in Nat, NEW data \in Seq(Nat),
         Holds(wire, p, <<n>> \o data)
  PROVE  /\ Len(<<n>> \o data) = Len(data) + 1
         /\ p + 1 + Len(data) <= Len(wire)
         /\ WordAt(wire, 4 * p) = n
         /\ Holds(wire, p + 1, data)
  <1>1. Len(<<n>> \o data) = Len(data) + 1 /\ Len(data) \in Nat /\ Len(wire) \in Nat
    OBVIOUS
  <1>2. (<<n>> \o data)[1] = n /\ \A i \in 1..Len(data) : (<<n>> \o data)[i + 1] = data[i]
    OBVIOUS
  <1>3. p + 1 + Len(data) <= Len(wire)
    BY <1>1 DEF Holds
  <1>4. WordAt(wire, 4 * p) = n
    <2>1. 1 \in 1..Len(<<n>> \o data) /\ p < Len(wire)
      BY <1>1, <1>3
    <2>2. wire[p + 1] = (<<n>> \o data)[1]
      BY <2>1 DEF Holds
    <2>3. QED
      BY <1>2, <2>1, <2>2, WordIsAt
  <1>5. ASSUME NEW i \in 1..Len(data)
        PROVE  wire[(p + 1) + i] = data[i]
    <2>1. i + 1 \in 1..Len(<<n>> \o data) /\ p + (i + 1) = (p + 1) + i
      BY <1>1
    <2>2. wire[p + (i + 1)] = (<<n>> \o data)[i + 1]
      BY <2>1 DEF Holds
    <2>3. QED
      BY <1>2, <2>1, <2>2
  <1>6. QED
    BY <1>1, <1>3, <1>4, <1>5 DEF Holds

LEMMA OneWordMore ==
  \A p, w, cap, l \in Nat :
    l = w + 1 /\ 4 * (p + l) <= cap => 4 * (p + 1 + w) <= cap /\ p + l = p + 1 + w
  OBVIOUS

\* xdrDecodeString, and its form without padding.
LEMMA StringIsRead ==
  ASSUME NEW wire \in Seq(Nat), NEW p \in Nat, NEW cap \in Nat, NEW vals, NEW attrs,
         NEW n, NEW bytes \in Nat, NEW data \in Seq(Nat), Len(data) = Words(bytes),
         Holds(wire, p, <<bytes>> \o data), 4 * (p + 1 + Words(bytes)) <= cap,
         NEW padded \in BOOLEAN, padded \/ Aligned(bytes)
  PROVE  TakeString(wire, At(4 * p, cap, vals, attrs), n, padded)
           = At(4 * (p + 1 + Words(bytes)), cap, Append(vals, <<n, bytes, data>>), attrs)
  <1> DEFINE w == Words(bytes)
             h == At(4 * (p + 1), cap, vals, attrs)
             more == Append(vals, <<n, bytes, data>>)
  <1>1. w \in Nat /\ bytes <= 4 * w /\ (Aligned(bytes) => bytes = 4 * w)
    BY WordsOf DEF Aligned
  <1>2. WordAt(wire, 4 * p) = bytes /\ Holds(wire, p + 1, data)
    BY HoldsBehindLength
  <1>3. SkipBytes(At(4 * p, cap, vals, attrs), 4) = h
    <2>1. 4 * p + 4 = 4 * (p + 1) /\ 4 * p + 4 <= cap /\ 4 * p \in Nat
      BY <1>1
    <2>2. QED
      BY <2>1, SkipBytesReads
  <1>4. TakeBytes(wire, h, n, bytes) = At(4 * (p + 1) + bytes, cap, more, attrs)
    <2>1. p + 1 \in Nat /\ 4 * (p + 1) + bytes <= cap
      BY <1>1
    <2>2. QED
      BY <1>2, <2>1, TakeBytesReads
  <1>5. TakeString(wire, At(4 * p, cap, vals, attrs), n, padded)
          = IF padded THEN SkipPadding(At(4 * (p + 1) + bytes, cap, more, attrs), bytes)
                      ELSE At(4 * (p + 1) + bytes, cap, more, attrs)
    BY <1>2, <1>3, <1>4 DEF TakeString, At
  <1>6. CASE padded
    <2>1. p + 1 \in Nat /\ 4 * (p + 1) + bytes <= cap /\ 4 * ((p + 1) + w) <= cap
      BY <1>1
    <2>2. SkipPadding(At(4 * (p + 1) + bytes, cap, more, attrs), bytes)
            = At(4 * ((p + 1) + w), cap, more, attrs)
      BY <2>1, SkipPaddingReads
    <2>3. QED
      BY <1>5, <1>6, <2>2
  <1>7. CASE ~padded
    <2>1. Aligned(bytes)
      BY <1>7, Zenon
    <2>2. bytes = 4 * w
      BY <1>1, <2>1, Zenon
    <2>3. 4 * (p + 1) + 4 * w = 4 * (p + 1 + w)
      BY <1>1
    <2>4. QED
      BY <1>5, <1>7, <2>2, <2>3
  <1>8. QED
    BY <1>6, <1>7

\* The loops over a bitmap.
LEMMA BitsAreRead ==
  ASSUME NEW wire \in Seq(Nat), NEW p \in Nat, NEW cap \in Nat, NEW vals, NEW attrs,
         NEW n, NEW bytes \in Nat, NEW data \in Seq(Nat), Len(data) = Words(bytes),
         Aligned(bytes),
         Holds(wire, p, <<Words(bytes)>> \o data), 4 * (p + 1 + Words(bytes)) <= cap
  PROVE  TakeBits(wire, At(4 * p, cap, vals, attrs), n)
           = At(4 * (p + 1 + Words(bytes)), cap, Append(vals, <<n, bytes, data>>), attrs)
  <1>1. PICK w \in Nat : w = Words(bytes) /\ bytes = 4 * w /\ Len(data) = w
    BY WordsOf DEF Aligned
  <1> DEFINE h == At(4 * (p + 1), cap, vals, attrs)
  <1>2. WordAt(wire, 4 * p) = w /\ Holds(wire, p + 1, data)
    BY <1>1, HoldsBehindLength
  <1>3. SkipBytes(At(4 * p, cap, vals, attrs), 4) = h
    <2>1. 4 * p + 4 = 4 * (p + 1) /\ 4 * p + 4 <= cap /\ 4 * p \in Nat
      BY <1>1
    <2>2. QED
      BY <2>1, SkipBytesReads
  <1>4. TakeBytes(wire, h, n, bytes)
          = At(4 * (p + 1) + bytes, cap, Append(vals, <<n, bytes, data>>), attrs)
    <2>1. p + 1 \in Nat /\ 4 * (p + 1) + bytes <= cap
      <3>1. 4 * (p + 1 + w) <= cap
        BY <1>1
      <3>2. QED
        BY <1>1, <3>1
    <2>2. PICK q \in Nat : q = p + 1
      OBVIOUS
    <2>3. 4 * q + bytes <= cap /\ Holds(wire, q, data)
      BY <1>2, <2>1, <2>2, Zenon
    <2>4. TakeBytes(wire, At(4 * q, cap, vals, attrs), n, bytes)
            = At(4 * q + bytes, cap, Append(vals, <<n, bytes, data>>), attrs)
      BY <2>3, TakeBytesReads
    <2>5. QED
      BY <2>2, <2>4, Zenon
  <1>5. h.ok = TRUE /\ At(4 * p, cap, vals, attrs).pos = 4 * p
    BY DEF At
  <1>6. TakeBits(wire, At(4 * p, cap, vals, attrs), n) = TakeBytes(wire, h, n, bytes)
    BY <1>1, <1>2, <1>3, <1>5 DEF TakeBits
  <1>7. 4 * (p + 1) + bytes = 4 * (p + 1 + w)
    BY <1>1
  <1>8. 4 * (p + 1) + bytes = 4 * (p + 1 + Words(bytes))
    BY <1>1, <1>7, Zenon
  <1>9. QED
    BY ONLY <1>4, <1>6, <1>8

\* What is written for an item.
LEMMA EncodedWords ==
  ASSUME NEW item, NEW bytes \in Nat, NEW data \in Seq(Nat), Fits(item, bytes, data)
  PROVE  LET words == EncodeFlat(item, <<item.n, bytes, data>>)
         IN  /\ words \in Seq(Nat)
             /\ item.k = "fix" => words = data
             /\ item.k \in {"str", "raw"} => words = <<bytes>> \o data
             /\ item.k = "bits" => words = <<Len(data)>> \o data
  <1> DEFINE v == <<item.n, bytes, data>>
  <1>1. v[2] = bytes /\ v[3] = data
    OBVIOUS
  <1> HIDE DEF v
  <1>2. /\ item.k = "fix" => EncodeFlat(item, v) = data
        /\ item.k \in {"str", "raw"} => EncodeFlat(item, v) = <<bytes>> \o data
        /\ item.k = "bits" => EncodeFlat(item, v) = <<Len(data)>> \o data
    BY <1>1 DEF EncodeFlat
  <1>3. /\ data \in Seq(Nat) /\ <<bytes>> \o data \in Seq(Nat)
        /\ <<Len(data)>> \o data \in Seq(Nat)
    OBVIOUS
  <1>4. item.k \in {"fix", "str", "raw", "bits"}
    BY DEF Fits
  <1>5. EncodeFlat(item, v) \in Seq(Nat)
    BY <1>2, <1>3, <1>4, Zenon
  <1>6. QED
    BY <1>2, <1>5 DEF v

\* What is written for a flat item is what is read back, whatever comes before
\* and after it in the message.
THEOREM ItemIsReadBack ==
  ASSUME NEW wire \in Seq(Nat), NEW p \in Nat, NEW cap \in Nat, NEW vals, NEW attrs,
         NEW item, NEW bytes \in Nat, NEW data \in Seq(Nat), Fits(item, bytes, data),
         NEW words \in Seq(Nat), words = EncodeFlat(item, <<item.n, bytes, data>>),
         Holds(wire, p, words), 4 * (p + Len(words)) <= cap
  PROVE  ReadFlat(wire, At(4 * p, cap, vals, attrs), item)
           = At(4 * (p + Len(words)), cap, Append(vals, <<item.n, bytes, data>>), attrs)
  <1>1. PICK w \in Nat : /\ w = Words(bytes) /\ Len(data) = w /\ bytes <= 4 * w
                         /\ Aligned(bytes) => bytes = 4 * w
    BY WordsOf DEF Fits, Aligned
  <1> DEFINE r == At(4 * p, cap, vals, attrs)
             more == Append(vals, <<item.n, bytes, data>>)
  <1>2. CASE item.k = "fix"
    <2>1. words = data /\ item.bytes = bytes
      BY <1>2, EncodedWords DEF Fits
    <2>2. Holds(wire, p, data) /\ 4 * (p + w) <= cap /\ 4 * p + bytes <= cap
      BY <1>1, <2>1
    <2>3. TakeBytes(wire, r, item.n, bytes) = At(4 * p + bytes, cap, more, attrs)
      BY <1>1, <2>2, TakeBytesReads
    <2>4. SkipPadding(At(4 * p + bytes, cap, more, attrs), bytes)
            = At(4 * (p + Words(bytes)), cap, more, attrs)
      <3>1. 4 * p + bytes <= cap /\ 4 * (p + Words(bytes)) <= cap
        BY <1>1, <2>2
      <3>2. QED
        BY ONLY <3>1, p \in Nat, cap \in Nat, bytes \in Nat, SkipPaddingReads
    <2>5. ReadFlat(wire, r, item) = SkipPadding(TakeBytes(wire, r, item.n, bytes), bytes)
      BY <1>2, <2>1 DEF ReadFlat
    <2>6. QED
      BY <1>1, <2>1, <2>3, <2>4, <2>5
  <1>3. CASE item.k \in {"str", "raw"}
    <2>1. words = <<bytes>> \o data
      BY <1>3, EncodedWords
    <2>2. Holds(wire, p, <<bytes>> \o data)
      BY <2>1, Zenon
    <2>7. 4 * (p + 1 + w) <= cap /\ p + Len(words) = p + 1 + w
      <3>1. Len(<<bytes>> \o data) = Len(data) + 1
        OBVIOUS
      <3>2. PICK l \in Nat : l = Len(words) /\ l = w + 1 /\ 4 * (p + l) <= cap
        BY <1>1, <2>1, <3>1
      <3>3. 4 * (p + 1 + w) <= cap /\ p + l = p + 1 + w
        BY ONLY <3>2, p \in Nat, cap \in Nat, w \in Nat, l \in Nat, OneWordMore
      <3>4. QED
        BY <3>2, <3>3
    <2>3. PICK padded \in BOOLEAN : /\ padded = (item.k = "str")
                                    /\ padded \/ Aligned(bytes)
      <3>1. item.k = "str" \/ Aligned(bytes)
        BY <1>3 DEF Fits
      <3>2. QED
        BY <3>1, Zenon
    <2>4. ReadFlat(wire, r, item) = TakeString(wire, r, item.n, padded)
      BY <1>3, <2>3 DEF ReadFlat
    <2>5. TakeString(wire, r, item.n, padded) = At(4 * (p + 1 + Words(bytes)), cap, more, attrs)
      <3>1. Len(data) = Words(bytes) /\ 4 * (p + 1 + Words(bytes)) <= cap
        BY <1>1, <2>7
      <3>2. padded \/ Aligned(bytes)
        BY <2>3
      <3>3. QED
        BY <2>2, <3>1, <3>2, StringIsRead
    <2>6. QED
      BY <1>1, <2>4, <2>5, <2>7
  <1>4. CASE item.k = "bits"
    <2>1. words = <<Len(data)>> \o data /\ bytes = 4 * w
      BY <1>1, <1>4, EncodedWords DEF Fits
    <2>2. Holds(wire, p, <<Words(bytes)>> \o data)
      <3>1. Len(data) = Words(bytes)
        BY DEF Fits
      <3>2. QED
        BY <2>1, <3>1, Zenon
    <2>6. 4 * (p + 1 + w) <= cap /\ p + Len(words) = p + 1 + w
      <3>1. Len(<<Len(data)>> \o data) = Len(data) + 1
        OBVIOUS
      <3>2. PICK l \in Nat : l = Len(words) /\ l = w + 1 /\ 4 * (p + l) <= cap
        BY <1>1, <2>1, <3>1
      <3>3. 4 * (p + 1 + w) <= cap /\ p + l = p + 1 + w
        BY ONLY <3>2, p \in Nat, cap \in Nat, w \in Nat, l \in Nat, OneWordMore
      <3>4. QED
        BY <3>2, <3>3
    <2>3. ReadFlat(wire, r, item) = TakeBits(wire, r, item.n)
      BY <1>4 DEF ReadFlat
    <2>4. TakeBits(wire, r, item.n) = At(4 * (p + 1 + Words(bytes)), cap, more, attrs)
      <3>1. Len(data) = Words(bytes) /\ 4 * (p + 1 + Words(bytes)) <= cap
        BY <1>1, <2>6
      <3>2. Aligned(bytes)
        BY <1>4 DEF Fits
      <3>3. QED
        BY <2>2, <3>1, <3>2, BitsAreRead
    <2>5. QED
      BY <1>1, <2>3, <2>4, <2>6
  <1>5. QED
    BY <1>2, <1>3, <1>4 DEF Fits

-----------------------------------------------------------------------------
(* A message: the items of a layout, one after the other.                  *)

\* The words of the first i values.
Written(layout, vals) ==
  LET words[i \in 0..Len(layout)] ==
        IF i = 0 THEN << >> ELSE words[i - 1] \o EncodeFlat(layout[i], vals[i])
  IN  words
EncodeAll(layout, vals) == Written(layout, vals)[Len(layout)]

\* The values are values of the layout's items, in its order.
Carries(layout, vals) ==
  /\ Len(vals) = Len(layout)
  /\ \A i \in 1..Len(layout) : \E bytes \in Nat, data \in Seq(Nat) :
       Fits(layout[i], bytes, data) /\ vals[i] = <<layout[i].n, bytes, data>>

\* Written is the function its recursion describes.
LEMMA WrittenRecursion ==
  ASSUME NEW Items, NEW layout \in Seq(Items), NEW V, NEW vals \in Seq(V),
         Carries(layout, vals)
  PROVE  /\ Written(layout, vals) \in [0..Len(layout) -> Seq(Nat)]
         /\ Written(layout, vals)[0] = << >>
         /\ \A i \in 1..Len(layout) :
              /\ EncodeFlat(layout[i], vals[i]) \in Seq(Nat)
              /\ Written(layout, vals)[i]
                   = Written(layout, vals)[i - 1] \o EncodeFlat(layout[i], vals[i])
  <1> DEFINE N == Len(layout)
             E == [i \in 1..N |-> EncodeFlat(layout[i], vals[i])]
             step == [i \in 1..N |-> [x \in Seq(Nat) |-> x \o E[i]]]
             P(g) == g = [i \in 0..N |->
                            IF i = 0 THEN << >>
                            ELSE g[i - 1] \o EncodeFlat(layout[i], vals[i])]
  <1>1. N \in Nat
    OBVIOUS
  <1>2. \A i \in 1..N : EncodeFlat(layout[i], vals[i]) \in Seq(Nat)
    BY EncodedWords DEF Carries
  <1>3. E \in [1..N -> Seq(Nat)]
    BY <1>2
  <1>4. \A i \in 1..N : E[i] = EncodeFlat(layout[i], vals[i])
    OBVIOUS
  <1>5. Written(layout, vals) = CHOOSE g : P(g)
    BY DEF Written
  <1> HIDE DEF N, E
  <1>6. step \in [1..N -> [Seq(Nat) -> Seq(Nat)]]
    BY <1>1, <1>3
  <1>7. PICK f \in [0..N -> Seq(Nat)] : Steps(f, << >>, step, N)
    <2> HIDE DEF step
    <2>1. << >> \in Seq(Nat)
      OBVIOUS
    <2>2. QED
      BY <1>1, <1>6, <2>1, Recursion
  <1>8. ASSUME NEW i \in 0..N
        PROVE  (IF i = 0 THEN << >> ELSE step[i][f[i - 1]])
                 = (IF i = 0 THEN << >> ELSE f[i - 1] \o EncodeFlat(layout[i], vals[i]))
    <2>1. CASE i # 0
      <3>1. i \in 1..N /\ i - 1 \in 0..N
        BY <1>1, <2>1
      <3>2. f[i - 1] \in Seq(Nat)
        BY <3>1
      <3>3. step[i][f[i - 1]] = f[i - 1] \o E[i]
        BY <3>1, <3>2
      <3>4. QED
        BY <1>4, <2>1, <3>1, <3>3
    <2>2. QED
      BY <2>1
  <1> HIDE DEF step
  <1>9. P(f)
    BY <1>7, <1>8 DEF Steps
  <1> HIDE DEF P
  <1>10. P(CHOOSE g : P(g))
    BY <1>9
  <1> DEFINE W == Written(layout, vals)
  <1>11. P(W)
    BY <1>5, <1>10
  <1> HIDE DEF W
  <1>12. ASSUME NEW i \in 0..N
         PROVE  W[i] = IF i = 0 THEN << >> ELSE W[i - 1] \o EncodeFlat(layout[i], vals[i])
    BY <1>11 DEF P
  <1>13. W[0] = << >> /\ \A i \in 1..N : W[i] = W[i - 1] \o EncodeFlat(layout[i], vals[i])
    <2>1. 0 \in 0..N /\ \A i \in 1..N : i \in 0..N /\ i # 0
      BY <1>1
    <2>2. QED
      BY <1>12, <2>1
  <1> DEFINE T == {m \in 0..N : W[m] \in Seq(Nat)}
  <1>14. 0 \in T
    <2>1. << >> \in Seq(Nat) /\ 0 \in 0..N
      BY <1>1
    <2>2. QED
      BY ONLY <1>13, <2>1, Zenon
  <1>15. ASSUME NEW m \in 0..(N - 1), m \in T
         PROVE  m + 1 \in T
    <2>1. m + 1 \in 1..N /\ m + 1 \in 0..N /\ (m + 1) - 1 = m /\ W[m] \in Seq(Nat)
      BY <1>1, <1>15
    <2>2. W[m + 1] = W[m] \o EncodeFlat(layout[m + 1], vals[m + 1])
      BY <1>13, <2>1
    <2>3. EncodeFlat(layout[m + 1], vals[m + 1]) \in Seq(Nat)
      BY <1>2, <2>1
    <2>4. \A x, y \in Seq(Nat) : x \o y \in Seq(Nat)
      OBVIOUS
    <2>5. W[m + 1] \in Seq(Nat)
      BY ONLY <2>1, <2>2, <2>3, <2>4, Zenon
    <2>6. QED
      BY <2>1, <2>5
  <1>16. \A m \in 0..N : m \in T
    <2> HIDE DEF T
    <2>1. QED
      BY <1>1, <1>14, <1>15, SetInduction
  <1>17. \A m \in 0..N : W[m] \in Seq(Nat)
    BY <1>16
  <1>18. W \in [0..N -> Seq(Nat)]
    BY <1>11, <1>17 DEF P
  <1>19. QED
    BY <1>2, <1>13, <1>18 DEF W, N

\* A message that holds two sequences of words holds each in its place.
LEMMA HoldsBoth ==
  ASSUME NEW wire \in Seq(Nat), NEW p \in Nat, NEW x \in Seq(Nat), NEW y \in Seq(Nat),
         Holds(wire, p, x \o y)
  PROVE  /\ Len(x \o y) = Len(x) + Len(y)
         /\ Holds(wire, p, x) /\ Holds(wire, p + Len(x), y)
  <1>1. /\ Len(x) \in Nat /\ Len(y) \in Nat /\ Len(wire) \in Nat
        /\ Len(x \o y) = Len(x) + Len(y)
        /\ \A i \in 1..Len(x) : (x \o y)[i] = x[i]
        /\ \A i \in 1..Len(y) : (x \o y)[Len(x) + i] = y[i]
    OBVIOUS
  <1>2. /\ p + (Len(x) + Len(y)) <= Len(wire)
        /\ \A i \in 1..(Len(x) + Len(y)) : wire[p + i] = (x \o y)[i]
    BY <1>1 DEF Holds
  <1>3. ASSUME NEW i \in 1..Len(x)
        PROVE  wire[p + i] = x[i]
    <2>1. i \in 1..(Len(x) + Len(y))
      BY <1>1
    <2>2. QED
      BY <1>1, <1>2, <2>1
  <1>4. ASSUME NEW i \in 1..Len(y)
        PROVE  wire[(p + Len(x)) + i] = y[i]
    <2>1. Len(x) + i \in 1..(Len(x) + Len(y)) /\ p + (Len(x) + i) = (p + Len(x)) + i
      BY <1>1
    <2>2. QED
      BY <1>1, <1>2, <2>1
  <1>5. p + Len(x) <= Len(wire) /\ (p + Len(x)) + Len(y) <= Len(wire)
    BY <1>1, <1>2
  <1>6. QED
    BY <1>1, <1>3, <1>4, <1>5 DEF Holds

\* Where the words of each item are in the message.
LEMMA ItemsAreThere ==
  ASSUME NEW Items, NEW layout \in Seq(Items), NEW V, NEW vals \in Seq(V),
         Carries(layout, vals), NEW wire \in Seq(Nat), NEW p \in Nat,
         Holds(wire, p, EncodeAll(layout, vals))
  PROVE  LET W == Written(layout, vals)
             e(i) == EncodeFlat(layout[i], vals[i])
         IN  \A i \in 1..Len(layout) :
               /\ Len(W[i]) = Len(W[i - 1]) + Len(e(i))
               /\ Holds(wire, p + Len(W[i - 1]), e(i))
               /\ Len(W[i]) <= Len(EncodeAll(layout, vals))
  <1> DEFINE N == Len(layout)
             W == Written(layout, vals)
             e(i) == EncodeFlat(layout[i], vals[i])
             T == {m \in 0..N : Holds(wire, p, W[N - m]) /\ Len(W[N - m]) <= Len(W[N])}
  <1>1. /\ N \in Nat /\ W \in [0..N -> Seq(Nat)]
        /\ \A i \in 1..N : e(i) \in Seq(Nat) /\ W[i] = W[i - 1] \o e(i)
    <2>1. /\ Written(layout, vals) \in [0..Len(layout) -> Seq(Nat)]
          /\ \A i \in 1..Len(layout) :
               /\ EncodeFlat(layout[i], vals[i]) \in Seq(Nat)
               /\ Written(layout, vals)[i]
                    = Written(layout, vals)[i - 1] \o EncodeFlat(layout[i], vals[i])
      BY WrittenRecursion
    <2>2. N \in Nat
      OBVIOUS
    <2>3. QED
      BY <2>1, <2>2
  <1>2. EncodeAll(layout, vals) = W[N]
    BY DEF EncodeAll
  <1> HIDE DEF N, W, e
  <1>3. \A i \in 0..N : W[i] \in Seq(Nat) /\ Len(W[i]) \in Nat
    BY <1>1
  <1>4. ASSUME NEW i \in 1..N, Holds(wire, p, W[i])
        PROVE  /\ Len(W[i]) = Len(W[i - 1]) + Len(e(i))
               /\ Holds(wire, p, W[i - 1]) /\ Holds(wire, p + Len(W[i - 1]), e(i))
    <2>1. i - 1 \in 0..N
      BY <1>1
    <2>2. W[i - 1] \in Seq(Nat) /\ e(i) \in Seq(Nat) /\ W[i] = W[i - 1] \o e(i)
      BY <1>1, <1>3, <2>1
    <2>3. Holds(wire, p, W[i - 1] \o e(i))
      BY <1>4, <2>2, Zenon
    <2>4. PICK x \in Seq(Nat), y \in Seq(Nat) : x = W[i - 1] /\ y = e(i)
      BY <2>2
    <2>5. Holds(wire, p, x \o y) /\ W[i] = x \o y
      BY <2>2, <2>3, <2>4, Zenon
    <2>6. /\ Len(x \o y) = Len(x) + Len(y)
          /\ Holds(wire, p, x) /\ Holds(wire, p + Len(x), y)
      BY <2>5, HoldsBoth
    <2>7. QED
      BY <2>4, <2>5, <2>6, Zenon
  <1>5. 0 \in T
    <2>1. N - 0 = N /\ 0 \in 0..N
      BY <1>1
    <2>2. Len(W[N]) \in Nat /\ Holds(wire, p, W[N])
      BY <1>1, <1>2, <1>3
    <2>3. QED
      BY <2>1, <2>2
  <1>6. ASSUME NEW m \in 0..(N - 1), m \in T
        PROVE  m + 1 \in T
    <2>1. PICK i \in 1..N : i = N - m /\ i - 1 = N - (m + 1)
      BY <1>1
    <2>2. Holds(wire, p, W[i]) /\ Len(W[i]) <= Len(W[N])
      BY <1>6, <2>1
    <2>3. Len(W[i]) = Len(W[i - 1]) + Len(e(i)) /\ Holds(wire, p, W[i - 1])
      BY <1>4, <2>2
    <2>4. Len(W[i - 1]) \in Nat /\ Len(e(i)) \in Nat /\ Len(W[N]) \in Nat
      <3>1. i - 1 \in 0..N /\ N \in 0..N
        BY <1>1
      <3>2. QED
        BY <1>1, <1>3, <3>1
    <2>5. Len(W[i - 1]) <= Len(W[N])
      BY <2>2, <2>3, <2>4
    <2>6. m + 1 \in 0..N
      BY <1>1
    <2>7. QED
      BY <2>1, <2>3, <2>5, <2>6
  <1>7. \A m \in 0..N : m \in T
    <2> HIDE DEF T
    <2>1. QED
      BY <1>1, <1>5, <1>6, SetInduction
  <1>8. ASSUME NEW i \in 1..N
        PROVE  /\ Len(W[i]) = Len(W[i - 1]) + Len(e(i))
               /\ Holds(wire, p + Len(W[i - 1]), e(i))
               /\ Len(W[i]) <= Len(W[N])
    <2>1. PICK m \in 0..N : i = N - m
      <3>1. N - i \in 0..N /\ i = N - (N - i)
        BY <1>1
      <3>2. QED
        BY <3>1
    <2>2. Holds(wire, p, W[i]) /\ Len(W[i]) <= Len(W[N])
      BY <1>7, <2>1
    <2>3. QED
      BY <1>4, <2>2
  <1>9. QED
    BY <1>2, <1>8 DEF N, W, e

\* The first values of a sequence, one more at a time.
LEMMA FirstValues ==
  ASSUME NEW V, NEW vals \in Seq(V), NEW i \in 1..Len(vals)
  PROVE  Append([j \in 1..(i - 1) |-> vals[j]], vals[i]) = [j \in 1..i |-> vals[j]]
  <1> DEFINE x == [j \in 1..(i - 1) |-> vals[j]]
             y == [j \in 1..i |-> vals[j]]
  <1>1. i \in Nat /\ i - 1 \in Nat /\ \A j \in 1..i : vals[j] \in V
    OBVIOUS
  <1>2. \A j \in 1..(i - 1) : j \in 1..i
    OBVIOUS
  <1>3. x \in Seq(V) /\ Len(x) = i - 1 /\ y \in Seq(V) /\ Len(y) = i /\ vals[i] \in V
    BY <1>1, <1>2
  <1>4. \A j \in 1..(i - 1) : x[j] = vals[j]
    OBVIOUS
  <1>5. \A j \in 1..i : y[j] = vals[j]
    OBVIOUS
  <1> HIDE DEF x, y
  <1>6. Append(x, vals[i]) \in Seq(V) /\ Len(Append(x, vals[i])) = i
    BY <1>1, <1>3
  <1>7. ASSUME NEW j \in 1..i
        PROVE  Append(x, vals[i])[j] = y[j]
    <2>1. CASE j = i
      BY <1>1, <1>3, <1>5, <2>1
    <2>2. CASE j # i
      <3>1. j \in 1..(i - 1)
        BY <1>1, <2>2
      <3>2. QED
        BY <1>3, <1>4, <1>5, <3>1
    <2>3. QED
      BY <2>1, <2>2
  <1>8. Append(x, vals[i]) = y
    <2>1. PICK z \in Seq(V) : /\ z = Append(x, vals[i]) /\ Len(z) = Len(y)
                            /\ \A j \in 1..Len(z) : z[j] = y[j]
      BY <1>3, <1>6, <1>7
    <2>2. z = y
      BY <1>3, <2>1, SeqEqual
    <2>3. QED
      BY <2>1, <2>2
  <1>9. QED
    BY <1>8 DEF x, y

\* The same, for the value as a whole.
LEMMA ValueIsReadBack ==
  ASSUME NEW wire \in Seq(Nat), NEW p \in Nat, NEW cap \in Nat, NEW vals, NEW attrs,
         NEW item, NEW v,
         \E bytes \in Nat, data \in Seq(Nat) :
           Fits(item, bytes, data) /\ v = <<item.n, bytes, data>>,
         NEW words \in Seq(Nat), words = EncodeFlat(item, v),
         Holds(wire, p, words), 4 * (p + Len(words)) <= cap
  PROVE  ReadFlat(wire, At(4 * p, cap, vals, attrs), item)
           = At(4 * (p + Len(words)), cap, Append(vals, v), attrs)
  <1>1. PICK bytes \in Nat, data \in Seq(Nat) :
          Fits(item, bytes, data) /\ v = <<item.n, bytes, data>>
    OBVIOUS
  <1>2. words = EncodeFlat(item, <<item.n, bytes, data>>)
    BY <1>1
  <1>3. ReadFlat(wire, At(4 * p, cap, vals, attrs), item)
          = At(4 * (p + Len(words)), cap, Append(vals, <<item.n, bytes, data>>), attrs)
    BY <1>1, <1>2, ItemIsReadBack
  <1>4. QED
    BY <1>1, <1>3

\* The values written for a layout are the values read back, in the layout's order,
\* and the reader ends behind the last of their words.
THEOREM LayoutIsReadBack ==
  ASSUME NEW Items, NEW layout \in Seq(Items), NEW V, NEW vals \in Seq(V),
         Carries(layout, vals),
         NEW wire \in Seq(Nat), NEW p \in Nat, NEW cap \in Nat, NEW attrs,
         Holds(wire, p, EncodeAll(layout, vals)),
         4 * (p + Len(EncodeAll(layout, vals))) <= cap
  PROVE  ReadAll(layout, wire, At(4 * p, cap, << >>, attrs))
           = At(4 * (p + Len(EncodeAll(layout, vals))), cap, vals, attrs)
  <1> DEFINE N == Len(layout)
             W == Written(layout, vals)
             first(i) == [j \in 1..i |-> vals[j]]
             want(i) == At(4 * (p + Len(W[i])), cap, first(i), attrs)
             r == At(4 * p, cap, << >>, attrs)
             P(g) == g = [i \in 0..N |->
                            IF i = 0 THEN r
                            ELSE LET before == g[i - 1]
                                 IN  IF before.ok THEN ReadFlat(wire, before, layout[i])
                                     ELSE before]
             R == CHOOSE g : P(g)
  <1>1. N \in Nat /\ Len(vals) = N
    BY DEF Carries
  <1>2. ReadAll(layout, wire, r) = R[N]
    BY DEF ReadAll
  <1>3. EncodeAll(layout, vals) = W[N]
    BY DEF EncodeAll
  <1>4. W[0] = << >> /\ \A i \in 0..N : W[i] \in Seq(Nat)
    BY WrittenRecursion
  <1>5. ASSUME NEW i \in 1..N
        PROVE  ReadFlat(wire, want(i - 1), layout[i]) = want(i)
    <2> DEFINE e == EncodeFlat(layout[i], vals[i])
    <2>1. e \in Seq(Nat)
      BY WrittenRecursion
    <2>2. /\ Len(W[i]) = Len(W[i - 1]) + Len(e)
          /\ Holds(wire, p + Len(W[i - 1]), e)
          /\ Len(W[i]) <= Len(EncodeAll(layout, vals))
      BY ItemsAreThere
    <2>3. \E bytes \in Nat, data \in Seq(Nat) :
            Fits(layout[i], bytes, data) /\ vals[i] = <<layout[i].n, bytes, data>>
      BY DEF Carries
    <2>4. Append(first(i - 1), vals[i]) = first(i)
      BY <1>1, FirstValues
    <2> HIDE DEF N, W, first, e
    <2>5. PICK a \in Nat, b \in Nat, c \in Nat :
            /\ a = Len(W[i - 1]) /\ b = Len(e) /\ c = Len(EncodeAll(layout, vals))
            /\ Len(W[i]) = a + b /\ a + b <= c /\ 4 * (p + c) <= cap
      <3>1. i - 1 \in 0..N /\ N \in 0..N
        BY <1>1
      <3>2. Len(W[i - 1]) \in Nat /\ Len(e) \in Nat /\ Len(EncodeAll(layout, vals)) \in Nat
        BY <1>3, <1>4, <2>1, <3>1
      <3>3. QED
        BY <2>2, <3>2
    <2>6. PICK q \in Nat : q = p + a /\ q + b = p + (a + b) /\ 4 * (q + b) <= cap
      <3>1. p + a \in Nat /\ (p + a) + b = p + (a + b) /\ 4 * ((p + a) + b) <= cap
        BY ONLY <2>5, p \in Nat, cap \in Nat, a \in Nat, b \in Nat, c \in Nat
      <3>2. QED
        BY ONLY <3>1
    <2>7. Holds(wire, q, e) /\ 4 * (q + Len(e)) <= cap
      BY ONLY <2>2, <2>5, <2>6
    <2>8. ReadFlat(wire, At(4 * q, cap, first(i - 1), attrs), layout[i])
            = At(4 * (q + Len(e)), cap, Append(first(i - 1), vals[i]), attrs)
      <3>1. e = EncodeFlat(layout[i], vals[i])
        BY DEF e
      <3>2. PICK item, v, x, words :
              /\ item = layout[i] /\ v = vals[i] /\ x = first(i - 1) /\ words = e
              /\ words \in Seq(Nat)
        BY <2>1
      <3>3. \E bytes \in Nat, data \in Seq(Nat) :
              Fits(item, bytes, data) /\ v = <<item.n, bytes, data>>
        BY <2>3, <3>2
      <3>4. words = EncodeFlat(item, v) /\ Holds(wire, q, words) /\ 4 * (q + Len(words)) <= cap
        BY <2>7, <3>1, <3>2
      <3>5. ReadFlat(wire, At(4 * q, cap, x, attrs), item)
              = At(4 * (q + Len(words)), cap, Append(x, v), attrs)
        BY ONLY wire \in Seq(Nat), q \in Nat, cap \in Nat, <3>2, <3>3, <3>4, ValueIsReadBack
      <3>6. QED
        BY ONLY <3>2, <3>5
    <2>9. want(i - 1) = At(4 * q, cap, first(i - 1), attrs)
      BY ONLY <2>5, <2>6
    <2>10. want(i) = At(4 * (q + Len(e)), cap, first(i), attrs)
      BY ONLY <2>5, <2>6
    <2>11. QED
      BY ONLY <2>4, <2>8, <2>9, <2>10
  <1>6. want(0) = r
    <2>1. first(0) = << >> /\ Len(W[0]) = 0 /\ 4 * (p + 0) = 4 * p
      BY <1>4
    <2>2. QED
      BY <2>1
  <1>7. \A i \in 0..N : want(i).ok = TRUE
    BY DEF At
  <1>8. want(N) = At(4 * (p + Len(EncodeAll(layout, vals))), cap, vals, attrs)
    <2>1. first(N) = vals
      BY <1>1
    <2>2. QED
      BY <1>3, <2>1
  <1> HIDE DEF N, W, first, want, r
  <1>9. P([i \in 0..N |-> want(i)])
    <2> DEFINE g == [i \in 0..N |-> want(i)]
    <2>1. ASSUME NEW i \in 0..N
          PROVE  want(i) = IF i = 0 THEN r
                           ELSE LET before == g[i - 1]
                                IN  IF before.ok THEN ReadFlat(wire, before, layout[i])
                                    ELSE before
      <3>1. CASE i = 0
        BY <1>6, <3>1
      <3>2. CASE i # 0
        <4>1. i \in 1..N /\ i - 1 \in 0..N
          BY <1>1, <3>2
        <4>2. g[i - 1] = want(i - 1) /\ want(i - 1).ok = TRUE
          BY <1>7, <4>1
        <4>3. ReadFlat(wire, want(i - 1), layout[i]) = want(i)
          BY <1>5, <4>1
        <4>4. QED
          BY ONLY <3>2, <4>2, <4>3
      <3>3. QED
        BY <3>1, <3>2
    <2>2. QED
      BY <2>1
  <1> HIDE DEF P
  <1>10. P(R)
    BY <1>9
  <1> HIDE DEF R
  <1>11. ASSUME NEW i \in 0..N
         PROVE  R[i] = IF i = 0 THEN r
                       ELSE LET before == R[i - 1]
                            IN  IF before.ok THEN ReadFlat(wire, before, layout[i])
                                ELSE before
    BY <1>10 DEF P
  <1> DEFINE T == {m \in 0..N : R[m] = want(m)}
  <1>12. 0 \in T
    <2>1. 0 \in 0..N
      BY <1>1
    <2>2. R[0] = r
      BY <1>11, <2>1
    <2>3. QED
      BY <1>6, <2>1, <2>2
  <1>13. ASSUME NEW m \in 0..(N - 1), m \in T
         PROVE  m + 1 \in T
    <2>1. m + 1 \in 1..N /\ m + 1 \in 0..N /\ (m + 1) - 1 = m /\ m \in 0..N /\ m + 1 # 0
      BY <1>1
    <2>2. R[m] = want(m) /\ R[m].ok = TRUE
      BY <1>7, <1>13, <2>1
    <2>3. ReadFlat(wire, want(m), layout[m + 1]) = want(m + 1)
      BY <1>5, <2>1
    <2>4. R[m + 1] = IF R[m].ok THEN ReadFlat(wire, R[m], layout[m + 1]) ELSE R[m]
      BY <1>11, <2>1
    <2>5. R[m + 1] = want(m + 1)
      BY ONLY <2>2, <2>3, <2>4
    <2>6. QED
      BY <2>1, <2>5
  <1>14. R[N] = want(N)
    <2>1. \A m \in 0..N : m \in T
      <3> HIDE DEF T
      <3>1. QED
        BY <1>1, <1>12, <1>13, SetInduction
    <2>2. N \in 0..N
      BY <1>1
    <2>3. QED
      BY <2>1, <2>2
  <1>15. QED
    BY <1>2, <1>8, <1>14 DEF r

-----------------------------------------------------------------------------
(* The header of a call.                                                   *)

\* A 32-bit number that is read.
num(n, w) == <<n, 4, <<w>>>>
\* What the server reads of the header the client writes.
header_values(xid, proc) ==
  <<num("xid", xid), num("call", RPC_CALL), num("rpcvers", 2), num("prog", proc.prog),
    num("vers", proc.vers), num("proc", proc.proc), num("cred.flavor", AUTHTYPE_UNIX),
    <<"cred.body", 4 * Len(defaultUnixAuth), defaultUnixAuth>>,
    num("verf.flavor", AUTHTYPE_NULL), <<"verf.body", 0, << >>>>>>

\* A number and a string, written and read as items of the header.
LEMMA Numbers ==
  ASSUME NEW n, NEW w \in Nat
  PROVE  /\ Fits(U32(n), 4, <<w>>) /\ num(n, w) = <<U32(n).n, 4, <<w>>>>
         /\ EncodeFlat(U32(n), num(n, w)) = <<w>>
  <1>1. U32(n).k = "fix" /\ U32(n).n = n /\ U32(n).bytes = 4
    BY DEF U32, Fix
  <1>2. Words(4) = 1 /\ <<w>> \in Seq(Nat) /\ Len(<<w>>) = 1 /\ 4 \in Nat
    BY DEF Words
  <1>3. Fits(U32(n), 4, <<w>>)
    BY <1>1, <1>2 DEF Fits
  <1>4. num(n, w)[3] = <<w>>
    BY DEF num
  <1>5. EncodeFlat(U32(n), num(n, w)) = <<w>>
    BY <1>1, <1>4 DEF EncodeFlat
  <1>6. QED
    BY <1>1, <1>3, <1>5 DEF num

LEMMA Strings ==
  ASSUME NEW n, NEW bytes \in Nat, NEW data \in Seq(Nat), Len(data) = Words(bytes)
  PROVE  /\ Fits(Str(n), bytes, data) /\ Str(n).n = n
         /\ EncodeFlat(Str(n), <<n, bytes, data>>) = <<bytes>> \o data
  <1>1. Str(n).k = "str" /\ Str(n).n = n
    BY DEF Str
  <1>2. Fits(Str(n), bytes, data)
    BY <1>1 DEF Fits
  <1>3. QED
    BY <1>1, <1>2, EncodedWords

\* The header's layout and values are sequences of something.
LEMMA HeaderSequences ==
  ASSUME NEW xid, NEW proc
  PROVE  /\ \E Items : call_header \in Seq(Items)
         /\ \E V : header_values(xid, proc) \in Seq(V)
  <1>1. ASSUME NEW a, NEW b, NEW c, NEW d, NEW e, NEW f, NEW g, NEW h, NEW i, NEW j
        PROVE  \E S : <<a, b, c, d, e, f, g, h, i, j>> \in Seq(S)
    <2>1. <<a, b, c, d, e, f, g, h, i, j>> \in Seq({a, b, c, d, e, f, g, h, i, j})
      OBVIOUS
    <2>2. QED
      BY <2>1
  <1>2. QED
    BY <1>1 DEF call_header, header_values

\* The values of the header are values of its layout.
LEMMA HeaderCarries ==
  ASSUME NEW xid \in Nat, NEW proc, proc.prog \in Nat, proc.vers \in Nat, proc.proc \in Nat
  PROVE  Carries(call_header, header_values(xid, proc))
  <1> DEFINE v == header_values(xid, proc)
  <1>1. Len(call_header) = 10 /\ Len(v) = 10
    BY DEF call_header, header_values
  <1>2. /\ call_header[1] = U32("xid") /\ call_header[2] = U32("call")
        /\ call_header[3] = U32("rpcvers") /\ call_header[4] = U32("prog")
        /\ call_header[5] = U32("vers") /\ call_header[6] = U32("proc")
        /\ call_header[7] = U32("cred.flavor") /\ call_header[8] = Str("cred.body")
        /\ call_header[9] = U32("verf.flavor") /\ call_header[10] = Str("verf.body")
    BY DEF call_header
  <1>3. /\ v[1] = num("xid", xid) /\ v[2] = num("call", RPC_CALL)
        /\ v[3] = num("rpcvers", 2) /\ v[4] = num("prog", proc.prog)
        /\ v[5] = num("vers", proc.vers) /\ v[6] = num("proc", proc.proc)
        /\ v[7] = num("cred.flavor", AUTHTYPE_UNIX)
        /\ v[8] = <<"cred.body", 4 * Len(defaultUnixAuth), defaultUnixAuth>>
        /\ v[9] = num("verf.flavor", AUTHTYPE_NULL) /\ v[10] = <<"verf.body", 0, << >>>>
    BY DEF header_values
  <1> DEFINE Good(item, u) == \E bytes \in Nat, data \in Seq(Nat) :
               Fits(item, bytes, data) /\ u = <<item.n, bytes, data>>
  <1>4. ASSUME NEW n, NEW w \in Nat
        PROVE  Good(U32(n), num(n, w))
    <2>1. <<w>> \in Seq(Nat) /\ 4 \in Nat
      OBVIOUS
    <2>2. QED
      BY <2>1, Numbers
  <1>5. ASSUME NEW n, NEW bytes \in Nat, NEW data \in Seq(Nat), Len(data) = Words(bytes)
        PROVE  Good(Str(n), <<n, bytes, data>>)
    <2>1. Fits(Str(n), bytes, data) /\ Str(n).n = n
      BY <1>5, Strings
    <2>2. <<n, bytes, data>> = <<Str(n).n, bytes, data>>
      BY <2>1
    <2>3. QED
      BY <2>1, <2>2
  <1>6. /\ RPC_CALL \in Nat /\ 2 \in Nat /\ AUTHTYPE_UNIX \in Nat /\ AUTHTYPE_NULL \in Nat
        /\ defaultUnixAuth \in Seq(Nat) /\ Len(defaultUnixAuth) = 6
        /\ 4 * Len(defaultUnixAuth) \in Nat
        /\ Words(4 * Len(defaultUnixAuth)) = Len(defaultUnixAuth)
        /\ << >> \in Seq(Nat) /\ Len(<< >>) = Words(0)
    BY DEF RPC_CALL, AUTHTYPE_UNIX, AUTHTYPE_NULL, defaultUnixAuth, Junk, Words
  <1>7. /\ Good(U32("xid"), num("xid", xid)) /\ Good(U32("call"), num("call", RPC_CALL))
        /\ Good(U32("rpcvers"), num("rpcvers", 2))
        /\ Good(U32("prog"), num("prog", proc.prog))
        /\ Good(U32("vers"), num("vers", proc.vers))
        /\ Good(U32("proc"), num("proc", proc.proc))
        /\ Good(U32("cred.flavor"), num("cred.flavor", AUTHTYPE_UNIX))
        /\ Good(U32("verf.flavor"), num("verf.flavor", AUTHTYPE_NULL))
    <2> HIDE DEF Good
    <2>1. QED
      BY <1>4, <1>6
  <1>8. /\ Good(Str("cred.body"), <<"cred.body", 4 * Len(defaultUnixAuth), defaultUnixAuth>>)
        /\ Good(Str("verf.body"), <<"verf.body", 0, << >>>>)
    <2> HIDE DEF Good
    <2>1. QED
      BY <1>5, <1>6
  <1> HIDE DEF Good, v
  <1>9. ASSUME NEW i \in 1..10
        PROVE  Good(call_header[i], v[i])
    <2>1. \/ i = 1 \/ i = 2 \/ i = 3 \/ i = 4 \/ i = 5
          \/ i = 6 \/ i = 7 \/ i = 8 \/ i = 9 \/ i = 10
      BY ONLY i \in 1..10
    <2>2. CASE i \in {1, 2, 3, 4}
      BY ONLY <1>2, <1>3, <1>7, <2>2
    <2>3. CASE i \in {5, 6, 7}
      BY ONLY <1>2, <1>3, <1>7, <2>3
    <2>4. CASE i \in {8, 9, 10}
      BY ONLY <1>2, <1>3, <1>7, <1>8, <2>4
    <2>5. QED
      BY <2>1, <2>2, <2>3, <2>4
  <1>10. QED
    BY <1>1, <1>9 DEF Carries, Good, v

LEMMA WordsAssociate ==
  \A s, t, u \in Seq(Nat) : (s \o t) \o u = s \o (t \o u)
  <1> DEFINE S == Nat
  <1> HIDE DEF S
  <1>1. \A s, t, u \in Seq(S) : (s \o t) \o u = s \o (t \o u)
    BY ConcatAssociative
  <1>2. QED
    BY <1>1 DEF S

LEMMA WordsAreNumbers ==
  \A s \in Seq(Nat) : \A j \in 1..Len(s) : s[j] \in Nat
  OBVIOUS

LEMMA TwoWords ==
  ASSUME NEW a \in Nat, NEW b \in Nat
  PROVE  <<a>> \o <<b>> = <<a, b>>
  <1> DEFINE x == <<a>>
             y == <<b>>
             z == <<a, b>>
  <1>1. x \in Seq(Nat) /\ y \in Seq(Nat) /\ Len(x) = 1 /\ Len(y) = 1 /\ x[1] = a /\ y[1] = b
    OBVIOUS
  <1>2. z \in Seq(Nat) /\ Len(z) = 2 /\ z[1] = a /\ z[2] = b
    OBVIOUS
  <1> HIDE DEF x, y, z
  <1>3. /\ x \o y \in Seq(Nat) /\ Len(x \o y) = Len(x) + Len(y)
        /\ \A i \in 1..(Len(x) + Len(y)) :
             (x \o y)[i] = IF i <= Len(x) THEN x[i] ELSE y[i - Len(x)]
    BY <1>1, ConcatProperties
  <1>4. Len(x \o y) = 2 /\ (x \o y)[1] = a /\ (x \o y)[2] = b
    <2>1. Len(x) + Len(y) = 2 /\ 1 \in 1..2 /\ 2 \in 1..2 /\ 2 - 1 = 1 /\ 1 <= 1 /\ ~(2 <= 1)
      BY <1>1
    <2>2. QED
      BY <1>1, <1>3, <2>1
  <1>5. \A i \in 1..2 : (x \o y)[i] = z[i]
    BY <1>2, <1>4
  <1>6. x \o y = z
    BY <1>2, <1>3, <1>4, <1>5, SeqEqual
  <1>7. QED
    BY <1>6 DEF x, y, z

\* The first words of a sequence, one more at a time.
LEMMA OneMoreWord ==
  ASSUME NEW head \in Seq(Nat), NEW i \in 1..Len(head)
  PROVE  [j \in 1..(i - 1) |-> head[j]] \o <<head[i]>> = [j \in 1..i |-> head[j]]
  <1> DEFINE x == [j \in 1..(i - 1) |-> head[j]]
  <1>1. \A j \in 1..(i - 1) : j \in 1..Len(head)
    OBVIOUS
  <1>2. x \in Seq(Nat) /\ head[i] \in Nat
    BY <1>1
  <1>3. Append(x, head[i]) = [j \in 1..i |-> head[j]]
    BY FirstValues
  <1> HIDE DEF x
  <1>4. Append(x, head[i]) = x \o <<head[i]>>
    BY <1>2, AppendIsConcat
  <1>5. QED
    BY <1>3, <1>4 DEF x

\* encodeHeader writes the words of those values.
LEMMA HeaderWords ==
  ASSUME NEW xid \in Nat, NEW proc, proc.prog \in Nat, proc.vers \in Nat, proc.proc \in Nat
  PROVE  EncodeAll(call_header, header_values(xid, proc)) = encodeHeader(xid, proc)
  <1> DEFINE v == header_values(xid, proc)
             W == Written(call_header, v)
             e(i) == EncodeFlat(call_header[i], v[i])
             auth == defaultUnixAuth
             head == <<xid, RPC_CALL, 2, proc.prog, proc.vers, proc.proc, AUTHTYPE_UNIX,
                       4 * Len(auth)>>
             first(i) == [j \in 1..i |-> head[j]]
  <1>1. Len(call_header) = 10
    BY DEF call_header
  <1>2. EncodeAll(call_header, v) = W[10]
    BY <1>1 DEF EncodeAll
  <1>3. W[0] = << >> /\ \A i \in 1..10 : W[i] = W[i - 1] \o e(i)
    <2>1. PICK Items : call_header \in Seq(Items)
      BY HeaderSequences
    <2>2. PICK V : v \in Seq(V)
      BY HeaderSequences
    <2>3. Carries(call_header, v)
      BY HeaderCarries
    <2> HIDE DEF v
    <2>4. /\ Written(call_header, v)[0] = << >>
          /\ \A i \in 1..Len(call_header) :
               Written(call_header, v)[i]
                 = Written(call_header, v)[i - 1] \o EncodeFlat(call_header[i], v[i])
      BY <2>1, <2>2, <2>3, WrittenRecursion
    <2>5. QED
      BY <1>1, <2>4
  <1>4. /\ RPC_CALL \in Nat /\ AUTHTYPE_UNIX \in Nat /\ AUTHTYPE_NULL \in Nat
        /\ auth \in Seq(Nat) /\ 4 * Len(auth) \in Nat
        /\ Words(4 * Len(auth)) = Len(auth)
        /\ << >> \in Seq(Nat) /\ Len(<< >>) = Words(0)
    BY DEF RPC_CALL, AUTHTYPE_UNIX, AUTHTYPE_NULL, defaultUnixAuth, Junk, Words
  <1>5. /\ \A i \in 1..7 : e(i) = <<head[i]>>
        /\ e(8) = <<head[8]>> \o auth /\ e(9) = <<AUTHTYPE_NULL>> /\ e(10) = <<0>> \o << >>
    <2>1. /\ call_header[1] = U32("xid") /\ call_header[2] = U32("call")
          /\ call_header[3] = U32("rpcvers") /\ call_header[4] = U32("prog")
          /\ call_header[5] = U32("vers") /\ call_header[6] = U32("proc")
          /\ call_header[7] = U32("cred.flavor") /\ call_header[8] = Str("cred.body")
          /\ call_header[9] = U32("verf.flavor") /\ call_header[10] = Str("verf.body")
      BY DEF call_header
    <2>2. /\ v[1] = num("xid", xid) /\ v[2] = num("call", RPC_CALL)
          /\ v[3] = num("rpcvers", 2) /\ v[4] = num("prog", proc.prog)
          /\ v[5] = num("vers", proc.vers) /\ v[6] = num("proc", proc.proc)
          /\ v[7] = num("cred.flavor", AUTHTYPE_UNIX)
          /\ v[8] = <<"cred.body", 4 * Len(auth), auth>>
          /\ v[9] = num("verf.flavor", AUTHTYPE_NULL) /\ v[10] = <<"verf.body", 0, << >>>>
      BY DEF header_values
    <2>3. /\ head[1] = xid /\ head[2] = RPC_CALL /\ head[3] = 2 /\ head[4] = proc.prog
          /\ head[5] = proc.vers /\ head[6] = proc.proc /\ head[7] = AUTHTYPE_UNIX
          /\ head[8] = 4 * Len(auth)
      OBVIOUS
    <2>4. \A n : \A w \in Nat : EncodeFlat(U32(n), num(n, w)) = <<w>>
      BY Numbers
    <2>5. EncodeFlat(Str("cred.body"), <<"cred.body", 4 * Len(auth), auth>>)
            = <<4 * Len(auth)>> \o auth
      BY <1>4, Strings
    <2>6. EncodeFlat(Str("verf.body"), <<"verf.body", 0, << >>>>) = <<0>> \o << >>
      BY <1>4, Strings
    <2>7. \A i \in 1..7 : i = 1 \/ i = 2 \/ i = 3 \/ i = 4 \/ i = 5 \/ i = 6 \/ i = 7
      OBVIOUS
    <2> HIDE DEF v, head, auth
    <2>8. 2 \in Nat /\ xid \in Nat /\ proc.prog \in Nat /\ proc.vers \in Nat /\ proc.proc \in Nat
      OBVIOUS
    <2>9. \A i \in 1..7 : e(i) = <<head[i]>>
      <3>1. /\ e(1) = <<xid>> /\ e(2) = <<RPC_CALL>> /\ e(3) = <<2>> /\ e(4) = <<proc.prog>>
            /\ e(5) = <<proc.vers>> /\ e(6) = <<proc.proc>> /\ e(7) = <<AUTHTYPE_UNIX>>
        BY ONLY <1>4, <2>1, <2>2, <2>4, <2>8
      <3> HIDE DEF e
      <3>2. QED
        BY ONLY <2>3, <2>7, <3>1
    <2>10. e(8) = <<head[8]>> \o auth /\ e(9) = <<AUTHTYPE_NULL>> /\ e(10) = <<0>> \o << >>
      BY ONLY <1>4, <2>1, <2>2, <2>3, <2>4, <2>5, <2>6
    <2>11. QED
      BY <2>9, <2>10
  <1>6. head \in Seq(Nat) /\ Len(head) = 8
    BY <1>4
  <1>7. encodeHeader(xid, proc) = (head \o auth) \o <<AUTHTYPE_NULL, 0>>
    BY DEF encodeHeader
  <1> HIDE DEF v, W, e, auth, head
  <1>8. first(0) = << >> /\ first(8) = head
    BY <1>6
  <1>9. \A i \in 1..8 : first(i - 1) \o <<head[i]>> = first(i)
    BY <1>6, OneMoreWord
  <1> HIDE DEF first
  <1>10. W[7] = first(7)
    <2>1. ASSUME NEW i \in 1..7, W[i - 1] = first(i - 1)
          PROVE  W[i] = first(i)
      <3>1. i \in 1..10 /\ i \in 1..8
        OBVIOUS
      <3>2. W[i] = W[i - 1] \o e(i) /\ e(i) = <<head[i]>>
        BY <1>3, <1>5, <3>1
      <3>3. first(i - 1) \o <<head[i]>> = first(i)
        BY <1>9, <3>1
      <3>4. QED
        BY ONLY <2>1, <3>2, <3>3
    <2>2. W[0] = first(0)
      BY <1>3, <1>8
    <2>3. 1 - 1 = 0 /\ 2 - 1 = 1 /\ 3 - 1 = 2 /\ 4 - 1 = 3 /\ 5 - 1 = 4 /\ 6 - 1 = 5 /\ 7 - 1 = 6
      OBVIOUS
    <2>4. W[1] = first(1)
      BY <2>1, <2>2, <2>3
    <2>5. W[2] = first(2)
      BY <2>1, <2>3, <2>4
    <2>6. W[3] = first(3)
      BY <2>1, <2>3, <2>5
    <2>7. W[4] = first(4)
      BY <2>1, <2>3, <2>6
    <2>8. W[5] = first(5)
      BY <2>1, <2>3, <2>7
    <2>9. W[6] = first(6)
      BY <2>1, <2>3, <2>8
    <2>10. QED
      BY <2>1, <2>3, <2>9
  <1>11. W[8] = head \o auth
    <2>1. W[8] = first(7) \o (<<head[8]>> \o auth)
      <3>1. 8 \in 1..10 /\ 8 - 1 = 7
        OBVIOUS
      <3>2. QED
        BY <1>3, <1>5, <1>10, <3>1
    <2>2. first(7) \in Seq(Nat) /\ <<head[8]>> \in Seq(Nat) /\ auth \in Seq(Nat)
      <3>1. \A j \in 1..8 : head[j] \in Nat
        BY ONLY <1>6, WordsAreNumbers
      <3>2. 7 \in Nat /\ 8 \in 1..8 /\ \A j \in 1..7 : j \in 1..8
        OBVIOUS
      <3>3. \A j \in 1..7 : head[j] \in Nat
        BY ONLY <3>1, <3>2
      <3>4. first(7) \in Seq(Nat)
        BY <3>3 DEF first
      <3>5. QED
        BY <1>4, <3>1, <3>2, <3>4
    <2>3. first(7) \o (<<head[8]>> \o auth) = (first(7) \o <<head[8]>>) \o auth
      <3>1. \A s, t, u \in Seq(Nat) : (s \o t) \o u = s \o (t \o u)
        BY WordsAssociate
      <3>2. QED
        BY ONLY <2>2, <3>1
    <2>4. first(7) \o <<head[8]>> = head
      <3>1. 8 \in 1..8 /\ 8 - 1 = 7
        OBVIOUS
      <3>2. QED
        BY <1>8, <1>9, <3>1
    <2>5. QED
      BY ONLY <2>1, <2>3, <2>4
  <1>12. W[10] = ((head \o auth) \o <<AUTHTYPE_NULL>>) \o <<0>>
    <2>1. 9 \in 1..10 /\ 10 \in 1..10 /\ 9 - 1 = 8 /\ 10 - 1 = 9
      OBVIOUS
    <2>2. <<0>> \o << >> = <<0>>
      <3>1. <<0>> \in Seq(Nat)
        OBVIOUS
      <3>2. QED
        BY <3>1, ConcatEmptySeq
    <2>3. W[9] = W[8] \o e(9) /\ W[10] = W[9] \o e(10)
      BY <1>3, <2>1
    <2>4. QED
      BY ONLY <1>5, <1>11, <2>2, <2>3
  <1>13. ((head \o auth) \o <<AUTHTYPE_NULL>>) \o <<0>> = (head \o auth) \o <<AUTHTYPE_NULL, 0>>
    <2>1. head \o auth \in Seq(Nat) /\ <<AUTHTYPE_NULL>> \in Seq(Nat) /\ <<0>> \in Seq(Nat)
      BY <1>4, <1>6
    <2>2. ((head \o auth) \o <<AUTHTYPE_NULL>>) \o <<0>>
            = (head \o auth) \o (<<AUTHTYPE_NULL>> \o <<0>>)
      BY <2>1, ConcatAssociative
    <2>3. <<AUTHTYPE_NULL>> \o <<0>> = <<AUTHTYPE_NULL, 0>>
      BY <1>4, TwoWords
    <2>4. QED
      BY ONLY <2>2, <2>3
  <1>14. QED
    BY <1>2, <1>7, <1>12, <1>13 DEF v

\* A message holds the words it starts with.
LEMMA HoldsFirst ==
  ASSUME NEW words \in Seq(Nat), NEW after \in Seq(Nat)
  PROVE  words \o after \in Seq(Nat) /\ Holds(words \o after, 0, words)
  <1>1. /\ words \o after \in Seq(Nat) /\ Len(words) \in Nat /\ Len(after) \in Nat
        /\ Len(words \o after) = Len(words) + Len(after)
        /\ \A i \in 1..Len(words) : (words \o after)[i] = words[i]
    OBVIOUS
  <1>2. 0 + Len(words) <= Len(words \o after)
    BY <1>1
  <1>3. \A i \in 1..Len(words) : 0 + i = i
    BY <1>1
  <1>4. QED
    BY ONLY <1>1, <1>2, <1>3 DEF Holds

\* The header of a call, whatever its transaction and procedure and whatever
\* arguments follow it, is read by the server as the client meant it.
THEOREM CallHeaderIsRead ==
  ASSUME NEW xid \in Nat, NEW proc, proc.prog \in Nat, proc.vers \in Nat, proc.proc \in Nat,
         NEW arguments \in Seq(Nat), NEW cap \in Nat,
         4 * Len(encodeHeader(xid, proc)) <= cap
  PROVE  ReadAll(call_header, encodeHeader(xid, proc) \o arguments, Reader(0, cap))
           = At(4 * Len(encodeHeader(xid, proc)), cap, header_values(xid, proc), << >>)
  <1>1. PICK Items, V : call_header \in Seq(Items) /\ header_values(xid, proc) \in Seq(V)
    BY HeaderSequences
  <1>2. Carries(call_header, header_values(xid, proc))
    BY HeaderCarries
  <1>3. PICK words : words = encodeHeader(xid, proc) /\ words \in Seq(Nat)
                     /\ words = EncodeAll(call_header, header_values(xid, proc))
    <2>1. Written(call_header, header_values(xid, proc)) \in [0..Len(call_header) -> Seq(Nat)]
      BY <1>1, <1>2, WrittenRecursion
    <2>2. Len(call_header) \in 0..Len(call_header)
      BY DEF call_header
    <2>3. EncodeAll(call_header, header_values(xid, proc)) \in Seq(Nat)
      BY ONLY <2>1, <2>2 DEF EncodeAll
    <2>4. EncodeAll(call_header, header_values(xid, proc)) = encodeHeader(xid, proc)
      BY HeaderWords
    <2>5. QED
      BY ONLY <2>3, <2>4
  <1>4. PICK wire \in Seq(Nat) : wire = words \o arguments /\ Holds(wire, 0, words)
    BY <1>3, HoldsFirst
  <1>5. 4 * (0 + Len(words)) = 4 * Len(words) /\ 4 * (0 + Len(words)) <= cap
        /\ 4 * 0 = 0 /\ 0 \in Nat
    BY <1>3
  <1>6. ReadAll(call_header, wire, At(4 * 0, cap, << >>, << >>))
          = At(4 * (0 + Len(EncodeAll(call_header, header_values(xid, proc)))), cap,
               header_values(xid, proc), << >>)
    <2>1. PICK layout \in Seq(Items), vals \in Seq(V) :
            layout = call_header /\ vals = header_values(xid, proc)
      BY <1>1
    <2>2. Carries(layout, vals) /\ Holds(wire, 0, EncodeAll(layout, vals))
          /\ 4 * (0 + Len(EncodeAll(layout, vals))) <= cap
      BY ONLY <1>2, <1>3, <1>4, <1>5, <2>1
    <2>3. ReadAll(layout, wire, At(4 * 0, cap, << >>, << >>))
            = At(4 * (0 + Len(EncodeAll(layout, vals))), cap, vals, << >>)
      BY ONLY <1>5, <2>1, <2>2, wire \in Seq(Nat), cap \in Nat, LayoutIsReadBack
    <2>4. QED
      BY ONLY <2>1, <2>3
  <1>7. Reader(0, cap) = At(0, cap, << >>, << >>)
    BY DEF Reader, At
  <1>8. QED
    BY ONLY <1>3, <1>4, <1>5, <1>6, <1>7

-----------------------------------------------------------------------------
(* A message that is cut short.                                            *)

\* What has been received of these words, from word p on, is theirs.
Begins(wire, p, words, cap) ==
  \A i \in 1..Len(words) : 4 * (p + i) <= cap =>
    p + i <= Len(wire) /\ wire[p + i] = words[i]

\* A reader whose last read has been refused.
Failed(r) == r.ok = FALSE

\* A read beyond the size is refused; one up to the size moves the reader on.
LEMMA TakeBytesCut ==
  ASSUME NEW wire, NEW pos \in Nat, NEW cap \in Nat, NEW vals, NEW attrs,
         NEW n, NEW bytes \in Nat, pos + bytes > cap
  PROVE  Failed(TakeBytes(wire, At(pos, cap, vals, attrs), n, bytes))
  <1> DEFINE r == At(pos, cap, vals, attrs)
  <1>1. r.pos = pos /\ r.cap = cap
    BY DEF At
  <1>2. Failed(Refused(r))
    BY RefusedReader DEF Failed
  <1> HIDE DEF r
  <1>3. TakeBytes(wire, r, n, bytes) = Refused(r)
    BY <1>1 DEF TakeBytes
  <1>4. QED
    BY <1>2, <1>3 DEF r

LEMMA TakeBytesMoves ==
  ASSUME NEW wire, NEW pos \in Nat, NEW cap \in Nat, NEW vals, NEW attrs,
         NEW n, NEW bytes \in Nat, pos + bytes <= cap
  PROVE  \E more : TakeBytes(wire, At(pos, cap, vals, attrs), n, bytes)
                     = At(pos + bytes, cap, more, attrs)
  <1> DEFINE r == At(pos, cap, vals, attrs)
             v == <<n, bytes, [i \in 1..Words(bytes) |-> WordAt(wire, r.pos + 4 * (i - 1))]>>
  <1>1. r.pos = pos /\ r.cap = cap
    BY DEF At
  <1>2. TakeBytes(wire, r, n, bytes) = Stored(Advanced(r, bytes), v)
    <2>1. ~(r.pos + bytes > r.cap)
      BY <1>1
    <2> HIDE DEF r
    <2>2. QED
      BY <2>1 DEF TakeBytes
  <1> HIDE DEF v
  <1>3. Stored(Advanced(r, bytes), v) = At(pos + bytes, cap, Append(vals, v), attrs)
    BY ReadsOn
  <1>4. QED
    BY <1>2, <1>3

\* So is a skip.
LEMMA SkipBytesCut ==
  ASSUME NEW pos \in Nat, NEW cap \in Nat, NEW vals, NEW attrs, NEW bytes \in Nat,
         pos + bytes > cap
  PROVE  Failed(SkipBytes(At(pos, cap, vals, attrs), bytes))
  <1>1. SkipBytes(At(pos, cap, vals, attrs), bytes) = Refused(At(pos, cap, vals, attrs))
    BY SkipBytesReads
  <1>2. QED
    BY <1>1, RefusedReader DEF Failed

\* Nothing more is skipped once a read has been refused.
LEMMA SkipPaddingAfterRefusal ==
  ASSUME NEW r, Failed(r), NEW bytes
  PROVE  SkipPadding(r, bytes) = r
  BY DEF SkipPadding, Failed

\* A value of this many bytes, from word p on, that the reader may not read to the
\* end of its padding.
LEMMA PaddedCut ==
  ASSUME NEW wire, NEW p \in Nat, NEW cap \in Nat, NEW vals, NEW attrs,
         NEW n, NEW bytes \in Nat, cap < 4 * (p + Words(bytes))
  PROVE  Failed(SkipPadding(TakeBytes(wire, At(4 * p, cap, vals, attrs), n, bytes), bytes))
  <1> DEFINE t == TakeBytes(wire, At(4 * p, cap, vals, attrs), n, bytes)
  <1>1. PICK pos \in Nat : pos = 4 * p
    OBVIOUS
  <1>2. CASE pos + bytes > cap
    <2>1. Failed(t)
      <3>1. Failed(TakeBytes(wire, At(pos, cap, vals, attrs), n, bytes))
        BY ONLY pos \in Nat, cap \in Nat, bytes \in Nat, <1>2, TakeBytesCut
      <3>2. QED
        BY ONLY <1>1, <3>1
    <2> HIDE DEF t
    <2>2. SkipPadding(t, bytes) = t
      BY <2>1, SkipPaddingAfterRefusal
    <2>3. QED
      BY <2>1, <2>2 DEF t
  <1>3. CASE pos + bytes <= cap
    <2>1. PICK more : t = At(pos + bytes, cap, more, attrs)
      BY <1>1, <1>3, TakeBytesMoves
    <2>2. 4 * p + bytes <= cap /\ pos + bytes = 4 * p + bytes /\ 4 * p + bytes \in Nat
      BY <1>1, <1>3
    <2>3. ~(4 * (p + Words(bytes)) <= cap)
      BY WordsOf
    <2>4. SkipPadding(At(4 * p + bytes, cap, more, attrs), bytes)
            = Refused(At(4 * p + bytes, cap, more, attrs))
      <3>1. SkipPadding(At(4 * p + bytes, cap, more, attrs), bytes)
              = IF 4 * (p + Words(bytes)) <= cap
                THEN At(4 * (p + Words(bytes)), cap, more, attrs)
                ELSE Refused(At(4 * p + bytes, cap, more, attrs))
        BY ONLY p \in Nat, cap \in Nat, bytes \in Nat, <2>2, SkipPaddingReads
      <3>2. QED
        BY ONLY <2>3, <3>1
    <2>5. Failed(Refused(At(4 * p + bytes, cap, more, attrs)))
      BY <2>2, RefusedReader DEF Failed
    <2>6. QED
      BY ONLY <2>1, <2>2, <2>4, <2>5
  <1>4. pos + bytes > cap \/ pos + bytes <= cap
    BY ONLY pos \in Nat, cap \in Nat, bytes \in Nat
  <1>5. QED
    BY ONLY <1>2, <1>3, <1>4

\* The length of an item that is cut short: the reader h and the number len read before it.
Behind(h, len, n, at, p, cap, data) ==
  /\ cap < 4 * (p + 1 + Len(data))
  /\ Failed(h) \/ (h = at /\ len = n)

LEMMA CutLength ==
  \A wire \in Seq(Nat), p \in Nat, cap \in Nat, n \in Nat, data \in Seq(Nat) :
    \A vals, attrs, words :
      words = <<n>> \o data /\ Begins(wire, p, words, cap) /\ cap < 4 * (p + Len(words)) =>
        Behind(SkipBytes(At(4 * p, cap, vals, attrs), 4), WordAt(wire, 4 * p), n,
               At(4 * (p + 1), cap, vals, attrs), p, cap, data)
  <1> TAKE wire \in Seq(Nat), p \in Nat, cap \in Nat, n \in Nat, data \in Seq(Nat)
  <1> TAKE vals, attrs, words
  <1> HAVE words = <<n>> \o data /\ Begins(wire, p, words, cap) /\ cap < 4 * (p + Len(words))
  <1>1. PICK l \in Nat : l = Len(data) /\ Len(words) = l + 1 /\ words[1] = n
    OBVIOUS
  <1>2. cap < 4 * (p + 1 + l)
    <2>1. cap < 4 * (p + (l + 1))
      BY <1>1
    <2>2. QED
      BY ONLY p \in Nat, cap \in Nat, l \in Nat, <2>1
  <1>3. PICK pos \in Nat : pos = 4 * p /\ pos + 4 = 4 * (p + 1)
    OBVIOUS
  <1>4. CASE pos + 4 > cap
    <2>1. Failed(SkipBytes(At(pos, cap, vals, attrs), 4))
      <3>1. \A bytes \in Nat : pos + bytes > cap =>
              Failed(SkipBytes(At(pos, cap, vals, attrs), bytes))
        BY SkipBytesCut
      <3>2. 4 \in Nat /\ pos + 4 > cap
        BY <1>4
      <3>3. QED
        BY ONLY <3>1, <3>2
    <2>2. QED
      BY ONLY <1>1, <1>2, <1>3, <2>1 DEF Behind
  <1>5. CASE pos + 4 <= cap
    <2>1. SkipBytes(At(pos, cap, vals, attrs), 4) = At(pos + 4, cap, vals, attrs)
      BY ONLY pos \in Nat, cap \in Nat, <1>5, SkipBytesReads
    <2>2. p + 1 <= Len(wire) /\ wire[p + 1] = n
      <3>1. 1 \in 1..(l + 1) /\ 4 * (p + 1) <= cap
        BY ONLY l \in Nat, <1>3, <1>5
      <3>2. QED
        BY <1>1, <3>1 DEF Begins
    <2>3. WordAt(wire, 4 * p) = n
      <3>1. p < Len(wire)
        BY <2>2
      <3>2. QED
        BY <2>2, <3>1, WordIsAt
    <2>4. QED
      BY ONLY <1>1, <1>2, <1>3, <2>1, <2>3 DEF Behind
  <1>6. pos + 4 > cap \/ pos + 4 <= cap
    BY ONLY pos \in Nat, cap \in Nat
  <1>7. QED
    BY ONLY <1>4, <1>5, <1>6

\* A string and a bitmap of which a word is missing.
LEMMA CutStringIsRefused ==
  ASSUME NEW wire \in Seq(Nat), NEW p \in Nat, NEW cap \in Nat, NEW vals, NEW attrs,
         NEW n, NEW bytes \in Nat, NEW data \in Seq(Nat), Len(data) = Words(bytes),
         NEW words, words = <<bytes>> \o data,
         Begins(wire, p, words, cap), cap < 4 * (p + Len(words)),
         NEW padded \in BOOLEAN, padded \/ Aligned(bytes)
  PROVE  Failed(TakeString(wire, At(4 * p, cap, vals, attrs), n, padded))
  <1> DEFINE r == At(4 * p, cap, vals, attrs)
             h == SkipBytes(r, 4)
             len == WordAt(wire, 4 * p)
             t == IF h.ok THEN TakeBytes(wire, h, n, len) ELSE h
  <1>1. TakeString(wire, r, n, padded) = IF padded THEN SkipPadding(t, len) ELSE t
    <2>1. r.pos = 4 * p
      BY DEF At
    <2> HIDE DEF r
    <2>2. QED
      BY <2>1 DEF TakeString
  <1>2. /\ cap < 4 * (p + 1 + Len(data))
        /\ Failed(h) \/ (h = At(4 * (p + 1), cap, vals, attrs) /\ len = bytes)
    <2>1. Behind(SkipBytes(At(4 * p, cap, vals, attrs), 4), WordAt(wire, 4 * p), bytes,
                 At(4 * (p + 1), cap, vals, attrs), p, cap, data)
      BY CutLength, Zenon
    <2>2. QED
      BY <2>1 DEF Behind
  <1> HIDE DEF r, h, len
  <1>3. CASE Failed(h)
    <2>1. t = h
      BY <1>3 DEF Failed
    <2>2. SkipPadding(h, len) = h
      BY <1>3, SkipPaddingAfterRefusal
    <2>3. QED
      BY <1>1, <1>3, <2>1, <2>2 DEF r
  <1>4. CASE h = At(4 * (p + 1), cap, vals, attrs) /\ len = bytes
    <2>1. PICK q \in Nat : q = p + 1 /\ cap < 4 * (q + Words(bytes))
      BY <1>2
    <2> DEFINE u == TakeBytes(wire, At(4 * q, cap, vals, attrs), n, bytes)
    <2>2. At(4 * q, cap, vals, attrs).ok = TRUE
      BY DEF At
    <2>3. t = u
      BY ONLY <1>4, <2>1, <2>2
    <2>4. Failed(SkipPadding(u, bytes))
      <3>1. cap < 4 * (q + Words(bytes))
        BY <2>1
      <3>2. QED
        BY <3>1, PaddedCut, Zenon
    <2>5. ~padded => Failed(u)
      <3>1. SUFFICES ASSUME ~padded
                     PROVE  Failed(u)
        OBVIOUS
      <3>2. bytes = 4 * Words(bytes) /\ Words(bytes) \in Nat
        BY <3>1, WordsOf DEF Aligned
      <3>3. PICK pos \in Nat : pos = 4 * q /\ pos + bytes > cap
        <4>1. PICK w \in Nat : w = Words(bytes) /\ bytes = 4 * w /\ cap < 4 * (q + w)
          BY <2>1, <3>2
        <4>2. 4 * q \in Nat /\ 4 * q + 4 * w > cap
          BY ONLY <4>1, q \in Nat, w \in Nat, cap \in Nat
        <4>3. QED
          BY ONLY <4>1, <4>2
      <3>4. pos + bytes > cap
        BY ONLY <3>3
      <3>5. Failed(TakeBytes(wire, At(pos, cap, vals, attrs), n, bytes))
        BY <3>4, TakeBytesCut, Zenon
      <3>6. QED
        BY ONLY <3>3, <3>5
    <2> HIDE DEF u, t
    <2>6. QED
      BY ONLY <1>1, <1>4, <2>3, <2>4, <2>5 DEF r
  <1>5. QED
    BY <1>2, <1>3, <1>4

LEMMA CutBitsIsRefused ==
  ASSUME NEW wire \in Seq(Nat), NEW p \in Nat, NEW cap \in Nat, NEW vals, NEW attrs,
         NEW n, NEW data \in Seq(Nat), NEW words, words = <<Len(data)>> \o data,
         Begins(wire, p, words, cap), cap < 4 * (p + Len(words))
  PROVE  Failed(TakeBits(wire, At(4 * p, cap, vals, attrs), n))
  <1> DEFINE r == At(4 * p, cap, vals, attrs)
             h == SkipBytes(r, 4)
             count == WordAt(wire, 4 * p)
  <1>1. TakeBits(wire, r, n) = IF h.ok THEN TakeBytes(wire, h, n, 4 * count) ELSE h
    <2>1. r.pos = 4 * p
      BY DEF At
    <2> HIDE DEF r
    <2>2. QED
      BY <2>1 DEF TakeBits
  <1>2. PICK w \in Nat : w = Len(data)
    OBVIOUS
  <1>3. /\ cap < 4 * (p + 1 + Len(data))
        /\ Failed(h) \/ (h = At(4 * (p + 1), cap, vals, attrs) /\ count = w)
    <2>1. words = <<w>> \o data
      BY <1>2
    <2>2. Behind(SkipBytes(At(4 * p, cap, vals, attrs), 4), WordAt(wire, 4 * p), w,
                 At(4 * (p + 1), cap, vals, attrs), p, cap, data)
      BY <2>1, CutLength, Zenon
    <2>3. QED
      BY <2>2 DEF Behind
  <1> HIDE DEF r, h, count
  <1>4. CASE Failed(h)
    BY <1>1, <1>4 DEF Failed, r
  <1>5. CASE h = At(4 * (p + 1), cap, vals, attrs) /\ count = w
    <2>1. PICK pos \in Nat, bytes \in Nat :
            pos = 4 * (p + 1) /\ bytes = 4 * w /\ pos + bytes > cap
      BY <1>2, <1>3
    <2>2. At(pos, cap, vals, attrs).ok = TRUE
      BY DEF At
    <2>3. pos + bytes > cap
      BY <2>1
    <2>4. Failed(TakeBytes(wire, At(pos, cap, vals, attrs), n, bytes))
      BY <2>3, TakeBytesCut, Zenon
    <2>5. QED
      BY ONLY <1>1, <1>5, <2>1, <2>2, <2>4 DEF r
  <1>6. QED
    BY <1>3, <1>4, <1>5

\* A flat item of which a word is missing cannot be read.
LEMMA CutItemIsRefused ==
  ASSUME NEW wire \in Seq(Nat), NEW p \in Nat, NEW cap \in Nat, NEW vals, NEW attrs,
         NEW item, NEW bytes \in Nat, NEW data \in Seq(Nat), Fits(item, bytes, data),
         NEW words \in Seq(Nat), words = EncodeFlat(item, <<item.n, bytes, data>>),
         Begins(wire, p, words, cap), cap < 4 * (p + Len(words))
  PROVE  Failed(ReadFlat(wire, At(4 * p, cap, vals, attrs), item))
  <1> DEFINE r == At(4 * p, cap, vals, attrs)
  <1>1. Len(data) = Words(bytes)
    BY DEF Fits
  <1>2. CASE item.k = "fix"
    <2>1. words = data /\ item.bytes = bytes
      BY <1>2, EncodedWords DEF Fits
    <2>2. cap < 4 * (p + Words(bytes))
      BY <1>1, <2>1
    <2>3. Failed(SkipPadding(TakeBytes(wire, r, item.n, bytes), bytes))
      BY <2>2, PaddedCut
    <2>4. ReadFlat(wire, r, item) = SkipPadding(TakeBytes(wire, r, item.n, bytes), bytes)
      BY <1>2, <2>1 DEF ReadFlat
    <2>5. QED
      BY <2>3, <2>4, Zenon
  <1>3. CASE item.k \in {"str", "raw"}
    <2>1. words = <<bytes>> \o data
      BY <1>3, EncodedWords
    <2>2. PICK padded \in BOOLEAN : padded = (item.k = "str") /\ (padded \/ Aligned(bytes))
      <3>1. item.k = "str" \/ Aligned(bytes)
        BY <1>3 DEF Fits
      <3>2. QED
        BY <3>1, Zenon
    <2>3. ReadFlat(wire, r, item) = TakeString(wire, r, item.n, padded)
      BY <1>3, <2>2 DEF ReadFlat
    <2>4. Failed(TakeString(wire, r, item.n, padded))
      <3>1. padded \/ Aligned(bytes)
        BY <2>2
      <3>2. QED
        BY <1>1, <2>1, <3>1, CutStringIsRefused
    <2>5. QED
      BY <2>3, <2>4, Zenon
  <1>4. CASE item.k = "bits"
    <2>1. words = <<Len(data)>> \o data
      BY <1>4, EncodedWords
    <2>2. ReadFlat(wire, r, item) = TakeBits(wire, r, item.n)
      BY <1>4 DEF ReadFlat
    <2>3. Failed(TakeBits(wire, r, item.n))
      BY <2>1, CutBitsIsRefused
    <2>4. QED
      BY <2>2, <2>3, Zenon
  <1>5. QED
    BY <1>2, <1>3, <1>4 DEF Fits

\* What has been received of a message's words is, further on, what has been
\* received of the words that are there; all of them, when they end before cap.
LEMMA BeginsFurtherOn ==
  ASSUME NEW wire \in Seq(Nat), NEW p \in Nat, NEW cap \in Nat, NEW all \in Seq(Nat),
         Begins(wire, p, all, cap), p <= Len(wire),
         NEW a \in Nat, NEW x \in Seq(Nat), Holds(all, a, x)
  PROVE  /\ Begins(wire, p + a, x, cap)
         /\ 4 * ((p + a) + Len(x)) <= cap => Holds(wire, p + a, x)
  <1>1. /\ Len(x) \in Nat /\ Len(all) \in Nat /\ Len(wire) \in Nat /\ a + Len(x) <= Len(all)
        /\ \A i \in 1..Len(x) : all[a + i] = x[i]
    BY DEF Holds
  <1>2. \A i \in 1..Len(all) : 4 * (p + i) <= cap => p + i <= Len(wire) /\ wire[p + i] = all[i]
    BY DEF Begins
  <1>3. ASSUME NEW i \in 1..Len(x), 4 * ((p + a) + i) <= cap
        PROVE  (p + a) + i <= Len(wire) /\ wire[(p + a) + i] = x[i]
    <2>1. a + i \in 1..Len(all) /\ p + (a + i) = (p + a) + i
      BY <1>1
    <2>2. QED
      BY <1>1, <1>2, <1>3, <2>1
  <1>4. Begins(wire, p + a, x, cap)
    BY <1>3 DEF Begins
  <1>5. ASSUME 4 * ((p + a) + Len(x)) <= cap
        PROVE  Holds(wire, p + a, x)
    <2>1. ASSUME NEW i \in 1..Len(x)
          PROVE  (p + a) + i <= Len(wire) /\ wire[(p + a) + i] = x[i]
      <3>1. 4 * ((p + a) + i) <= cap
        BY <1>1, <1>5
      <3>2. QED
        BY <1>3, <3>1
    <2>2. (p + a) + Len(x) <= Len(wire)
      <3>1. CASE a + Len(x) = 0
        BY <1>1, <3>1
      <3>2. CASE a + Len(x) # 0
        <4>1. a + Len(x) \in 1..Len(all) /\ 4 * (p + (a + Len(x))) <= cap
          BY <1>1, <1>5, <3>2
        <4>2. p + (a + Len(x)) <= Len(wire)
          BY <1>2, <4>1
        <4>3. QED
          BY <1>1, <4>2
      <3>3. QED
        BY <3>1, <3>2
    <2>3. QED
      BY <2>1, <2>2 DEF Holds
  <1>6. QED
    BY <1>4, <1>5

\* Of a message that is cut short the reader finds at some item that it cannot be
\* read, and gives up: a part of a message is never taken for a message.
THEOREM CutLayoutIsRefused ==
  ASSUME NEW Items, NEW layout \in Seq(Items), NEW V, NEW vals \in Seq(V),
         Carries(layout, vals),
         NEW wire \in Seq(Nat), NEW p \in Nat, p <= Len(wire), NEW cap \in Nat, NEW attrs,
         4 * p <= cap,
         Begins(wire, p, EncodeAll(layout, vals), cap),
         cap < 4 * (p + Len(EncodeAll(layout, vals)))
  PROVE  Failed(ReadAll(layout, wire, At(4 * p, cap, << >>, attrs)))
  <1> DEFINE N == Len(layout)
             W == Written(layout, vals)
             e(i) == EncodeFlat(layout[i], vals[i])
             first(i) == [j \in 1..i |-> vals[j]]
             want(i) == At(4 * (p + Len(W[i])), cap, first(i), attrs)
             r == At(4 * p, cap, << >>, attrs)
             P(g) == g = [i \in 0..N |->
                            IF i = 0 THEN r
                            ELSE LET before == g[i - 1]
                                 IN  IF before.ok THEN ReadFlat(wire, before, layout[i])
                                     ELSE before]
             R == CHOOSE g : P(g)
             Missing == {i \in 0..N : cap < 4 * (p + Len(W[i]))}
  <1>1. N \in Nat /\ Len(vals) = N
    BY DEF Carries
  <1>2. ReadAll(layout, wire, r) = R[N]
    BY DEF ReadAll
  <1>3. EncodeAll(layout, vals) = W[N]
    BY DEF EncodeAll
  <1>4. /\ W[0] = << >>
        /\ \A i \in 0..N : W[i] \in Seq(Nat)
        /\ \A i \in 1..N : e(i) \in Seq(Nat)
    BY WrittenRecursion
  <1>5. \A i \in 1..N : /\ Len(W[i]) = Len(W[i - 1]) + Len(e(i))
                        /\ Holds(W[N], Len(W[i - 1]), e(i))
    <2>1. PICK all \in Seq(Nat) : all = EncodeAll(layout, vals)
      BY <1>1, <1>3, <1>4
    <2>2. Holds(all, 0, all)
      BY DEF Holds
    <2>3. Holds(all, 0, EncodeAll(layout, vals))
      BY <2>1, <2>2, Zenon
    <2>4. \A i \in 1..N : /\ Len(W[i]) = Len(W[i - 1]) + Len(e(i))
                          /\ Holds(all, 0 + Len(W[i - 1]), e(i))
      BY <2>3, ItemsAreThere
    <2>5. \A i \in 1..N : 0 + Len(W[i - 1]) = Len(W[i - 1])
      <3>1. \A i \in 1..N : i - 1 \in 0..N
        BY <1>1
      <3>2. \A i \in 1..N : Len(W[i - 1]) \in Nat
        BY <1>4, <3>1
      <3>3. QED
        BY ONLY <3>2
    <2>6. QED
      BY <1>3, <2>1, <2>4, <2>5, Zenon
  <1>6. \A i \in 1..N : \E bytes \in Nat, data \in Seq(Nat) :
          Fits(layout[i], bytes, data) /\ vals[i] = <<layout[i].n, bytes, data>>
    BY DEF Carries
  <1>7. \A i \in 1..N : Append(first(i - 1), vals[i]) = first(i)
    BY <1>1, FirstValues
  <1>8. want(0) = r
    <2>1. first(0) = << >> /\ Len(W[0]) = 0 /\ 4 * (p + 0) = 4 * p
      BY <1>4
    <2>2. QED
      BY <2>1
  <1>9. \A i \in 0..N : want(i).ok = TRUE
    BY DEF At
  <1>10. ~(cap < 4 * (p + Len(W[0])))
    BY <1>4
  <1>11. /\ Begins(wire, p, W[N], cap) /\ cap < 4 * (p + Len(W[N]))
    BY <1>3, Zenon
  <1> HIDE DEF N, W, e, first, r
  <1>12. ASSUME NEW i \in 1..N
         PROVE  /\ 4 * (p + Len(W[i])) <= cap =>
                     ReadFlat(wire, want(i - 1), layout[i]) = want(i)
                /\ cap < 4 * (p + Len(W[i])) =>
                     Failed(ReadFlat(wire, want(i - 1), layout[i]))
    <2>1. PICK a \in Nat, b \in Nat, q \in Nat :
            /\ a = Len(W[i - 1]) /\ b = Len(e(i)) /\ Len(W[i]) = a + b
            /\ q = p + a /\ q + b = p + (a + b)
      <3>1. i - 1 \in 0..N
        BY <1>1
      <3>2. PICK a \in Nat, b \in Nat : a = Len(W[i - 1]) /\ b = Len(e(i))
        BY <1>4, <3>1
      <3>3. p + a \in Nat /\ (p + a) + b = p + (a + b)
        BY ONLY p \in Nat, a \in Nat, b \in Nat
      <3>4. Len(W[i]) = a + b
        BY <1>5, <3>2, Zenon
      <3>5. QED
        BY ONLY <3>2, <3>3, <3>4
    <2>2. PICK words \in Seq(Nat), all \in Seq(Nat) : words = e(i) /\ all = W[N]
      <3>1. N \in 0..N
        BY <1>1
      <3>2. e(i) \in Seq(Nat) /\ W[N] \in Seq(Nat)
        BY <1>4, <3>1
      <3>3. QED
        BY ONLY <3>2
    <2> DEFINE item == layout[i]
               v == vals[i]
               x == first(i - 1)
    <2>3. words = EncodeFlat(item, v) /\ b = Len(words)
      BY ONLY <2>1, <2>2 DEF e, item, v
    <2>4. PICK bytes \in Nat, data \in Seq(Nat) :
            Fits(item, bytes, data) /\ v = <<item.n, bytes, data>>
      BY <1>6, <2>2, Zenon
    <2>5. Holds(all, a, words) /\ Begins(wire, p, all, cap)
      BY <1>5, <1>11, <2>1, <2>2, Zenon
    <2>6. Begins(wire, p + a, words, cap)
          /\ (4 * ((p + a) + Len(words)) <= cap => Holds(wire, p + a, words))
      BY <2>5, BeginsFurtherOn, Zenon
    <2>7. Begins(wire, q, words, cap) /\ (4 * (q + Len(words)) <= cap => Holds(wire, q, words))
      BY ONLY <2>1, <2>6
    <2>8. want(i - 1) = At(4 * q, cap, x, attrs)
      BY ONLY <2>1, <2>2
    <2>9. want(i) = At(4 * (q + Len(words)), cap, Append(x, v), attrs)
      <3>1. Append(x, v) = first(i)
        BY <1>7, <2>2, Zenon
      <3>2. QED
        BY ONLY <2>1, <2>3, <3>1
    <2>10. p + Len(W[i]) = q + Len(words)
      BY ONLY <2>1, <2>3
    <2>11. ASSUME 4 * (q + Len(words)) <= cap
           PROVE  ReadFlat(wire, At(4 * q, cap, x, attrs), item)
                    = At(4 * (q + Len(words)), cap, Append(x, v), attrs)
      BY ONLY <2>3, <2>4, <2>7, <2>11, wire \in Seq(Nat), q \in Nat, cap \in Nat,
              words \in Seq(Nat), ValueIsReadBack
    <2>12. ASSUME cap < 4 * (q + Len(words))
           PROVE  Failed(ReadFlat(wire, At(4 * q, cap, x, attrs), item))
      <3>1. words = EncodeFlat(item, <<item.n, bytes, data>>)
        BY <2>3, <2>4, Zenon
      <3>2. QED
        BY ONLY <2>4, <2>7, <2>12, <3>1, wire \in Seq(Nat), q \in Nat, cap \in Nat,
                words \in Seq(Nat), bytes \in Nat, data \in Seq(Nat), CutItemIsRefused
    <2>13. QED
      BY ONLY <2>2, <2>8, <2>9, <2>10, <2>11, <2>12
  <1>13. PICK k \in 1..N : /\ cap < 4 * (p + Len(W[k]))
                          /\ \A i \in 0..(k - 1) : 4 * (p + Len(W[i])) <= cap
    <2>1. Missing \subseteq Nat /\ N \in Missing
      BY <1>1, <1>11
    <2>2. PICK k \in Missing : \A i \in Missing : k <= i
      BY <2>1, LeastElement
    <2>3. k \in 1..N
      BY <1>1, <1>10, <2>2
    <2>4. ASSUME NEW i \in 0..(k - 1)
          PROVE  4 * (p + Len(W[i])) <= cap
      <3>1. i \in 0..N /\ ~(k <= i)
        BY <1>1, <2>3
      <3>2. i \notin Missing
        BY <2>2, <3>1
      <3>3. ~(cap < 4 * (p + Len(W[i])))
        BY <3>1, <3>2
      <3>4. Len(W[i]) \in Nat
        BY <1>4, <3>1
      <3>5. QED
        BY ONLY <3>3, <3>4, p \in Nat, cap \in Nat
    <2>5. QED
      BY <2>2, <2>3, <2>4
  <1> HIDE DEF Missing, want
  <1> DEFINE last == ReadFlat(wire, want(k - 1), layout[k])
             found(i) == IF i < k THEN want(i) ELSE last
  <1>14. Failed(last)
    BY <1>12, <1>13
  <1>15. ASSUME NEW i \in 1..N
         PROVE  found(i) = IF found(i - 1).ok THEN ReadFlat(wire, found(i - 1), layout[i])
                           ELSE found(i - 1)
    <2>1. i - 1 \in 0..N /\ k \in Nat
      BY <1>1
    <2>2. CASE i < k
      <3>1. 4 * (p + Len(W[i])) <= cap /\ i - 1 < k
        BY <1>1, <1>13, <2>2
      <3>2. found(i) = want(i) /\ found(i - 1) = want(i - 1) /\ want(i - 1).ok = TRUE
        BY <1>9, <2>1, <2>2, <3>1
      <3>3. ReadFlat(wire, want(i - 1), layout[i]) = want(i)
        BY <1>12, <3>1
      <3>4. QED
        BY ONLY <3>2, <3>3
    <2>3. CASE i = k
      <3>1. found(i) = last /\ found(i - 1) = want(i - 1) /\ want(i - 1).ok = TRUE
        BY <1>9, <2>1, <2>3
      <3>2. last = ReadFlat(wire, want(i - 1), layout[i])
        BY <2>3
      <3>3. QED
        BY ONLY <3>1, <3>2
    <2>4. CASE i > k
      <3>1. found(i) = last /\ found(i - 1) = last
        BY <2>1, <2>4
      <3>2. QED
        BY ONLY <1>14, <3>1 DEF Failed
    <2>5. QED
      BY <2>1, <2>2, <2>3, <2>4
  <1>16. found(0) = r /\ found(N) = last
    BY <1>1, <1>8, <1>13
  <1> HIDE DEF last, found
  <1>17. P([i \in 0..N |-> found(i)])
    <2> DEFINE g == [i \in 0..N |-> found(i)]
    <2>1. ASSUME NEW i \in 0..N
          PROVE  found(i) = IF i = 0 THEN r
                            ELSE LET before == g[i - 1]
                                 IN  IF before.ok THEN ReadFlat(wire, before, layout[i])
                                     ELSE before
      <3>1. CASE i = 0
        BY <1>16, <3>1
      <3>2. CASE i # 0
        <4>1. i \in 1..N /\ i - 1 \in 0..N
          BY <1>1, <3>2
        <4>2. g[i - 1] = found(i - 1)
          BY <4>1
        <4>3. found(i) = IF found(i - 1).ok THEN ReadFlat(wire, found(i - 1), layout[i])
                         ELSE found(i - 1)
          BY <1>15, <4>1
        <4>4. QED
          BY ONLY <3>2, <4>2, <4>3
      <3>3. QED
        BY <3>1, <3>2
    <2>2. QED
      BY <2>1
  <1> HIDE DEF P
  <1>18. P(R)
    BY <1>17
  <1> HIDE DEF R
  <1>19. ASSUME NEW i \in 0..N
         PROVE  R[i] = IF i = 0 THEN r
                       ELSE LET before == R[i - 1]
                            IN  IF before.ok THEN ReadFlat(wire, before, layout[i])
                                ELSE before
    BY <1>18 DEF P
  <1> DEFINE T == {m \in 0..N : R[m] = found(m)}
  <1>20. 0 \in T
    <2>1. 0 \in 0..N
      BY <1>1
    <2>2. R[0] = r
      BY <1>19, <2>1
    <2>3. QED
      BY <1>16, <2>1, <2>2
  <1>21. ASSUME NEW m \in 0..(N - 1), m \in T
         PROVE  m + 1 \in T
    <2>1. m + 1 \in 1..N /\ m + 1 \in 0..N /\ (m + 1) - 1 = m /\ m \in 0..N /\ m + 1 # 0
      BY <1>1
    <2>2. R[m] = found(m)
      BY <1>21
    <2>3. R[m + 1] = IF R[m].ok THEN ReadFlat(wire, R[m], layout[m + 1]) ELSE R[m]
      BY <1>19, <2>1
    <2>4. found(m + 1) = IF found(m).ok THEN ReadFlat(wire, found(m), layout[m + 1])
                         ELSE found(m)
      BY <1>15, <2>1
    <2>5. R[m + 1] = found(m + 1)
      BY ONLY <2>2, <2>3, <2>4
    <2>6. QED
      BY <2>1, <2>5
  <1>22. R[N] = found(N)
    <2>1. \A m \in 0..N : m \in T
      <3> HIDE DEF T
      <3>1. QED
        BY <1>1, <1>20, <1>21, SetInduction
    <2>2. N \in 0..N
      BY <1>1
    <2>3. QED
      BY <2>1, <2>2
  <1>23. QED
    BY <1>2, <1>14, <1>16, <1>22 DEF r
=============================================================================
