------------------------------- MODULE XdrItem -------------------------------
(***************************************************************************)
(* What the messages of the RPC programs are made of.  A message is a       *)
(* sequence of 32-bit words; a layout is a sequence of items that says how   *)
(* words are written or read in order.  The items are those RpcPacket writes *)
(* and reads: numbers, opaque data of a fixed or a variable length, and the  *)
(* unions and lists the coders build from them with a switch or a loop.      *)
(*                                                                         *)
(* A value is <<name, length, words>>: the field it is stored in, its length  *)
(* in bytes and its content.  A word that only carries data is a token that  *)
(* names its place in the message, so that data read at another place, or     *)
(* taken for a number, shows.                                               *)
(*                                                                         *)
(* This module has the items, and the reading and writing of those that are  *)
(* flat; XdrLayout has that of the unions, lists and attributes.             *)
(***************************************************************************)
LOCAL INSTANCE Integers
LOCAL INSTANCE Sequences

Fix(n, bytes) == [k |-> "fix", n |-> n, bytes |-> bytes]
U32(n)        == Fix(n, 4)
U64(n)        == Fix(n, 8)
Str(n)        == [k |-> "str", n |-> n]     \* length, bytes, padding to 4
NonEmpty(n)   == [k |-> "nonempty", n |-> n] \* the same, nothing if the length is 0
Raw(n)        == [k |-> "raw", n |-> n]     \* length, bytes, no padding
Bits(n)       == [k |-> "bits", n |-> n]    \* a bitmap: count, that many words
Count(n, body) == [k |-> "count", n |-> n, body |-> body] \* number, as many bodies
\* A bitmap of attributes and their values, each with the layout `table` gives.
Attrs(n, table) == [k |-> "attrs", n |-> n, table |-> table]
Sw(n, arms)   == [k |-> "sw", n |-> n, arms |-> arms]  \* number, then its arm
Num(n)        == Sw(n, << >>)               \* a number the reader acts upon
List(n, body) == [k |-> "list", n |-> n, body |-> body] \* 1, body, ..., 0

Fail          == [k |-> "fail"]             \* the reader gives up
Capped(n, most) == [k |-> "capped", n |-> n, most |-> most] \* a number, at most this one
Negated(n)    == [k |-> "negated", n |-> n] \* a number, stored as whether it is 0
Counted(n, m) == [k |-> "counted", n |-> n, of |-> m] \* Str, gives up unless its length is m

Words(bytes) == (bytes + 3) \div 4
Padding(bytes) == (4 - (bytes % 4)) % 4

\* A word of memory that belongs to no field: what a read that is out of
\* step, or past what was received, may find.
Junk == 999999

(***************************************************************************)
(* Writing.                                                                *)
(***************************************************************************)
Flat == {"fix", "str", "raw", "bits"}

\* The words RpcPacket appends for a value.
EncodeFlat(item, v) ==
  CASE item.k = "fix" -> v[3]
    [] item.k \in {"str", "raw"} -> <<v[2]>> \o v[3]
    [] item.k = "nonempty" -> IF v[2] = 0 THEN << >> ELSE <<v[2]>> \o v[3]
    [] item.k = "bits" -> <<Len(v[3])>> \o v[3]

(***************************************************************************)
(* Reading.  The reader keeps what RpcPacket keeps: the read index, in        *)
(* bytes, and the size up to which it may go.  A read that would go past it   *)
(* fails, and everything after it is skipped.                               *)
(***************************************************************************)
Reader(pos, cap) ==
  [ok |-> TRUE, pos |-> pos, cap |-> cap, vals |-> << >>, attrs |-> << >>]

Refused(r) == [r EXCEPT !.ok = FALSE]
Advanced(r, bytes) == [r EXCEPT !.pos = @ + bytes]
Stored(r, v) == [r EXCEPT !.vals = Append(@, v)]

WordAt(wire, pos) ==
  IF pos % 4 = 0 /\ pos \div 4 < Len(wire) THEN wire[pos \div 4 + 1] ELSE Junk

\* Packet::skip
SkipBytes(r, bytes) ==
  IF r.pos + bytes > r.cap THEN Refused(r)
                        ELSE Advanced(r, bytes)

\* Packet::read into the field n
TakeBytes(wire, r, n, bytes) ==
  IF r.pos + bytes > r.cap THEN Refused(r)
  ELSE LET data == [i \in 1..Words(bytes) |-> WordAt(wire, r.pos + 4 * (i - 1))]
       IN  Stored(Advanced(r, bytes), <<n, bytes, data>>)

\* RpcPacket::xdrDecodeUint32; the number is the last value read
TakeNumber(wire, r, n) == TakeBytes(wire, r, n, 4)
LastNumber(r) == r.vals[Len(r.vals)][3][1]

\* RpcPacket::xdrDecodeSkipPadding
SkipPadding(r, bytes) ==
  LET pad == 4 - (bytes % 4) IN IF pad < 4 /\ r.ok THEN SkipBytes(r, pad) ELSE r

\* RpcPacket::xdrDecodeString: the length is not a field of its own
TakeString(wire, r, n, padded) ==
  LET len == WordAt(wire, r.pos)
      h   == SkipBytes(r, 4)
      t   == IF h.ok THEN TakeBytes(wire, h, n, len) ELSE h
  IN  IF padded THEN SkipPadding(t, len) ELSE t

\* The loops over a bitmap: a count and as many words
TakeBits(wire, r, n) ==
  LET count == WordAt(wire, r.pos)
      h     == SkipBytes(r, 4)
  IN  IF h.ok THEN TakeBytes(wire, h, n, 4 * count) ELSE h

ReadFlat(wire, r, item) ==
  CASE item.k = "fix" -> SkipPadding(TakeBytes(wire, r, item.n, item.bytes), item.bytes)
    [] item.k = "str" -> TakeString(wire, r, item.n, TRUE)
    [] item.k = "raw" -> TakeString(wire, r, item.n, FALSE)
    [] item.k = "bits" -> TakeBits(wire, r, item.n)

\* One flat item after the other, until one cannot be read.
ReadAll(layout, wire, r) ==
  LET read[i \in 0..Len(layout)] ==
        IF i = 0 THEN r
        ELSE LET before == read[i - 1]
             IN  IF before.ok THEN ReadFlat(wire, before, layout[i]) ELSE before
  IN  read[Len(layout)]
=============================================================================
