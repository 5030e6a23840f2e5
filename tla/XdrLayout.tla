------------------------------ MODULE XdrLayout ------------------------------
(***************************************************************************)
(* Writing, encoding and reading by a layout: the unions, lists and lists    *)
(* of attributes that the coders build from the flat items of XdrItem.       *)
(***************************************************************************)
EXTENDS XdrItem
LOCAL INSTANCE Integers
LOCAL INSTANCE Sequences
LOCAL INSTANCE SequencesExt
LOCAL INSTANCE FiniteSetsExt
LOCAL INSTANCE TLC

\* The arm of a number, or the one for every other number.
Otherwise == -1
ArmOf(item, tag) == IF tag \in DOMAIN item.arms THEN item.arms[tag]
                    ELSE IF Otherwise \in DOMAIN item.arms THEN item.arms[Otherwise]
                    ELSE << >>

(***************************************************************************)
(* Bitmaps: two words, the bit of attribute a being bit a % 32 of word a / 32. *)
(***************************************************************************)
Has(mask, bit) == (mask \div 2^bit) % 2 = 1
MaskOf(attrs, word) ==
  MapThenSumSet(LAMBDA a : 2^(a % 32), {a \in attrs : a \div 32 = word})
MaskWords(attrs) == <<MaskOf(attrs, 0), MaskOf(attrs, 1)>>
AttrsOf(mask) ==
  {a \in 0..61 : a \div 32 < Len(mask) /\ a % 32 < 30 /\ Has(mask[a \div 32 + 1], a % 32)}
Ordered(attrs) == SelectSeq([a \in 1..61 |-> a], LAMBDA a : a \in attrs)

(***************************************************************************)
(* Writing.  `choice` settles what the writer is free to choose: the number  *)
(* of each union and list, the length of what has a variable length, and the  *)
(* attributes.  The result holds the words, in order the values they stand    *)
(* for, and each attribute with its values and words.                        *)
(***************************************************************************)
Choice(tags, size, attrs) == [tags |-> tags, size |-> size, attrs |-> attrs]

TagOf(choice, n) == IF n \in DOMAIN choice.tags THEN choice.tags[n] ELSE 0

Empty == [words |-> << >>, vals |-> << >>, attrs |-> << >>]

Token(id, o, i) == 1000 * id + Len(o.words) + i

\* Appends the words `head` and a value that consists of `data`.
Put(o, n, head, bytes, data) ==
  [o EXCEPT !.words = @ \o head \o data, !.vals = Append(@, <<n, bytes, data>>)]

PutNumber(o, n, x) == Put(o, n, << >>, 4, <<x>>)
PutBits(o, n, attrs) == Put(o, n, <<2>>, 8, MaskWords(attrs))

RECURSIVE Write(_, _, _, _), WriteItem(_, _, _, _), WriteTimes(_, _, _, _, _)

Write(layout, choice, id, o) ==
  IF layout = << >> THEN o
  ELSE Write(Tail(layout), choice, id, WriteItem(o, Head(layout), choice, id))

\* The attributes chosen, in their order; their length counts whole words.
WriteAttrs(o, item, choice, id) ==
  LET m == PutBits(o, item.n \o ".attrmask", choice.attrs)
      inner == FoldLeft(LAMBDA acc, a :
                 LET w == Write(item.table[a], choice, id, [acc EXCEPT !.vals = << >>])
                 IN  [w EXCEPT !.attrs = Append(@,
                        [attr |-> a, vals |-> w.vals,
                         words |-> SubSeq(w.words, Len(acc.words) + 1, Len(w.words))])],
                 [m EXCEPT !.words = Append(@, 0), !.attrs = << >>],
                 Ordered(choice.attrs))
      data == SubSeq(inner.words, Len(m.words) + 2, Len(inner.words))
  IN  [Put(m, item.n \o ".attr_vals", <<4 * Len(data)>>, 4 * Len(data), data)
         EXCEPT !.attrs = m.attrs \o inner.attrs]

WriteItem(o, item, choice, id) ==
  LET bytes == IF item.k = "fix" THEN item.bytes ELSE choice.size
      data  == [i \in 1..Words(bytes) |-> Token(id, o, i)]
  IN CASE item.k = "fix"   -> Put(o, item.n, << >>, bytes, data)
       [] item.k = "str"   -> Put(o, item.n, <<bytes>>, bytes, data)
       [] item.k = "bits"  -> PutBits(o, item.n, choice.attrs)
       [] item.k = "attrs" -> WriteAttrs(o, item, choice, id)
       [] item.k = "sw"    ->
            LET tag == TagOf(choice, item.n)
            IN  Write(ArmOf(item, tag), choice, id, PutNumber(o, item.n, tag))
       [] item.k = "count" ->
            LET times == TagOf(choice, item.n)
            IN  WriteTimes(item.body, choice, id, PutNumber(o, item.n, times), times)
       [] item.k = "list"  ->
            LET more == <<Num(item.n \o ".follows")>> \o item.body
                one  == [choice EXCEPT !.tags = (item.n \o ".follows") :> 1 @@ @]
            IN  PutNumber(WriteTimes(more, one, id, o, TagOf(choice, item.n)),
                          item.n \o ".follows", 0)

WriteTimes(body, choice, id, o, times) ==
  IF times = 0 THEN o
  ELSE WriteTimes(body, choice, id, Write(body, choice, id, o), times - 1)

(***************************************************************************)
(* Encoding: the fields `vals` holds, written by a layout that may name        *)
(* fewer fields, or name them in another order.                             *)
(***************************************************************************)
ValueOf(vals, n) ==
  LET i == CHOOSE j \in 1..Len(vals) : vals[j][1] = n IN vals[i]

CapAt(most, x) == IF x > most THEN most ELSE x

RECURSIVE Encode(_, _)
EncodeItem(item, vals) ==
  LET v == ValueOf(vals, item.n) IN
  CASE item.k = "sw" -> v[3] \o Encode(ArmOf(item, v[3][1]), vals)
    [] item.k = "capped" -> <<CapAt(item.most, v[3][1])>>
    [] OTHER -> EncodeFlat(item, v)

Encode(layout, vals) ==
  IF layout = << >> THEN << >>
  ELSE EncodeItem(Head(layout), vals) \o Encode(Tail(layout), vals)

(***************************************************************************)
(* Reading.                                                                *)
(***************************************************************************)
NegatedValue(n, x) == <<n, 4, <<IF x = 0 THEN 1 ELSE 0>>>>

RECURSIVE Read(_, _, _), ReadItem(_, _, _), ReadTimes(_, _, _, _)

Read(layout, wire, r) ==
  IF layout = << >> \/ ~r.ok THEN r
  ELSE Read(Tail(layout), wire, ReadItem(wire, r, Head(layout)))

\* Attributes: the values the bitmap announces, which must fill the length.
ReadAttrs(wire, r, item) ==
  LET m == TakeBits(wire, r, item.n \o ".attrmask")
      len == WordAt(wire, m.pos)
      raw == TakeString(wire, m, item.n \o ".attr_vals", FALSE)
      mask == AttrsOf(m.vals[Len(m.vals)][3])
      inner == FoldLeft(LAMBDA acc, a :
                 IF ~acc.ok \/ a \notin DOMAIN item.table THEN Refused(acc)
                 ELSE LET v == Read(item.table[a], wire, [acc EXCEPT !.vals = << >>])
                      IN  [v EXCEPT !.attrs = Append(@, [attr |-> a, vals |-> v.vals])],
                 SkipBytes([m EXCEPT !.attrs = << >>], 4), Ordered(mask))
  IN  IF ~m.ok \/ ~raw.ok THEN Refused(m)
      ELSE [raw EXCEPT !.ok = inner.ok /\ inner.pos = raw.pos,
                       !.attrs = @ \o inner.attrs]

ReadItem(wire, r, item) ==
  CASE item.k \in Flat -> ReadFlat(wire, r, item)
    [] item.k = "negated" ->
         LET t == TakeNumber(wire, r, item.n)
         IN  IF t.ok THEN [t EXCEPT !.vals = Append(r.vals, NegatedValue(item.n, LastNumber(t)))]
             ELSE t
    [] item.k = "fail" -> Refused(r)
    [] item.k = "counted" ->
         LET t == TakeString(wire, r, item.n, TRUE)
         IN  [t EXCEPT !.ok = @ /\ ValueOf(t.vals, item.n)[2] = ValueOf(t.vals, item.of)[3][1]]
    [] item.k = "attrs" -> ReadAttrs(wire, r, item)
    [] item.k = "sw" ->
         LET t == TakeNumber(wire, r, item.n)
         IN  IF t.ok THEN Read(ArmOf(item, LastNumber(t)), wire, t) ELSE t
    [] item.k = "count" ->
         LET t == TakeNumber(wire, r, item.n)
         IN  IF t.ok THEN ReadTimes(item.body, wire, t, LastNumber(t)) ELSE t
    [] item.k = "list" ->
         LET t == TakeNumber(wire, r, item.n \o ".follows")
         IN  IF ~t.ok \/ LastNumber(t) # 1 THEN t
             ELSE LET b == Read(item.body, wire, t)
                  IN  IF b.ok THEN ReadItem(wire, b, item) ELSE b

ReadTimes(body, wire, r, times) ==
  IF times = 0 \/ ~r.ok THEN r
  ELSE ReadTimes(body, wire, Read(body, wire, r), times - 1)
=============================================================================
