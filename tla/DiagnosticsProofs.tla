------------------------- MODULE DiagnosticsProofs -------------------------
(***************************************************************************)
(* Proofs about Diagnostics: the numbers of the records, the walk over     *)
(* them and the parts of a message, for all texts, buffers and orders of   *)
(* the calls.                                                              *)
(***************************************************************************)
EXTENDS Diagnostics, WidecharProofs, FiniteSetTheorems

\* SQLGetDiagField is not called for record 1 while the numbers are read: it takes
\* GetDiagRecord back to the first number of every record.
Undisturbed == 1 \notin FieldRecords

\* Buffers have room for the terminating zero: WriteStringUtf8 writes everything to one
\* that has none.
HaveRoom == 0 \notin Buffers

\* No text has two lead surrogates in a row, which utf16_replace_invalid lets through.
NoLeadsInRow == \A t \in Texts : NoTwoLeads(t)

\* The narrow function's buffer, of an SQLSMALLINT bytes at most, has room for the text or
\* for all that the wide buffer takes.
EnoughBytes == \A t \in Texts, n \in Buffers : 3 * n <= MaxShort \/ 3 * Len(t) < MaxShort
----------------------------------------------------------------------------
\* How far a record was read: the offsets start with 0 and lie within the message.
Offsets == Seq(Nat)
RecordOK(r) ==
  /\ r.msg \in Seq(Bytes) /\ r.msg = utf16_to_utf8_lenient(r.text)
  /\ r.stack_msg_offset \in Offsets /\ r.stack_msg_offset # << >>
  /\ r.stack_msg_offset[1] = 0
  /\ \A k \in DOMAIN r.stack_msg_offset : r.stack_msg_offset[k] < Len(r.msg)

RecordSet == [text : Texts, msg : Seq(Bytes), stack_msg_offset : Offsets]
PartSet   == [rec : Nat, at_byte : BOOLEAN, from : Nat, to : Nat]

\* The numbers v of n records: every record has one, in the order of the records.
Numbered(v, n) ==
  /\ v \in Seq(1..n)
  /\ \A i \in 1..n : \E j \in 1..Len(v) : v[j] = i
  /\ \A i, j \in 1..Len(v) : i < j => v[i] <= v[j]

RecordsInv ==
  /\ records \in Seq(RecordSet)
  /\ \A i \in 1..Len(records) : RecordOK(records[i])
  /\ Numbered(vec, Len(records))
  /\ walk \in Seq(PartSet) /\ no_data \in Nat

\* The walk followed the numbers, and those it has not reached are one per record.
WalkInv ==
  /\ Len(walk) <= Len(vec)
  /\ \A k \in 1..Len(walk) : walk[k].rec = vec[k]
  /\ walk # << >> => \A i, j \in 1..Len(vec) : Len(walk) < i /\ i < j => vec[i] < vec[j]
  /\ no_data = Len(walk) + 1 /\ walk # << >> => Len(vec) = Len(walk)

\* When the next number is of a record already read, its offset is behind what was
\* returned of it, if that was cut at a byte, and has moved on.
PartsInv ==
  /\ \A k \in 1..Len(walk) :
       walk[k].from <= walk[k].to /\ walk[k].from < Len(records[walk[k].rec].msg)
  /\ \A j, k \in 1..Len(walk) : j < k /\ walk[j].rec = walk[k].rec =>
       (walk[j].at_byte => walk[j].to <= walk[k].from) /\ walk[j].from < walk[k].from
  /\ \A k \in 1..Len(walk) :
       Len(walk) < Len(vec) /\ vec[Len(walk) + 1] = walk[k].rec =>
         LET o == Offset(records[walk[k].rec])
         IN  (walk[k].at_byte => walk[k].to <= o) /\ walk[k].from < o

DiagInv ==
  /\ RecordsInv
  /\ Undisturbed => WalkInv /\ (HaveRoom => PartsInv)
----------------------------------------------------------------------------
(***************************************************************************)
(* Sequences and numbers.                                                  *)
(***************************************************************************)
\* ClearStackMsgOffset stops at an offset 0, the first one at the latest.
LEMMA LastZero ==
  ASSUME NEW s \in Seq(Nat), s # << >>, s[1] = 0
  PROVE  LET k == SelectLastInSeq(s, LAMBDA o : o = 0) IN k \in 1..Len(s) /\ s[k] = 0
<1> DEFINE I == {i \in 1..Len(s) : s[i] = 0}
<1>1. Len(s) \in Nat /\ 1 \in 1..Len(s)
  OBVIOUS
<1>2. 1 \in I /\ I \subseteq 1..Len(s)
  BY <1>1
<1>3. Max(I) \in I
  BY <1>1, <1>2, LargestPlace
<1>4. SelectLastInSeq(s, LAMBDA o : o = 0) = IF I # {} THEN Max(I) ELSE 0
  BY DEF SelectLastInSeq
<1> QED BY <1>2, <1>3, <1>4

\* A number that fits is not changed by the conversion to SQLSMALLINT.
LEMMA ShortFits ==
  ASSUME NEW n \in (-MaxShort - 1)..MaxShort
  PROVE  Short(n) = n
<1> DEFINE m == 2 * (MaxShort + 1)
           x == n + MaxShort + 1
<1>1. m \in Nat \ {0} /\ x \in 0..(m - 1)
  BY WidecharAssumption
<1>2. x % m = x
  <2>1. ASSUME NEW p \in Nat \ {0}, NEW y \in 0..(p - 1) PROVE y % p = y
    OBVIOUS
  <2> HIDE DEF x, m
  <2> QED BY <1>1, <2>1
<1> QED BY <1>2, WidecharAssumption DEF Short

\* AddNewRecIdx gives the record of number n the next number too; the rest moves up.
LEMMA AddNewRecIdxElements ==
  ASSUME NEW S, NEW v \in Seq(S), NEW n \in 1..Len(v)
  PROVE  LET w == AddNewRecIdx(v, n)
         IN /\ w \in Seq(S) /\ Len(w) = Len(v) + 1
            /\ \A j \in 1..n : w[j] = v[j]
            /\ w[n + 1] = v[n]
            /\ \A j \in (n + 1)..Len(v) : w[j + 1] = v[j]
<1> DEFINE a == SubSeq(v, 1, n)
           b == <<v[n]>>
           c == SubSeq(v, n + 1, Len(v))
<1>0. Len(v) \in Nat /\ n \in Nat /\ (n + 1) - 1 = n
  OBVIOUS
<1>1. a \in Seq(S) /\ Len(a) = n /\ \A j \in 1..n : a[j] = v[j]
  BY <1>0
<1>2. c \in Seq(S) /\ Len(c) = Len(v) - n /\ \A j \in 1..(Len(v) - n) : c[j] = v[n + j]
  BY <1>0
<1>3. b \in Seq(S) /\ Len(b) = 1 /\ b[1] = v[n]
  OBVIOUS
<1>4. AddNewRecIdx(v, n) = a \o b \o c
  <2>1. AddNewRecIdx(v, n) = InsertAt(v, n + 1, v[n])
    BY Zenon DEF AddNewRecIdx
  <2>2. InsertAt(v, n + 1, v[n]) = SubSeq(v, 1, (n + 1) - 1) \o <<v[n]>> \o SubSeq(v, n + 1, Len(v))
    BY Zenon DEF InsertAt
  <2> QED BY Zenon, <1>0, <2>1, <2>2 DEF a, b, c
<1> DEFINE d == a \o b
           w == d \o c
<1> HIDE DEF a, b, c
<1>5. /\ d \in Seq(S) /\ Len(d) = Len(a) + Len(b)
      /\ \A j \in 1..(Len(a) + Len(b)) : d[j] = IF j <= Len(a) THEN a[j] ELSE b[j - Len(a)]
  BY <1>1, <1>3, ConcatProperties
<1> HIDE DEF d
<1>6. /\ w \in Seq(S) /\ Len(w) = Len(d) + Len(c)
      /\ \A j \in 1..(Len(d) + Len(c)) : w[j] = IF j <= Len(d) THEN d[j] ELSE c[j - Len(d)]
  <2>1. d \in Seq(S) /\ c \in Seq(S)
    BY <1>2, <1>5
  <2> QED BY <2>1, ConcatProperties
<1> HIDE DEF w
<1>7. Len(d) = n + 1 /\ d[n + 1] = v[n] /\ \A j \in 1..n : d[j] = v[j]
  BY <1>0, <1>1, <1>3, <1>5
<1>8. /\ w \in Seq(S) /\ Len(w) = Len(v) + 1 /\ w[n + 1] = v[n]
      /\ \A j \in 1..n : w[j] = v[j]
  BY SMTT(30), <1>0, <1>2, <1>6, <1>7
<1>9. \A j \in (n + 1)..Len(v) : w[j + 1] = v[j]
  <2> SUFFICES ASSUME NEW j \in (n + 1)..Len(v) PROVE w[j + 1] = v[j]
    OBVIOUS
  <2>1. w[j + 1] = c[j - n]
    <3>1. /\ j + 1 \in 1..(Len(d) + Len(c)) /\ ~(j + 1 <= Len(d))
          /\ (j + 1) - Len(d) = j - n
      BY <1>0, <1>2, <1>7
    <3>2. w[j + 1] = c[(j + 1) - Len(d)]
      BY <1>6, <3>1
    <3> QED BY <3>1, <3>2
  <2>2. j - n \in 1..(Len(v) - n) /\ n + (j - n) = j
    BY <1>0
  <2> QED BY <1>2, <2>1, <2>2
<1>10. AddNewRecIdx(v, n) = w
  BY <1>4 DEF w, d
<1> QED BY <1>8, <1>9, <1>10
----------------------------------------------------------------------------
(***************************************************************************)
(* A record and its offsets.                                               *)
(***************************************************************************)
\* The last offset is a place in the message.
LEMMA OffsetInMessage ==
  ASSUME NEW r, RecordOK(r)
  PROVE  Offset(r) \in Nat /\ Len(r.msg) \in Nat /\ Offset(r) < Len(r.msg)
<1> DEFINE s == r.stack_msg_offset
<1>1. s \in Seq(Nat) /\ s # << >>
  BY DEF RecordOK, Offsets
<1>2. Len(s) \in 1..Len(s) /\ DOMAIN s = 1..Len(s)
  BY <1>1
<1>3. Offset(r) = s[Len(s)]
  BY DEF Offset, Last
<1>4. s[Len(s)] < Len(r.msg) /\ s[Len(s)] \in Nat
  BY <1>1, <1>2 DEF RecordOK
<1>5. Len(r.msg) \in Nat
  BY DEF RecordOK
<1> QED BY <1>3, <1>4, <1>5

\* ClearStackMsgOffset keeps the first offset.
LEMMA ClearOK ==
  ASSUME NEW r \in RecordSet, RecordOK(r)
  PROVE  LET c == ClearStackMsgOffset(r)
         IN c \in RecordSet /\ RecordOK(c) /\ c.msg = r.msg /\ c.text = r.text /\ Offset(c) = 0
<1> DEFINE s == r.stack_msg_offset
           k == SelectLastInSeq(s, LAMBDA o : o = 0)
           z == SubSeq(s, 1, k)
           c == [r EXCEPT !.stack_msg_offset = z]
<1>1. /\ s \in Seq(Nat) /\ s # << >> /\ s[1] = 0
      /\ \A j \in DOMAIN s : s[j] < Len(r.msg)
  BY DEF RecordOK, Offsets
<1>2. k \in 1..Len(s) /\ s[k] = 0
  BY <1>1, LastZero
<1>3. ClearStackMsgOffset(r) = c
  BY DEF ClearStackMsgOffset
<1> HIDE DEF k
<1>4. z \in Seq(Nat) /\ Len(z) = k /\ \A j \in 1..k : z[j] = s[j]
  BY <1>1, <1>2
<1>5. z # << >> /\ z[1] = 0 /\ DOMAIN z = 1..k
  BY <1>1, <1>2, <1>4
<1>6. \A j \in DOMAIN z : z[j] < Len(r.msg)
  BY <1>1, <1>2, <1>4, <1>5
<1> HIDE DEF z
<1>7. /\ c \in RecordSet /\ c.msg = r.msg /\ c.text = r.text /\ c.stack_msg_offset = z
  BY <1>4 DEF RecordSet, Offsets
<1> HIDE DEF c
<1>8. RecordOK(c)
  BY <1>4, <1>5, <1>6, <1>7 DEF RecordOK, Offsets
<1>9. Offset(c) = z[Len(z)]
  BY <1>7 DEF Offset, Last
<1>10. Offset(c) = 0
  BY <1>2, <1>4, <1>9
<1> QED BY <1>3, <1>7, <1>8, <1>10

\* GetMessage moves on by b, or starts again when that is the end of the message.
LEMMA GetMessageOK ==
  ASSUME NEW r \in RecordSet, RecordOK(r), NEW b \in Nat
  PROVE  LET g == GetMessage(r, b)
         IN /\ g \in RecordSet /\ RecordOK(g) /\ g.msg = r.msg
            /\ Offset(r) + b < Len(r.msg) => Offset(g) = Offset(r) + b
<1> DEFINE s == r.stack_msg_offset
           o == Offset(r) + b
           z == Append(s, o)
           c == [r EXCEPT !.stack_msg_offset = z]
<1>0. Offset(r) \in Nat /\ Len(r.msg) \in Nat
  BY OffsetInMessage
<1>1. CASE o >= Len(r.msg)
  <2>1. GetMessage(r, b) = ClearStackMsgOffset(r)
    BY <1>1 DEF GetMessage
  <2>2. ~(Offset(r) + b < Len(r.msg))
    BY <1>0, <1>1
  <2> QED BY <2>1, <2>2, ClearOK
<1>2. CASE ~(o >= Len(r.msg))
  <2>1. GetMessage(r, b) = c
    BY <1>2 DEF GetMessage
  <2>2. /\ s \in Seq(Nat) /\ s # << >> /\ s[1] = 0
        /\ \A j \in DOMAIN s : s[j] < Len(r.msg)
    BY DEF RecordOK, Offsets
  <2>3. o \in Nat /\ o < Len(r.msg)
    BY <1>0, <1>2
  <2> HIDE DEF o
  <2>4. /\ z \in Seq(Nat) /\ Len(z) = Len(s) + 1 /\ z[Len(s) + 1] = o
        /\ \A j \in 1..Len(s) : z[j] = s[j]
    BY <2>2, <2>3
  <2>5. z # << >> /\ z[1] = 0 /\ DOMAIN z = 1..(Len(s) + 1) /\ DOMAIN s = 1..Len(s)
    BY <2>2, <2>4
  <2>6. \A j \in DOMAIN z : z[j] < Len(r.msg)
    BY <2>2, <2>3, <2>4, <2>5
  <2> HIDE DEF z
  <2>7. c \in RecordSet /\ c.msg = r.msg /\ c.text = r.text /\ c.stack_msg_offset = z
    BY <2>4 DEF RecordSet, Offsets
  <2> HIDE DEF c
  <2>8. RecordOK(c)
    BY <2>4, <2>5, <2>6, <2>7 DEF RecordOK, Offsets
  <2>9. Offset(c) = o
    BY <2>4, <2>7 DEF Offset, Last
  <2> QED BY <2>1, <2>7, <2>8, <2>9 DEF o
<1> QED BY <1>1, <1>2

\* The rest of a message.
LEMMA RestOK ==
  ASSUME NEW r, RecordOK(r)
  PROVE  Rest(r) \in Seq(Bytes) /\ Len(Rest(r)) = Len(r.msg) - Offset(r)
<1>1. Offset(r) \in Nat /\ Len(r.msg) \in Nat /\ Offset(r) < Len(r.msg)
  BY OffsetInMessage
<1>2. r.msg \in Seq(Bytes)
  BY DEF RecordOK
<1> DEFINE o == Offset(r)
           m == r.msg
<1> HIDE DEF o, m
<1>3. SubSeq(m, o + 1, Len(m)) \in Seq(Bytes) /\ Len(SubSeq(m, o + 1, Len(m))) = Len(m) - o
  BY <1>1, <1>2 DEF o, m
<1> QED BY <1>3 DEF Rest, o, m

\* When characters remain by the function's count, GetMessage has not reached the end:
\* the record keeps its place for the number that is added.
LEMMA MoreToCome ==
  ASSUME NEW r, RecordOK(r), NEW b \in 0..MaxShort, NEW wide \in BOOLEAN,
         Remaining(Rest(r), b, wide) > 0
  PROVE  Offset(r) + b < Len(r.msg)
<1> DEFINE rest == Rest(r)
           u == utf8_to_utf16_lenient(rest)
           n == Len(IF wide THEN u ELSE rest)
<1>1. rest \in Seq(Bytes) /\ Len(rest) = Len(r.msg) - Offset(r) /\ Len(rest) \in Nat
  BY RestOK
<1>2. Offset(r) \in Nat /\ Len(r.msg) \in Nat
  BY OffsetInMessage
<1> HIDE DEF rest
<1>3. u \in Seq(Units) /\ Len(u) <= Len(rest)
  BY <1>1, DecodedFits DEF DecodedOK
<1>4. Len(u) \in Nat
  BY <1>3
<1>5. n \in Nat /\ n <= Len(rest)
  BY <1>1, <1>3, <1>4
<1>6. Short(Short(n) - b) > 0
  BY DEF Remaining, rest
<1> HIDE DEF n, u
<1>7. b \in Nat /\ MaxShort \in Nat
  BY WidecharAssumption
<1>8. ASSUME Len(rest) <= b PROVE FALSE
  <2>1. n <= MaxShort /\ n - b <= 0 /\ n - b >= -MaxShort
    BY <1>1, <1>5, <1>7, <1>8
  <2>2. n \in (-MaxShort - 1)..MaxShort /\ n - b \in (-MaxShort - 1)..MaxShort
    BY <1>5, <1>7, <2>1
  <2>3. Short(n) = n /\ Short(n - b) = n - b
    BY <2>2, ShortFits
  <2>4. n - b > 0
    BY <1>6, <2>3
  <2> QED BY <1>5, <1>7, <2>1, <2>4
<1> QED BY <1>1, <1>2, <1>7, <1>8

\* What is written to a buffer leaves room in it for the zero, unless it has none.
LEMMA WrittenFits ==
  ASSUME NEW rest \in Seq(Bytes), NEW b \in Nat, NEW wide \in BOOLEAN,
         NEW has_len \in BOOLEAN
  PROVE  LET len == Len(Written(rest, b, wide, has_len))
         IN len \in Nat /\ (b # 0 => len <= b - 1)
<1> DEFINE u == utf8_to_utf16_lenient(rest)
           w == Written(rest, b, wide, has_len)
<1>1. u \in Seq(Units)
  BY DecodedFits DEF DecodedOK
<1>2. ASSUME NEW S, NEW s \in Seq(S), NEW m \in Nat
      PROVE  Len(Prefix(s, m)) \in Nat /\ Len(Prefix(s, m)) <= m
  <2> DEFINE n == IF m < Len(s) THEN m ELSE Len(s)
  <2>1. n \in Nat /\ n <= m /\ n <= Len(s)
    BY <1>2
  <2> HIDE DEF n
  <2>2. Len(SubSeq(s, 1, n)) = n
    BY <1>2, <2>1
  <2> QED BY <2>1, <2>2 DEF Prefix, n
<1>3. CASE b = 0
  <2>1. w \in {rest, u, Prefix(u, 0)}
    BY <1>3 DEF Written, WriteStringUtf8
  <2>2. Len(rest) \in Nat /\ Len(u) \in Nat /\ Len(Prefix(u, 0)) \in Nat
    BY <1>1, <1>2
  <2> HIDE DEF w, u
  <2> QED BY <1>3, <2>1, <2>2 DEF w
<1>4. CASE b # 0
  <2>1. w \in {Prefix(rest, b - 1), Prefix(u, b - 1)}
    BY <1>4 DEF Written, WriteStringUtf8
  <2>2. b - 1 \in Nat
    BY <1>4
  <2>3. /\ Len(Prefix(rest, b - 1)) \in Nat /\ Len(Prefix(rest, b - 1)) <= b - 1
        /\ Len(Prefix(u, b - 1)) \in Nat /\ Len(Prefix(u, b - 1)) <= b - 1
    BY <1>1, <1>2, <2>2
  <2> HIDE DEF w, u
  <2> QED BY <2>1, <2>3 DEF w
<1> QED BY <1>3, <1>4

\* A message of one-byte characters, and what follows an offset in it, has a unit per byte.
OneByte(c) == \A k \in 1..Len(c) : c[k] = <<"1", 1>>

LEMMA OneByteDecoded ==
  ASSUME NEW c \in Seq(Bytes), OneByte(c)
  PROVE  Len(utf8_to_utf16_lenient(c)) = Len(c)
<1> DEFINE Same(d) == LET a == Decoding(d) IN OneByte(d) => a.have = 0 /\ Len(a.out) = Len(d)
           T == {d \in Seq(Bytes) : Same(d)}
<1>1. << >> \in T
  <2>1. Decoding(<< >>).have = 0 /\ Decoding(<< >>).out = << >>
    BY DecodingSteps DEF DecodeBase
  <2> QED BY <2>1
<1>2. ASSUME NEW d \in Seq(Bytes), NEW x \in Bytes, d \in T PROVE Append(d, x) \in T
  <2> SUFFICES ASSUME OneByte(Append(d, x))
               PROVE  Decoding(Append(d, x)).have = 0 /\ Len(Decoding(Append(d, x)).out) = Len(d) + 1
    BY AppendProperties
  <2>1. /\ Append(d, x) \in Seq(Bytes) /\ Len(Append(d, x)) = Len(d) + 1 /\ Len(d) \in Nat
        /\ \A k \in 1..Len(d) : Append(d, x)[k] = d[k]
        /\ Append(d, x)[Len(d) + 1] = x
    OBVIOUS
  <2>2. OneByte(d) /\ x = <<"1", 1>>
    <3> DEFINE f == Append(d, x)
               n == Len(d)
    <3>1. \A k \in 1..Len(f) : f[k] = <<"1", 1>>
      BY DEF OneByte
    <3>2. n \in Nat /\ Len(f) = n + 1 /\ f[n + 1] = x /\ \A k \in 1..n : f[k] = d[k]
      BY <2>1
    <3> HIDE DEF f, n
    <3>3. n + 1 \in 1..Len(f) /\ \A k \in 1..n : k \in 1..Len(f)
      BY <3>2
    <3>4. x = <<"1", 1>> /\ \A k \in 1..n : d[k] = <<"1", 1>>
      BY Zenon, <3>1, <3>2, <3>3
    <3> QED BY <3>4 DEF OneByte, n
  <2> DEFINE a == Decoding(d)
             e == Decoding(Append(d, x))
  <2>3. a \in DecodeStates /\ e = DecodeStep(a, x)
    BY DecodingSteps
  <2>4. a.have = 0 /\ Len(a.out) = Len(d)
    BY <1>2, <2>2
  <2> HIDE DEF a, e
  <2>5. PICK u \in Seq(Units) : Adds(a, x, e, u)
    BY <2>3, DecodeStepAdds
  <2>6. x[2] = 1 /\ x[2] = Width(x[1])
    BY <2>2 DEF Width
  <2>7. e.have = 0 /\ Len(u) = 1 /\ Len(e.out) = Len(a.out) + Len(u)
    BY <2>4, <2>5, <2>6 DEF Adds
  <2> QED BY <2>1, <2>4, <2>7 DEF e
<1>3. Same(c)
  <2>1. Seq(Bytes) \subseteq T
    <3> HIDE DEF T
    <3> QED BY <1>1, <1>2, SequencesReached
  <2> QED BY <2>1
<1>4. Decoding(c).have = 0 /\ Len(Decoding(c).out) = Len(c)
  BY <1>3
<1> QED BY <1>4, DecodesBytes

\* A part cut at a byte covers no more bytes than were written.
LEMMA CoveredFits ==
  ASSUME NEW r, RecordOK(r), NEW written, Len(written) \in Nat, NEW wide \in BOOLEAN
  PROVE  LET n == Covered(Rest(r), written, wide)
         IN n \in Nat /\ (CutAtByte(r, wide) => n <= Len(written))
<1> DEFINE rest == Rest(r)
           l == Len(written)
           Fits(k) == Len(utf8_to_utf16_lenient(Prefix(rest, k))) <= l
           I == {k \in 0..Len(rest) : Fits(k)}
<1>1. rest \in Seq(Bytes) /\ Len(rest) \in Nat /\ Len(rest) = Len(r.msg) - Offset(r)
  BY RestOK
<1>2. CASE ~wide
  BY <1>2 DEF Covered
<1>3. CASE wide
  <2>1. Covered(rest, written, wide) = Max(I)
    BY <1>3 DEF Covered
  <2>2. 0 \in I
    <3>1. Prefix(rest, 0) = << >>
      <4>1. Prefix(rest, 0) = SubSeq(rest, 1, 0)
        BY <1>1, PrefixAs
      <4> QED BY <4>1, SubSeqEmpty
    <3>2. << >> \in Seq(Bytes) /\ OneByte(<< >>) /\ Len(<< >>) = 0
      BY DEF OneByte
    <3>3. Len(utf8_to_utf16_lenient(<< >>)) = 0
      BY <3>2, OneByteDecoded
    <3> QED BY <1>1, <3>1, <3>3
  <2>3. Max(I) \in I
    <3>1. I \subseteq 0..Len(rest) /\ I # {}
      BY <2>2
    <3> HIDE DEF I
    <3> QED BY <1>1, <3>1, LargestNumber
  <2>4. ASSUME CutAtByte(r, wide), NEW k \in I PROVE k <= l
    <3>1. k \in 0..Len(rest) /\ k \in Nat
      BY <1>1, <2>4
    <3> DEFINE c == SubSeq(rest, 1, k)
    <3>2. Prefix(rest, k) = c
      BY <1>1, <3>1, PrefixAs
    <3>3. c \in Seq(Bytes) /\ Len(c) = k /\ \A j \in 1..k : c[j] = rest[j]
      BY <1>1, <3>1, FirstPart
    <3>4. ASSUME NEW j \in 1..k PROVE rest[j] = <<"1", 1>>
      <4>1. r.msg \in Seq(Bytes) /\ Offset(r) \in Nat /\ Len(r.msg) \in Nat /\ Offset(r) < Len(r.msg)
        BY OffsetInMessage DEF RecordOK
      <4> DEFINE o == Offset(r)
                 m == r.msg
      <4>2. j \in 1..(Len(m) - o)
        BY <1>1, <3>1, <4>1
      <4>3. \A q \in DOMAIN m : m[q] = <<"1", 1>>
        BY <1>3, <2>4 DEF CutAtByte
      <4>4. rest = SubSeq(m, o + 1, Len(m))
        BY DEF Rest
      <4>5. m \in Seq(Bytes) /\ o \in Nat /\ Len(m) \in Nat /\ o < Len(m)
        BY <4>1
      <4> HIDE DEF o, m, rest
      <4>6. o + j \in 1..Len(m) /\ DOMAIN m = 1..Len(m)
        BY <4>2, <4>5
      <4>7. SubSeq(m, o + 1, Len(m))[j] = m[o + j]
        BY <4>2, <4>5
      <4> QED BY <4>3, <4>4, <4>6, <4>7
    <3>5. OneByte(c)
      <4> HIDE DEF c
      <4> QED BY <3>3, <3>4 DEF OneByte
    <3> HIDE DEF c, rest, l
    <3>6. Len(utf8_to_utf16_lenient(c)) = k
      BY <3>3, <3>5, OneByteDecoded
    <3>7. Fits(k)
      BY <2>4
    <3> QED BY <3>2, <3>6, <3>7
  <2> HIDE DEF I
  <2>5. Max(I) \in Nat
    BY <1>1, <2>3 DEF I
  <2> QED BY <2>1, <2>3, <2>4, <2>5 DEF rest, l
<1> QED BY <1>2, <1>3
----------------------------------------------------------------------------
(***************************************************************************)
(* The numbers.                                                            *)
(***************************************************************************)
\* The first number is of the first record.
LEMMA FirstNumber ==
  ASSUME NEW n \in Nat \ {0}, NEW v, Numbered(v, n)
  PROVE  Len(v) \in Nat \ {0} /\ v[1] = 1
<1>1. v \in Seq(1..n) /\ 1 \in 1..n
  BY DEF Numbered
<1>2. PICK j \in 1..Len(v) : v[j] = 1
  BY <1>1 DEF Numbered
<1>3. 1 \in 1..Len(v) /\ v[1] \in 1..n /\ Len(v) \in Nat \ {0}
  BY <1>1
<1>4. v[1] <= 1
  <2>1. CASE j = 1
    BY <1>2, <1>3, <2>1
  <2>2. CASE j # 1
    <3>1. 1 < j
      BY <2>2
    <3>2. v[1] <= v[j]
      BY <1>3, <3>1 DEF Numbered
    <3> QED BY <1>2, <3>2
  <2> QED BY <2>1, <2>2
<1> QED BY <1>3, <1>4

\* Starting again, each record has its own number.
LEMMA OwnNumbers ==
  ASSUME NEW n \in Nat
  PROVE  LET v == [i \in 1..n |-> i]
         IN Numbered(v, n) /\ Len(v) = n /\ \A i \in 1..n : v[i] = i
<1> DEFINE v == [i \in 1..n |-> i]
<1>1. v \in Seq(1..n) /\ Len(v) = n /\ \A i \in 1..n : v[i] = i
  OBVIOUS
<1> HIDE DEF v
<1>2. Numbered(v, n)
  BY <1>1 DEF Numbered
<1> QED BY <1>1, <1>2 DEF v

\* AddNewRecIdx keeps the order of the numbers, and gives the others no further ones.
LEMMA AddedNumber ==
  ASSUME NEW n \in Nat, NEW v, Numbered(v, n), NEW m \in 1..Len(v)
  PROVE  LET w == AddNewRecIdx(v, m)
         IN /\ Numbered(w, n) /\ Len(w) = Len(v) + 1
            /\ \A j \in 1..m : w[j] = v[j]
            /\ w[m + 1] = v[m]
            /\ \A j \in (m + 1)..Len(v) : w[j + 1] = v[j]
<1> DEFINE w == AddNewRecIdx(v, m)
<1>1. v \in Seq(1..n) /\ Len(v) \in Nat
  BY DEF Numbered
<1>2. /\ w \in Seq(1..n) /\ Len(w) = Len(v) + 1
      /\ \A j \in 1..m : w[j] = v[j]
      /\ w[m + 1] = v[m]
      /\ \A j \in (m + 1)..Len(v) : w[j + 1] = v[j]
  BY <1>1, AddNewRecIdxElements
<1> HIDE DEF w
<1> DEFINE old(j) == IF j <= m THEN j ELSE j - 1
<1>3. ASSUME NEW j \in 1..Len(w)
      PROVE  old(j) \in 1..Len(v) /\ w[j] = v[old(j)]
  <2>1. CASE j <= m
    BY <1>2, <2>1
  <2>2. CASE j = m + 1
    BY <1>2, <2>2
  <2>3. CASE j > m + 1
    <3>1. j - 1 \in (m + 1)..Len(v) /\ (j - 1) + 1 = j
      BY <1>1, <1>2, <2>3
    <3>2. w[j] = v[j - 1]
      BY <1>2, <3>1
    <3> QED BY <1>1, <2>3, <3>1, <3>2
  <2> QED BY <2>1, <2>2, <2>3
<1>4. \A i \in 1..n : \E j \in 1..Len(w) : w[j] = i
  <2> SUFFICES ASSUME NEW i \in 1..n PROVE \E j \in 1..Len(w) : w[j] = i
    OBVIOUS
  <2>1. PICK j \in 1..Len(v) : v[j] = i
    BY DEF Numbered
  <2>2. CASE j <= m
    <3>1. j \in 1..Len(w) /\ w[j] = i
      BY SMTT(30), <1>1, <1>2, <2>1, <2>2
    <3> QED BY <3>1
  <2>3. CASE j > m
    <3>1. j + 1 \in 1..Len(w) /\ j \in (m + 1)..Len(v)
      BY <1>1, <1>2, <2>3
    <3>2. w[j + 1] = i
      BY <1>2, <2>1, <3>1
    <3> QED BY <3>1, <3>2
  <2> QED BY <2>2, <2>3
<1>5. \A i, j \in 1..Len(w) : i < j => w[i] <= w[j]
  <2> SUFFICES ASSUME NEW i \in 1..Len(w), NEW j \in 1..Len(w), i < j PROVE w[i] <= w[j]
    OBVIOUS
  <2>1. /\ old(i) \in 1..Len(v) /\ old(j) \in 1..Len(v)
        /\ w[i] = v[old(i)] /\ w[j] = v[old(j)]
    BY <1>3
  <2>2. old(i) <= old(j)
    BY SMTT(30), <1>1, <1>2
  <2> HIDE DEF old
  <2>3. v[old(i)] \in 1..n
    BY SMTT(30), <1>1, <2>1
  <2>4. CASE old(i) < old(j)
    BY <2>1, <2>4 DEF Numbered
  <2>5. CASE old(i) = old(j)
    BY <2>1, <2>3, <2>5
  <2> QED BY <2>1, <2>2, <2>4, <2>5
<1> QED BY <1>2, <1>4, <1>5 DEF Numbered, w

\* GetDiagRecord: number 1 starts again.
LEMMA GetDiagRecordOK ==
  ASSUME RecordsInv, NEW n
  PROVE  LET at == GetDiagRecord(n)
         IN /\ at.records \in Seq(RecordSet) /\ Len(at.records) = Len(records)
            /\ \A i \in 1..Len(records) :
                 RecordOK(at.records[i]) /\ at.records[i].msg = records[i].msg
            /\ Numbered(at.vec, Len(records))
            /\ IF n # 1 THEN at.records = records /\ at.vec = vec
               ELSE Len(at.vec) = Len(records) /\ \A i \in 1..Len(records) : at.vec[i] = i
<1> DEFINE at == GetDiagRecord(n)
           c == [i \in 1..Len(records) |-> ClearStackMsgOffset(records[i])]
           v == [i \in 1..Len(records) |-> i]
<1>1. records \in Seq(RecordSet) /\ Len(records) \in Nat /\ DOMAIN records = 1..Len(records)
  BY DEF RecordsInv
<1>2. CASE n # 1
  BY <1>2 DEF GetDiagRecord, RecordsInv
<1>3. CASE n = 1
  <2>1. at = [records |-> c, vec |-> v]
    BY <1>1, <1>3 DEF GetDiagRecord
  <2>2. ASSUME NEW i \in 1..Len(records)
        PROVE  LET c1 == ClearStackMsgOffset(records[i])
               IN  c1 \in RecordSet /\ RecordOK(c1) /\ c1.msg = records[i].msg
    <3>1. records[i] \in RecordSet /\ RecordOK(records[i])
      BY <1>1, <2>2 DEF RecordsInv
    <3> QED BY <3>1, ClearOK
  <2>3. c \in [1..Len(records) -> RecordSet]
    BY <2>2
  <2>4. c \in Seq(RecordSet) /\ Len(c) = Len(records)
    BY <1>1, <2>3
  <2>5. \A i \in 1..Len(records) : RecordOK(c[i]) /\ c[i].msg = records[i].msg
    BY <2>2
  <2> HIDE DEF c
  <2>6. Numbered(v, Len(records)) /\ Len(v) = Len(records) /\ \A i \in 1..Len(records) : v[i] = i
    BY <1>1, OwnNumbers
  <2> HIDE DEF v
  <2>7. at.records = c /\ at.vec = v
    BY <2>1
  <2> HIDE DEF at
  <2>8. /\ at.records \in Seq(RecordSet) /\ Len(at.records) = Len(records)
        /\ \A i \in 1..Len(records) :
             RecordOK(at.records[i]) /\ at.records[i].msg = records[i].msg
        /\ Numbered(at.vec, Len(records))
        /\ Len(at.vec) = Len(records) /\ \A i \in 1..Len(records) : at.vec[i] = i
    BY <2>4, <2>5, <2>6, <2>7
  <2> QED BY <1>3, <2>8 DEF at
<1> QED BY <1>2, <1>3
----------------------------------------------------------------------------
(***************************************************************************)
(* The calls.                                                              *)
(***************************************************************************)
\* A record is posted, alone or behind others.
LEMMA PostStep ==
  ASSUME DiagInv, NEW t \in Texts, Post(t) \/ PostMore(t)
  PROVE  DiagInv'
<1> DEFINE d == DiagRecord(t)
           m == utf16_to_utf8_lenient(t)
           z == <<0>>
<1>1. m \in Seq(Bytes) /\ m # << >>
  BY DiagnosticsAssumption, EncodedFits DEF EncodedOK
<1>2. z \in Seq(Nat) /\ z # << >> /\ z[1] = 0 /\ DOMAIN z = {1}
  OBVIOUS
<1> HIDE DEF m, z
<1>3. Len(m) \in Nat /\ Len(m) > 0
  BY <1>1
<1>4. d = [text |-> t, msg |-> m, stack_msg_offset |-> z]
  BY DEF DiagRecord, m, z
<1> HIDE DEF d
<1>5. d \in RecordSet /\ RecordOK(d)
  <2>1. d.text = t /\ d.msg = m /\ d.stack_msg_offset = z
    BY <1>4
  <2>2. d.msg = utf16_to_utf8_lenient(d.text)
    BY <2>1 DEF m
  <2>3. d \in RecordSet
    BY <1>1, <1>2, <1>4 DEF RecordSet, Offsets
  <2> QED BY <1>1, <1>2, <1>3, <2>1, <2>2, <2>3 DEF RecordOK, Offsets
<1>6. walk' = << >> /\ no_data' = 0
  BY DEF Post, PostMore
<1>7. /\ records' \in Seq(RecordSet)
      /\ \A i \in 1..Len(records') : RecordOK(records'[i])
      /\ Numbered(vec', Len(records'))
  <2>1. CASE Post(t)
    <3>1. records' = <<d>> /\ vec' = <<1>>
      BY <2>1 DEF Post, d
    <3>2. <<d>> \in Seq(RecordSet) /\ Len(<<d>>) = 1 /\ <<d>>[1] = d
      BY <1>5
    <3>3. Numbered(<<1>>, 1)
      BY DEF Numbered
    <3> QED BY <1>5, <3>1, <3>2, <3>3
  <2>2. CASE PostMore(t)
    <3> DEFINE n == Len(records)
               v == Append(vec, n + 1)
    <3>1. records' = Append(records, d) /\ vec' = v
      BY <2>2 DEF PostMore, d
    <3>2. /\ records \in Seq(RecordSet) /\ n \in Nat /\ Numbered(vec, n)
          /\ \A i \in 1..n : RecordOK(records[i])
      BY DEF DiagInv, RecordsInv
    <3>3. /\ Append(records, d) \in Seq(RecordSet) /\ Len(Append(records, d)) = n + 1
          /\ \A i \in 1..(n + 1) : RecordOK(Append(records, d)[i])
      BY <1>5, <3>2
    <3>4. Numbered(v, n + 1)
      <4> HIDE DEF n
      <4>1. vec \in Seq(1..n) /\ vec \in Seq(1..(n + 1)) /\ n + 1 \in 1..(n + 1)
        BY <3>2 DEF Numbered
      <4>2. /\ v \in Seq(1..(n + 1)) /\ Len(v) = Len(vec) + 1 /\ v[Len(vec) + 1] = n + 1
            /\ \A i \in 1..Len(vec) : v[i] = vec[i]
        BY <4>1
      <4>3. Len(vec) \in Nat /\ \A i \in 1..Len(vec) : vec[i] \in 1..n
        <5>1. ASSUME NEW S, NEW q \in Seq(S)
              PROVE  Len(q) \in Nat /\ \A i \in 1..Len(q) : q[i] \in S
          BY <5>1
        <5> QED BY <4>1, <5>1
      <4> HIDE DEF v
      <4>4. \A i \in 1..(n + 1) : \E j \in 1..Len(v) : v[j] = i
        <5> SUFFICES ASSUME NEW i \in 1..(n + 1) PROVE \E j \in 1..Len(v) : v[j] = i
          OBVIOUS
        <5>1. CASE i = n + 1
          <6>1. Len(vec) + 1 \in 1..Len(v)
            BY <4>1, <4>2
          <6> QED BY <4>2, <5>1, <6>1
        <5>2. CASE i # n + 1
          <6>1. i \in 1..n
            BY <3>2, <5>2
          <6>2. PICK j \in 1..Len(vec) : vec[j] = i
            BY <3>2, <6>1 DEF Numbered
          <6>3. j \in 1..Len(v) /\ v[j] = i
            BY <4>1, <4>2, <6>2
          <6> QED BY <6>3
        <5> QED BY <5>1, <5>2
      <4>5. \A i, j \in 1..Len(v) : i < j => v[i] <= v[j]
        <5> SUFFICES ASSUME NEW i \in 1..Len(v), NEW j \in 1..Len(v), i < j PROVE v[i] <= v[j]
          OBVIOUS
        <5>1. i \in 1..Len(vec) /\ v[i] = vec[i] /\ vec[i] \in 1..n
          BY <4>1, <4>2, <4>3
        <5>2. CASE j = Len(vec) + 1
          BY <3>2, <4>2, <5>1, <5>2
        <5>3. CASE j # Len(vec) + 1
          <6>1. j \in 1..Len(vec)
            BY <4>2, <4>3, <5>3
          <6>2. v[j] = vec[j]
            BY <4>2, <6>1
          <6>3. vec[i] <= vec[j]
            BY <3>2, <5>1, <6>1 DEF Numbered
          <6> QED BY <5>1, <6>2, <6>3
        <5> QED BY <5>2, <5>3
      <4> QED BY <4>2, <4>4, <4>5 DEF Numbered
    <3> QED BY <3>1, <3>3, <3>4
  <2> QED BY <2>1, <2>2
<1>8. RecordsInv'
  BY <1>6, <1>7 DEF RecordsInv
<1>9. WalkInv' /\ PartsInv'
  <2>1. Len(walk') = 0 /\ 1..0 = {}
    BY <1>6
  <2>2. vec' \in Seq(1..Len(records'))
    BY <1>7 DEF Numbered
  <2>3. Len(vec') \in Nat
    BY <2>2
  <2> QED BY <1>6, <2>1, <2>3 DEF WalkInv, PartsInv
<1> QED BY <1>8, <1>9 DEF DiagInv

\* SQLGetDiagRec returns SQL_NO_DATA.
LEMMA NoDataStep ==
  ASSUME DiagInv, NEW n \in 1..(Len(vec) + 1), n > Len(vec), no_data' = n,
         UNCHANGED <<records, vec, walk>>
  PROVE  DiagInv'
<1>0. Len(vec) \in Nat /\ Len(walk) \in Nat
  BY DEF DiagInv, RecordsInv, Numbered
<1>1. n = Len(vec) + 1 /\ n \in Nat
  BY <1>0
<1>2. RecordsInv'
  BY <1>1 DEF DiagInv, RecordsInv, Numbered, RecordOK
<1>3. WalkInv => WalkInv'
  BY <1>0, <1>1 DEF WalkInv
<1>4. PartsInv => PartsInv'
  BY DEF PartsInv, Offset
<1> QED BY <1>2, <1>3, <1>4 DEF DiagInv

\* SQLGetDiagRec returns a part of record i, the one of number n: what it makes of the
\* records, the numbers and the walk.
Reads(n, b, i, part, more) ==
  LET at == GetDiagRecord(n)
  IN /\ records' = [at.records EXCEPT ![i] = GetMessage(@, b)]
     /\ vec' = IF more THEN AddNewRecIdx(at.vec, n) ELSE at.vec
     /\ walk' = Walked(n, part)
     /\ no_data' = 0

\* What is known of the part, r being the record.
Part(part, i, r, b, more) ==
  /\ part \in PartSet /\ part.rec = i /\ part.from = Offset(r) /\ part.from <= part.to
  /\ HaveRoom => b # 0 /\ (part.at_byte => part.to <= Offset(r) + b)
  /\ more => Offset(r) + b < Len(r.msg)

\* The records and numbers after it: record i has moved on, and its number is followed
\* by another one if there is more of it.
LEMMA ReadRecords ==
  ASSUME RecordsInv, NEW n \in 1..Len(vec), NEW b \in Nat, NEW part, NEW more \in BOOLEAN,
         Reads(n, b, vec[n], part, more),
         Part(part, vec[n], GetDiagRecord(n).records[vec[n]], b, more)
  PROVE  LET at == GetDiagRecord(n)
             i == vec[n]
         IN /\ RecordsInv' /\ i \in 1..Len(records) /\ Len(records') = Len(records)
            /\ n \in 1..Len(at.vec) /\ at.vec[n] = i
            /\ RecordOK(at.records[i])
            /\ \A j \in 1..Len(records) :
                 records'[j].msg = records[j].msg /\ at.records[j].msg = records[j].msg
            /\ more => Offset(records'[i]) = Offset(at.records[i]) + b
            /\ \A j \in 1..n : vec'[j] = at.vec[j]
            /\ more => /\ Len(vec') = Len(at.vec) + 1 /\ vec'[n + 1] = i
                       /\ \A j \in (n + 1)..Len(at.vec) : vec'[j + 1] = at.vec[j]
            /\ ~more => vec' = at.vec
<1> DEFINE at == GetDiagRecord(n)
           a == at.records
           v == at.vec
           i == vec[n]
           g == GetMessage(a[i], b)
<1>1. /\ a \in Seq(RecordSet) /\ Len(a) = Len(records)
      /\ \A j \in 1..Len(records) : RecordOK(a[j]) /\ a[j].msg = records[j].msg
      /\ Numbered(v, Len(records))
      /\ IF n # 1 THEN a = records /\ v = vec
         ELSE Len(v) = Len(records) /\ \A j \in 1..Len(records) : v[j] = j
  BY GetDiagRecordOK
<1>2. /\ records' = [a EXCEPT ![i] = g]
      /\ vec' = IF more THEN AddNewRecIdx(v, n) ELSE v
      /\ walk' = Walked(n, part) /\ no_data' = 0
  BY DEF Reads
<1>3. Part(part, i, a[i], b, more)
  OBVIOUS
<1> HIDE DEF at, a, v
<1>4. Len(records) \in Nat /\ i \in 1..Len(records) /\ walk \in Seq(PartSet)
  <2>1. vec \in Seq(1..Len(records)) /\ Len(records) \in Nat /\ walk \in Seq(PartSet)
    BY DEF RecordsInv, Numbered
  <2> QED BY <2>1
<1>5. n \in 1..Len(v) /\ v[n] = i
  <2>1. CASE n # 1
    BY <1>1, <2>1
  <2>2. CASE n = 1
    <3>1. Len(records) \in Nat \ {0} /\ Numbered(vec, Len(records))
      BY <1>4 DEF RecordsInv
    <3>2. vec[1] = 1
      BY <3>1, FirstNumber
    <3> QED BY <1>1, <1>4, <2>2, <3>2
  <2> QED BY <2>1, <2>2
<1>6. a[i] \in RecordSet /\ RecordOK(a[i])
  BY <1>1, <1>4
<1>7. /\ g \in RecordSet /\ RecordOK(g) /\ g.msg = a[i].msg
      /\ Offset(a[i]) + b < Len(a[i].msg) => Offset(g) = Offset(a[i]) + b
  BY <1>6, GetMessageOK
<1> HIDE DEF g, i
<1>8. /\ records' \in Seq(RecordSet) /\ Len(records') = Len(records)
      /\ records'[i] = g /\ \A j \in 1..Len(records) : j # i => records'[j] = a[j]
  BY <1>1, <1>2, <1>4, <1>7
<1>9. \A j \in 1..Len(records') : RecordOK(records'[j])
  BY <1>1, <1>4, <1>7, <1>8
<1>10. /\ Numbered(vec', Len(records))
       /\ \A j \in 1..n : vec'[j] = v[j]
       /\ more => /\ Len(vec') = Len(v) + 1 /\ vec'[n + 1] = i
                  /\ \A j \in (n + 1)..Len(v) : vec'[j + 1] = v[j]
       /\ ~more => vec' = v
  <2>1. CASE more
    BY <1>1, <1>2, <1>4, <1>5, <2>1, AddedNumber
  <2>2. CASE ~more
    BY <1>1, <1>2, <2>2
  <2> QED BY <2>1, <2>2
<1>11. walk' \in Seq(PartSet)
  <2>1. part \in PartSet
    BY <1>3 DEF Part
  <2>2. <<part>> \in Seq(PartSet) /\ Append(walk, part) \in Seq(PartSet) /\ << >> \in Seq(PartSet)
    BY <1>4, <2>1
  <2>3. Walked(n, part) \in {<<part>>, Append(walk, part), << >>}
    BY DEF Walked
  <2> QED BY <1>2, <2>2, <2>3
<1>12. RecordsInv'
  BY <1>2, <1>8, <1>9, <1>10, <1>11 DEF RecordsInv
<1>13. more => Offset(records'[i]) = Offset(a[i]) + b
  BY <1>3, <1>7, <1>8 DEF Part
<1>14. \A j \in 1..Len(records) : records'[j].msg = records[j].msg /\ a[j].msg = records[j].msg
  BY <1>1, <1>7, <1>8
<1> QED BY <1>4, <1>5, <1>6, <1>8, <1>10, <1>12, <1>13, <1>14 DEF at, a, v, i

\* The walk after it.
LEMMA ReadWalk ==
  ASSUME RecordsInv, WalkInv, HaveRoom => PartsInv,
         NEW n \in 1..Len(vec), NEW b \in Nat, NEW part, NEW more \in BOOLEAN,
         Reads(n, b, vec[n], part, more),
         Part(part, vec[n], GetDiagRecord(n).records[vec[n]], b, more)
  PROVE  WalkInv' /\ (HaveRoom => PartsInv')
<1> DEFINE at == GetDiagRecord(n)
           a == at.records
           v == at.vec
           i == vec[n]
<1>0. /\ RecordsInv' /\ i \in 1..Len(records) /\ Len(records') = Len(records)
      /\ n \in 1..Len(v) /\ v[n] = i
      /\ RecordOK(a[i])
      /\ \A j \in 1..Len(records) : records'[j].msg = records[j].msg /\ a[j].msg = records[j].msg
      /\ more => Offset(records'[i]) = Offset(a[i]) + b
      /\ \A j \in 1..n : vec'[j] = v[j]
      /\ more => /\ Len(vec') = Len(v) + 1 /\ vec'[n + 1] = i
                 /\ \A j \in (n + 1)..Len(v) : vec'[j + 1] = v[j]
      /\ ~more => vec' = v
  BY ReadRecords
<1>1. /\ Numbered(v, Len(records))
      /\ IF n # 1 THEN a = records /\ v = vec
         ELSE Len(v) = Len(records) /\ \A j \in 1..Len(records) : v[j] = j
  BY GetDiagRecordOK
<1>2. Part(part, i, a[i], b, more)
  OBVIOUS
<1>3. walk' = Walked(n, part) /\ no_data' = 0
  BY DEF Reads
<1> HIDE DEF at, a, v
<1>4. /\ Len(walk) \in Nat /\ walk \in Seq(PartSet) /\ Len(v) \in Nat /\ Len(vec') \in Nat
      /\ Len(records) \in Nat
  <2>1. walk \in Seq(PartSet) /\ v \in Seq(1..Len(records)) /\ vec' \in Seq(1..Len(records'))
        /\ records \in Seq(RecordSet)
    BY <1>0, <1>1 DEF RecordsInv, Numbered
  <2> QED BY <2>1
<1>5. \A k \in 1..Len(v) : v[k] \in Nat
  <2>1. v \in Seq(1..Len(records))
    BY <1>1 DEF Numbered
  <2> QED BY <1>4, <2>1
<1>6. Offset(a[i]) \in Nat
  BY <1>0, OffsetInMessage
<1> HIDE DEF i
<1>7. CASE n > 1 /\ n # Len(walk) + 1
  <2>1. walk' = << >>
    BY <1>3, <1>7 DEF Walked
  <2>2. Len(walk') = 0 /\ 1..0 = {}
    BY <2>1
  <2> QED BY <1>3, <1>4, <2>1, <2>2 DEF WalkInv, PartsInv
<1>8. CASE ~(n > 1 /\ n # Len(walk) + 1)
  <2>1. n = 1 \/ (n > 1 /\ n = Len(walk) + 1)
    BY <1>8
  <2>2. /\ Len(walk') = n /\ walk'[n] = part
        /\ \A k \in 1..(n - 1) : walk'[k] = walk[k] /\ n = Len(walk) + 1 /\ k \in 1..Len(walk)
    <3>1. part \in PartSet
      BY <1>2 DEF Part
    <3>2. CASE n = 1
      <4>1. walk' = <<part>> /\ 1..(n - 1) = {}
        BY <1>3, <3>2 DEF Walked
      <4> QED BY <3>2, <4>1
    <3>3. CASE n > 1 /\ n = Len(walk) + 1
      <4>1. walk' = Append(walk, part)
        BY <1>3, <3>3 DEF Walked
      <4> QED BY <1>4, <3>1, <3>3, <4>1
    <3> QED BY <2>1, <3>2, <3>3
  <2>3. \A p, q \in 1..Len(v) : n <= p /\ p < q => v[p] < v[q]
    <3>1. CASE n = 1
      BY <1>1, <1>4, <3>1
    <3>2. CASE n > 1 /\ n = Len(walk) + 1
      <4>1. walk # << >> /\ v = vec
        BY <1>1, <1>4, <3>2
      <4> QED BY <1>4, <3>2, <4>1 DEF WalkInv
    <3> QED BY <2>1, <3>1, <3>2
  <2>4. \A k \in 1..n : walk'[k].rec = v[k] /\ v[k] <= i
    <3> SUFFICES ASSUME NEW k \in 1..n PROVE walk'[k].rec = v[k] /\ v[k] <= i
      OBVIOUS
    <3>1. CASE k = n
      BY <1>0, <1>2, <1>5, <2>2, <3>1 DEF Part
    <3>2. CASE k # n
      <4>1. k \in 1..(n - 1) /\ n # 1
        BY <3>2
      <4>2. walk'[k] = walk[k] /\ k \in 1..Len(walk) /\ v = vec
        BY <1>1, <2>2, <4>1
      <4>3. walk[k].rec = v[k]
        BY <4>2 DEF WalkInv
      <4>4. k \in 1..Len(v) /\ k < n
        BY <1>0, <3>2
      <4>5. v[k] <= v[n]
        BY <1>0, <1>1, <4>4 DEF Numbered
      <4> QED BY <1>0, <4>2, <4>3, <4>5
    <3> QED BY <3>1, <3>2
  <2>5. Len(walk') <= Len(vec') /\ \A k \in 1..Len(walk') : walk'[k].rec = vec'[k]
    BY <1>0, <1>4, <2>2, <2>4
  <2>6. \A p, q \in 1..Len(vec') : n < p /\ p < q => vec'[p] < vec'[q]
    <3> SUFFICES ASSUME NEW p \in 1..Len(vec'), NEW q \in 1..Len(vec'), n < p, p < q
                 PROVE  vec'[p] < vec'[q]
      OBVIOUS
    <3>1. CASE ~more
      BY <1>0, <2>3, <3>1
    <3>2. CASE more
      <4>1. /\ p - 1 \in 1..Len(v) /\ q - 1 \in 1..Len(v) /\ n <= p - 1 /\ p - 1 < q - 1
            /\ q - 1 \in (n + 1)..Len(v) /\ (q - 1) + 1 = q
        BY <1>0, <1>4, <3>2
      <4>2. vec'[q] = v[q - 1]
        BY <1>0, <3>2, <4>1
      <4>3. vec'[p] = v[p - 1]
        <5>1. CASE p = n + 1
          BY <1>0, <3>2, <5>1
        <5>2. CASE p # n + 1
          <6>1. p - 1 \in (n + 1)..Len(v) /\ (p - 1) + 1 = p
            BY <1>0, <1>4, <4>1, <5>2
          <6> QED BY <1>0, <3>2, <6>1
        <5> QED BY <5>1, <5>2
      <4> QED BY <2>3, <4>1, <4>2, <4>3
    <3> QED BY <3>1, <3>2
  <2>7. WalkInv'
    <3>1. no_data' # Len(walk') + 1
      BY <1>3, <2>2
    <3>2. \A p, q \in 1..Len(vec') : Len(walk') < p /\ p < q => vec'[p] < vec'[q]
      BY <2>2, <2>6
    <3> QED BY <2>5, <3>1, <3>2 DEF WalkInv
  <2>8. ASSUME HaveRoom PROVE PartsInv'
    <3>1. PartsInv
      BY <2>8
    <3>2. /\ part.from = Offset(a[i]) /\ part.rec = i /\ part.from <= part.to
          /\ (part.at_byte => part.to <= Offset(a[i]) + b) /\ part.to \in Nat /\ b # 0
      BY <1>2, <2>8 DEF Part, PartSet
    <3>3. ASSUME NEW k \in 1..(n - 1), walk'[k].rec = i
          PROVE  (walk'[k].at_byte => walk'[k].to <= Offset(a[i])) /\ walk'[k].from < Offset(a[i])
      <4>1. /\ walk'[k] = walk[k] /\ n = Len(walk) + 1 /\ k \in 1..Len(walk) /\ n # 1
            /\ a = records /\ v = vec
        BY <1>1, <2>2, <3>3
      <4>2. Len(walk) < Len(vec) /\ vec[Len(walk) + 1] = walk[k].rec
        BY <1>0, <1>4, <3>3, <4>1
      <4>3. LET o == Offset(records[walk[k].rec])
            IN  (walk[k].at_byte => walk[k].to <= o) /\ walk[k].from < o
        BY <3>1, <4>1, <4>2 DEF PartsInv
      <4> QED BY <3>3, <4>1, <4>3
    <3>4. ASSUME NEW k \in 1..Len(walk')
          PROVE  walk'[k].from <= walk'[k].to /\ walk'[k].from < Len(records'[walk'[k].rec].msg)
      <4>1. CASE k = n
        <5>1. walk'[k] = part
          BY <2>2, <4>1
        <5>2. Offset(a[i]) < Len(a[i].msg) /\ records'[i].msg = a[i].msg
          BY <1>0, OffsetInMessage
        <5> QED BY <3>2, <5>1, <5>2
      <4>2. CASE k # n
        <5>1. k \in 1..(n - 1)
          BY <2>2, <4>2
        <5>2. walk'[k] = walk[k] /\ k \in 1..Len(walk)
          BY <2>2, <5>1
        <5>3. walk[k].from <= walk[k].to /\ walk[k].from < Len(records[walk[k].rec].msg)
          BY <3>1, <5>2 DEF PartsInv
        <5>4. walk[k].rec \in 1..Len(records)
          <6>1. walk[k].rec = vec[k] /\ k \in 1..Len(vec)
            BY <1>4, <5>2 DEF WalkInv
          <6>2. vec \in Seq(1..Len(records))
            BY DEF RecordsInv, Numbered
          <6> QED BY <6>1, <6>2
        <5>5. records'[walk[k].rec].msg = records[walk[k].rec].msg
          BY <1>0, <5>4
        <5> QED BY <5>2, <5>3, <5>5
      <4> QED BY <4>1, <4>2
    <3>5. ASSUME NEW j \in 1..Len(walk'), NEW k \in 1..Len(walk'), j < k,
                 walk'[j].rec = walk'[k].rec
          PROVE  /\ walk'[j].at_byte => walk'[j].to <= walk'[k].from
                 /\ walk'[j].from < walk'[k].from
      <4>1. j \in 1..(n - 1)
        BY <2>2, <3>5
      <4>2. CASE k = n
        BY <2>2, <3>2, <3>3, <3>5, <4>1, <4>2
      <4>3. CASE k # n
        <5>1. k \in 1..(n - 1)
          BY <2>2, <4>3
        <5> QED BY <2>2, <3>1, <3>5, <4>1, <5>1 DEF PartsInv
      <4> QED BY <4>2, <4>3
    <3>6. ASSUME NEW k \in 1..Len(walk'), Len(walk') < Len(vec'),
                 vec'[Len(walk') + 1] = walk'[k].rec
          PROVE  LET o == Offset(records'[walk'[k].rec])
                 IN  (walk'[k].at_byte => walk'[k].to <= o) /\ walk'[k].from < o
      <4>0. k \in 1..n /\ n < Len(vec') /\ vec'[n + 1] = walk'[k].rec
        BY <2>2, <3>6
      <4>1. CASE more
        <5>1. walk'[k].rec = i /\ Offset(records'[i]) = Offset(a[i]) + b
          BY <1>0, <4>0, <4>1
        <5>2. CASE k = n
          BY <1>6, <2>2, <3>2, <5>1, <5>2
        <5>3. CASE k # n
          <6>1. k \in 1..(n - 1)
            BY <4>0, <5>3
          <6>2. /\ (walk'[k].at_byte => walk'[k].to <= Offset(a[i])) /\ walk'[k].from < Offset(a[i])
                /\ walk'[k] = walk[k] /\ k \in 1..Len(walk)
            BY <2>2, <3>3, <5>1, <6>1
          <6>3. walk[k] \in PartSet
            BY <1>4, <6>2
          <6>4. walk[k].to \in Nat /\ walk[k].from \in Nat
            BY <6>3 DEF PartSet
          <6> QED BY <1>6, <5>1, <6>2, <6>4
        <5> QED BY <5>2, <5>3
      <4>2. CASE ~more
        <5>1. n \in 1..Len(v) /\ n + 1 \in 1..Len(v) /\ vec' = v
          BY <1>0, <1>4, <4>0, <4>2
        <5>2. v[n] < v[n + 1] /\ v[n] = i
          BY <1>0, <2>3, <5>1
        <5>3. v[n + 1] <= i
          BY <2>4, <4>0, <5>1
        <5> QED BY <1>5, <5>1, <5>2, <5>3
      <4> QED BY <4>1, <4>2
    <3> QED BY <3>4, <3>5, <3>6 DEF PartsInv
  <2> QED BY <2>7, <2>8
<1> QED BY <1>7, <1>8

\* SQLGetDiagRec.
LEMMA SQLGetDiagRecStep ==
  ASSUME DiagInv, NEW n \in 1..(Len(vec) + 1), NEW b \in Buffers,
         NEW wide \in BOOLEAN, NEW has_len \in BOOLEAN, NEW has_text \in BOOLEAN,
         SQLGetDiagRec(n, b, wide, has_len, has_text)
  PROVE  DiagInv'
<1>0. Len(vec) \in Nat /\ RecordsInv /\ Len(records) \in Nat
  BY DEF DiagInv, RecordsInv, Numbered
<1>1. CASE n > Len(vec)
  <2>1. no_data' = n /\ UNCHANGED <<records, vec, walk>>
    BY <1>1 DEF SQLGetDiagRec, NoSuchNumber
  <2> QED BY <1>1, <2>1, NoDataStep
<1>2. CASE ~(n > Len(vec))
  <2> DEFINE at == GetDiagRecord(n)
             i == vec[n]
             r == at.records[i]
             rest == Rest(r)
             written == IF has_text THEN Written(rest, b, wide, has_len) ELSE << >>
             covered == Covered(rest, written, wide)
             to == Offset(r) + covered
             exact == CutAtByte(r, wide)
             part == [rec |-> i, at_byte |-> exact, from |-> Offset(r), to |-> to]
             more == has_text /\ has_len /\ Remaining(rest, b, wide) > 0
  <2>0. n \in 1..Len(vec)
    BY <1>0, <1>2
  <2>1. Reads(n, b, i, part, more)
    BY <1>2 DEF SQLGetDiagRec, NoSuchNumber, Reads
  <2>2. b \in 0..MaxShort /\ b \in Nat /\ (HaveRoom => b # 0)
    BY DiagnosticsAssumption, WidecharAssumption DEF HaveRoom
  <2>3. i \in 1..Len(records) /\ i \in Nat
    <3>1. vec \in Seq(1..Len(records))
      BY <1>0 DEF RecordsInv, Numbered
    <3> QED BY <2>0, <3>1
  <2>4. RecordOK(r)
    BY <1>0, <2>3, GetDiagRecordOK
  <2> HIDE DEF r, i, at
  <2>5. rest \in Seq(Bytes)
    BY <2>4, RestOK
  <2>6. Offset(r) \in Nat
    BY <2>4, OffsetInMessage
  <2>7. Len(written) \in Nat /\ (b # 0 => Len(written) <= b - 1)
    <3>1. CASE has_text
      BY <2>2, <2>5, <3>1, WrittenFits
    <3>2. CASE ~has_text
      BY <2>2, <3>2
    <3> QED BY <3>1, <3>2
  <2>7a. covered \in Nat /\ (exact => covered <= Len(written))
    <3> HIDE DEF written
    <3> QED BY <2>4, <2>7, CoveredFits
  <2>8. more => Offset(r) + b < Len(r.msg)
    BY <2>2, <2>4, MoreToCome
  <2>8a. exact \in BOOLEAN
    BY DEF CutAtByte
  <2> HIDE DEF written, more, rest, covered, exact
  <2>9. to \in Nat /\ Offset(r) <= to /\ (exact /\ b # 0 => to <= Offset(r) + b)
    BY <2>2, <2>6, <2>7, <2>7a
  <2> HIDE DEF to
  <2>10. Part(part, i, r, b, more)
    <3>1. part \in PartSet /\ part.rec = i /\ part.from = Offset(r) /\ part.to = to /\ part.at_byte = exact
      BY <2>3, <2>6, <2>9, <2>8a DEF PartSet
    <3> HIDE DEF part
    <3> QED BY <2>2, <2>8, <2>9, <3>1 DEF Part
  <2> HIDE DEF part
  <2>11. more \in BOOLEAN
    BY DEF more
  <2>12. RecordsInv'
    BY <1>0, <2>0, <2>1, <2>2, <2>10, <2>11, ReadRecords DEF i, r, at
  <2>13. Undisturbed => WalkInv' /\ (HaveRoom => PartsInv')
    BY <1>0, <2>0, <2>1, <2>2, <2>10, <2>11, ReadWalk DEF DiagInv, i, r, at
  <2> QED BY <2>12, <2>13 DEF DiagInv
<1> QED BY <1>1, <1>2

\* SQLGetDiagField; for record 1 it starts the numbers again.
LEMMA SQLGetDiagFieldStep ==
  ASSUME DiagInv, NEW n \in FieldRecords, SQLGetDiagField(n)
  PROVE  DiagInv'
<1> DEFINE at == GetDiagRecord(n)
<1>1. RecordsInv /\ records' = at.records /\ vec' = at.vec /\ UNCHANGED <<walk, no_data>>
  BY DEF DiagInv, SQLGetDiagField
<1>2. /\ at.records \in Seq(RecordSet) /\ Len(at.records) = Len(records)
      /\ \A i \in 1..Len(records) : RecordOK(at.records[i])
      /\ Numbered(at.vec, Len(records))
      /\ IF n # 1 THEN at.records = records /\ at.vec = vec
         ELSE Len(at.vec) = Len(records) /\ \A i \in 1..Len(records) : at.vec[i] = i
  BY <1>1, GetDiagRecordOK
<1> HIDE DEF at
<1>3. RecordsInv'
  BY <1>1, <1>2 DEF RecordsInv
<1>4. ASSUME Undisturbed PROVE WalkInv' /\ (HaveRoom => PartsInv')
  <2>1. n # 1
    BY <1>4 DEF Undisturbed
  <2>2. UNCHANGED <<records, vec, walk, no_data>>
    BY <1>1, <1>2, <2>1
  <2>3. WalkInv'
    BY <1>4, <2>2 DEF DiagInv, WalkInv
  <2>4. HaveRoom => PartsInv'
    BY <1>4, <2>2 DEF DiagInv, PartsInv, Offset
  <2> QED BY <2>3, <2>4
<1> QED BY <1>3, <1>4 DEF DiagInv

\* No record, no number.
LEMMA DiagInit ==
  Init => DiagInv
<1> SUFFICES ASSUME Init PROVE DiagInv
  OBVIOUS
<1>1. records = << >> /\ vec = << >> /\ walk = << >> /\ no_data = 0
  BY DEF Init
<1>2. Len(<< >>) = 0 /\ 1..0 = {}
  OBVIOUS
<1>3. Numbered(<< >>, 0)
  BY <1>2 DEF Numbered
<1>4. RecordsInv
  BY <1>1, <1>2, <1>3 DEF RecordsInv
<1>5. WalkInv /\ PartsInv
  BY <1>1, <1>2 DEF WalkInv, PartsInv
<1> QED BY <1>4, <1>5 DEF DiagInv

\* The inductive invariant: offsets lie within the messages, every record has numbers
\* in its order, the walk follows them, and a record that is read again has moved on.
THEOREM DiagInvariance ==
  Spec => []DiagInv
<1>1. DiagInv /\ [Next]_vars => DiagInv'
  <2> SUFFICES ASSUME DiagInv, [Next]_vars PROVE DiagInv'
    OBVIOUS
  <2>1. ASSUME UNCHANGED <<records, vec, walk, no_data>> PROVE DiagInv'
    <3>1. RecordsInv'
      BY <2>1 DEF DiagInv, RecordsInv, Numbered, RecordOK
    <3>2. (WalkInv => WalkInv') /\ (PartsInv => PartsInv')
      BY <2>1 DEF WalkInv, PartsInv, Offset
    <3> QED BY <3>1, <3>2 DEF DiagInv
  <2>2. ASSUME NEW t \in Texts, Post(t) \/ PostMore(t) PROVE DiagInv'
    BY <2>2, PostStep
  <2>3. ASSUME NEW n \in 1..(Len(vec) + 1), NEW b \in Buffers, NEW wide \in BOOLEAN,
               NEW has_len \in BOOLEAN, NEW has_text \in BOOLEAN,
               SQLGetDiagRec(n, b, wide, has_len, has_text)
        PROVE  DiagInv'
    BY <2>3, SQLGetDiagRecStep
  <2>4. ASSUME NEW n \in FieldRecords, SQLGetDiagField(n) PROVE DiagInv'
    BY <2>4, SQLGetDiagFieldStep
  <2>5. ASSUME NEW t \in Texts, NEW n \in Buffers, SQLDriverConnectW(t, n) PROVE DiagInv'
    BY <2>1, <2>5 DEF SQLDriverConnectW
  <2>6. ASSUME UNCHANGED vars PROVE DiagInv'
    BY <2>1, <2>6 DEF vars
  <2> QED BY <2>2, <2>3, <2>4, <2>5, <2>6 DEF Next
<1> QED BY <1>1, DiagInit, PTL DEF Spec

\* GetDiagRecord and GetMessage never read outside the records, their numbers or the
\* message, whatever is read in which order and with which buffers: every number is of
\* a record, every record has one, and no offset is behind the end of its message.
THEOREM DiagTypeCorrect ==
  Spec => []DiagTypeOK
<1>1. DiagInv => DiagTypeOK
  <2> SUFFICES ASSUME DiagInv PROVE DiagTypeOK
    OBVIOUS
  <2>1. records \in Seq(RecordSet) /\ vec \in Seq(1..Len(records)) /\ Numbered(vec, Len(records))
    BY DEF DiagInv, RecordsInv, Numbered
  <2>2. DOMAIN records = 1..Len(records) /\ DOMAIN vec = 1..Len(vec)
    BY <2>1
  <2>3. \A i \in DOMAIN vec : vec[i] \in DOMAIN records
    BY <2>1, <2>2
  <2>4. ASSUME NEW i \in DOMAIN records
        PROVE  LET r == records[i] IN
                 /\ r.stack_msg_offset # << >> /\ Head(r.stack_msg_offset) = 0
                 /\ \A k \in DOMAIN r.stack_msg_offset : r.stack_msg_offset[k] < Len(r.msg)
    <3> DEFINE s == records[i].stack_msg_offset
    <3>1. /\ s \in Seq(Nat) /\ s # << >> /\ s[1] = 0
          /\ \A k \in DOMAIN s : s[k] < Len(records[i].msg)
      BY <2>2, <2>4 DEF DiagInv, RecordsInv, RecordOK, Offsets
    <3>2. Head(s) = 0
      BY <3>1
    <3> QED BY <3>1, <3>2
  <2> QED BY <2>1, <2>2, <2>3, <2>4 DEF DiagTypeOK, Numbered
<1> QED BY <1>1, DiagInvariance, PTL

\* An application that asks for the numbers 1, 2, ... until SQL_NO_DATA has got a part of
\* every record, in the order of the records, whatever buffers it used, narrow or wide,
\* and whatever was read of the messages before: the numbers AddNewRecIdx inserts while
\* it walks hide no record.
THEOREM AllRecordsReached ==
  ASSUME Undisturbed
  PROVE  Spec => []WalkReachesAll
<1>1. DiagInv => WalkReachesAll
  <2> SUFFICES ASSUME DiagInv, walk # << >>, no_data = Len(walk) + 1
               PROVE  /\ \A i \in DOMAIN records : \E k \in DOMAIN walk : walk[k].rec = i
                      /\ \A j, k \in DOMAIN walk : j < k => walk[j].rec <= walk[k].rec
    BY DEF WalkReachesAll
  <2>1. Len(vec) = Len(walk) /\ \A k \in 1..Len(walk) : walk[k].rec = vec[k]
    BY DEF DiagInv, WalkInv
  <2>2. DOMAIN walk = 1..Len(walk) /\ DOMAIN records = 1..Len(records)
    BY DEF DiagInv, RecordsInv
  <2>3. Numbered(vec, Len(records))
    BY DEF DiagInv, RecordsInv
  <2>4. ASSUME NEW i \in DOMAIN records
        PROVE  \E k \in DOMAIN walk : walk[k].rec = i
    <3>1. PICK j \in 1..Len(vec) : vec[j] = i
      BY <2>2, <2>3, <2>4 DEF Numbered
    <3>2. j \in DOMAIN walk /\ walk[j].rec = i
      BY <2>1, <2>2, <3>1
    <3> QED BY <3>2
  <2>5. ASSUME NEW j \in DOMAIN walk, NEW k \in DOMAIN walk, j < k
        PROVE  walk[j].rec <= walk[k].rec
    <3>1. j \in 1..Len(vec) /\ k \in 1..Len(vec)
      BY <2>1, <2>2, <2>5
    <3>2. vec[j] <= vec[k]
      BY <2>3, <2>5, <3>1 DEF Numbered
    <3>3. walk[j].rec = vec[j] /\ walk[k].rec = vec[k]
      BY <2>1, <2>2, <2>5
    <3> QED BY <3>2, <3>3
  <2> QED BY <2>4, <2>5
<1> QED BY <1>1, DiagInvariance, PTL

\* The parts SQLGetDiagRec returns of a message do not overlap where a part is cut at a byte
\* (by the narrow function, or in a message of one-byte characters): as long as it adds a
\* number, GetMessage has moved on by the length of the buffer.
THEOREM PartsDoNotOverlap ==
  ASSUME Undisturbed, HaveRoom
  PROVE  Spec => []PartsApart
<1>1. DiagInv => PartsApart
  <2> SUFFICES ASSUME DiagInv, NEW j \in DOMAIN walk, NEW k \in DOMAIN walk, j < k,
                      walk[j].rec = walk[k].rec, walk[j].at_byte
               PROVE  walk[k].from >= walk[j].to
    BY DEF PartsApart
  <2>1. walk \in Seq(PartSet) /\ PartsInv
    BY DEF DiagInv, RecordsInv
  <2>2. j \in 1..Len(walk) /\ k \in 1..Len(walk)
    BY <2>1
  <2>3. walk[j].to <= walk[k].from
    BY <2>1, <2>2 DEF PartsInv
  <2>4. walk[j] \in PartSet /\ walk[k] \in PartSet
    BY <2>1, <2>2
  <2>5. walk[j].to \in Nat /\ walk[k].from \in Nat
    BY <2>4 DEF PartSet
  <2> QED BY <2>3, <2>5
<1> QED BY <1>1, DiagInvariance, PTL

LEMMA PlacesFinite ==
  ASSUME NEW n \in Nat
  PROVE  IsFiniteSet(1..n) /\ Cardinality(1..n) = n
<1>1. 1 \in Int /\ n \in Int
  OBVIOUS
<1>2. IsFiniteSet(1..n) /\ Cardinality(1..n) = IF 1 > n THEN 0 ELSE n - 1 + 1
  BY <1>1, FS_Interval
<1> QED BY <1>2

\* The walk comes to an end: every part SQLGetDiagRec returns starts at a byte of a message
\* at which no earlier part started, so that an application that reads on has got
\* SQL_NO_DATA after as many numbers as there are bytes at the latest.
THEOREM WalkBounded ==
  ASSUME Undisturbed, HaveRoom
  PROVE  Spec => []WalkEnds
<1>1. DiagInv => WalkEnds
  <2> SUFFICES ASSUME DiagInv PROVE WalkEnds
    OBVIOUS
  <2> DEFINE Of(i) == {i} \X (1..Len(records[i].msg))
             D == 1..Len(records)
             T == UNION {Of(i) : i \in D}
             W == 1..Len(walk)
             f == [k \in W |-> <<walk[k].rec, walk[k].from + 1>>]
  <2>1. records \in Seq(RecordSet) /\ walk \in Seq(PartSet) /\ WalkInv /\ PartsInv /\ RecordsInv
    BY DEF DiagInv, RecordsInv
  <2>2. Len(records) \in Nat /\ Len(walk) \in Nat /\ DOMAIN records = D
    BY <2>1
  <2>3. ASSUME NEW i \in D PROVE Len(records[i].msg) \in Nat
    <3>1. RecordOK(records[i])
      BY <2>1, <2>3 DEF RecordsInv
    <3> QED BY <3>1, OffsetInMessage
  <2>4. IsFiniteSet(T)
    <3>1. IsFiniteSet(D)
      BY <2>2, PlacesFinite
    <3>2. ASSUME NEW i \in D PROVE IsFiniteSet(Of(i))
      <4>1. IsFiniteSet({i})
        BY FS_Singleton
      <4>2. IsFiniteSet(1..Len(records[i].msg))
        BY <2>3, PlacesFinite
      <4> QED BY <4>1, <4>2, FS_Product
    <3> DEFINE S == {Of(i) : i \in D}
               g == [i \in D |-> Of(i)]
    <3>3. g \in Surjection(D, S)
      BY DEF Surjection
    <3> HIDE DEF g, Of
    <3>4. IsFiniteSet(S)
      <4> HIDE DEF S
      <4> QED BY <3>1, <3>3, FS_Surjection
    <3>5. \A X \in S : IsFiniteSet(X)
      BY <3>2
    <3> HIDE DEF S
    <3> QED BY <3>4, <3>5, FS_UNION DEF S
  <2>5. ASSUME NEW k \in W
        PROVE  /\ walk[k].rec \in D /\ walk[k].from \in Nat
               /\ walk[k].from < Len(records[walk[k].rec].msg)
    <3>1. walk[k].rec = vec[k] /\ k \in 1..Len(vec)
      <4>1. vec \in Seq(D)
        BY <2>1 DEF RecordsInv, Numbered
      <4>2. Len(vec) \in Nat /\ Len(walk) <= Len(vec)
        BY <2>1, <4>1 DEF WalkInv
      <4> QED BY <2>1, <2>2, <4>2 DEF WalkInv
    <3>2. vec \in Seq(D)
      BY <2>1 DEF RecordsInv, Numbered
    <3>3. walk[k] \in PartSet
      BY <2>1
    <3>4. walk[k].from \in Nat
      BY <3>3 DEF PartSet
    <3>5. walk[k].rec \in D
      <4> HIDE DEF D
      <4> QED BY <3>1, <3>2
    <3> QED BY <2>1, <3>4, <3>5 DEF PartsInv
  <2>6. ASSUME NEW k \in W PROVE f[k] \in T
    <3> DEFINE i == walk[k].rec
    <3>1. i \in D /\ walk[k].from + 1 \in 1..Len(records[i].msg)
      BY <2>3, <2>5
    <3>2. f[k] \in Of(i)
      BY <3>1
    <3> HIDE DEF Of, f
    <3> QED BY <3>1, <3>2
  <2>7. ASSUME NEW j \in W, NEW k \in W, f[j] = f[k] PROVE j = k
    <3>1. walk[j].rec = walk[k].rec /\ walk[j].from + 1 = walk[k].from + 1
      BY <2>7
    <3>2. walk[j].from = walk[k].from
      BY <2>5, <3>1
    <3>3. ~(j < k) /\ ~(k < j)
      BY <2>1, <2>5, <3>1, <3>2 DEF PartsInv
    <3> QED BY <3>3
  <2> HIDE DEF T
  <2>8. f \in Injection(W, T)
    BY <2>6, <2>7 DEF Injection, IsInjective
  <2>9. Cardinality(W) <= Cardinality(T)
    <3> HIDE DEF f, W
    <3> QED BY <2>4, <2>8, FS_Injection
  <2>10. Cardinality(W) = Len(walk)
    BY <2>2, PlacesFinite
  <2>11. T = UNION {{i} \X (1..Len(records[i].msg)) : i \in DOMAIN records}
    BY <2>2 DEF T
  <2> QED BY <2>9, <2>10, <2>11 DEF WalkEnds
<1> QED BY <1>1, DiagInvariance, PTL

\* What was posted is read back: number 1, read by the wide function with room enough, is
\* the text the application passed to a wide function, whatever was read of it before, with
\* a replacement character for each unit without a partner.
THEOREM TextReadBack ==
  ASSUME NoLeadsInRow
  PROVE  Spec => []WholeText
<1>1. DiagInv => WholeText
  <2> SUFFICES ASSUME DiagInv, records # << >>
               PROVE  LET r == GetDiagRecord(1).records[1]
                      IN  Written(Rest(r), Len(r.text) + 1, TRUE, TRUE) = Repaired(r.text)
    BY DEF WholeText
  <2> DEFINE r == GetDiagRecord(1).records[1]
             t == r.text
             m == r.msg
  <2>1. records \in Seq(RecordSet) /\ DOMAIN records = 1..Len(records) /\ 1 \in 1..Len(records)
    BY DEF DiagInv, RecordsInv
  <2>2. records[1] \in RecordSet /\ RecordOK(records[1])
    BY <2>1 DEF DiagInv, RecordsInv
  <2>3. r = ClearStackMsgOffset(records[1])
    BY <2>1 DEF GetDiagRecord
  <2>4. r \in RecordSet /\ RecordOK(r) /\ Offset(r) = 0
    BY <2>2, <2>3, ClearOK
  <2> HIDE DEF r
  <2>5. t \in Texts /\ t \in Seq(Units) /\ NoTwoLeads(t)
    BY <2>4, DiagnosticsAssumption DEF RecordSet, NoLeadsInRow
  <2>6. m \in Seq(Bytes) /\ m = utf16_to_utf8_lenient(t)
    BY <2>4 DEF RecordOK
  <2>7. Rest(r) = m
    <3>1. Rest(r) = SubSeq(m, 1, Len(m))
      BY <2>4 DEF Rest
    <3> QED BY <2>6, <3>1, SubSeqFull
  <2>8. utf8_to_utf16_lenient(m) = Repaired(t)
    BY <2>5, <2>6, RoundTrip
  <2>9. Repaired(t) \in Seq(Units) /\ Len(Repaired(t)) = Len(t) /\ Len(t) \in Nat
    BY <2>5, RepairedType
  <2>10. Written(m, Len(t) + 1, TRUE, TRUE) = Prefix(Repaired(t), Len(t))
    <3> DEFINE l == Len(t)
    <3>1. l \in Nat
      BY <2>9
    <3> HIDE DEF l, m, t
    <3>2. l + 1 > 0 /\ l + 1 # 0 /\ (l + 1) - 1 = l
      BY <3>1
    <3>3. Written(m, l + 1, TRUE, TRUE) = Prefix(utf8_to_utf16_lenient(m), l)
      BY <3>2 DEF Written
    <3> QED BY <2>8, <3>3 DEF l
  <2>11. Prefix(Repaired(t), Len(t)) = Repaired(t)
    BY <2>9, PrefixAs
  <2> QED BY <2>7, <2>10, <2>11 DEF r
<1> QED BY <1>1, DiagInvariance, PTL

\* What SQLDriverConnectW gives back is the connection string as far as the application's
\* buffer has room: the narrow function may cut a character's bytes in the buffer of
\* utf8_alloc_out_vec, but only behind the units that are copied.
THEOREM OutputIsPrefix ==
  ASSUME NoLeadsInRow, EnoughBytes
  PROVE  Spec => []OutIsPrefix
<1>1. ASSUME NEW t \in Seq(Units) PROVE Prefix(Repaired(t), 0) = << >>
  <2>1. Repaired(t) \in Seq(Units) /\ Len(Repaired(t)) \in Nat
    BY RepairedType
  <2>2. Prefix(Repaired(t), 0) = SubSeq(Repaired(t), 1, 0)
    BY <2>1, PrefixAs
  <2> QED BY <2>2, SubSeqEmpty
<1>2. Init => OutIsPrefix
  <2> SUFFICES ASSUME Init PROVE OutIsPrefix
    OBVIOUS
  <2>1. out.text = << >> /\ out.room = 0 /\ out.data = << >>
    BY DEF Init, NoOut
  <2>2. << >> \in Seq(Units)
    OBVIOUS
  <2> QED BY <1>1, <2>1, <2>2 DEF OutIsPrefix
<1>3. OutIsPrefix /\ [Next]_vars => OutIsPrefix'
  <2> SUFFICES ASSUME OutIsPrefix, [Next]_vars PROVE OutIsPrefix'
    OBVIOUS
  <2>1. ASSUME UNCHANGED out PROVE OutIsPrefix'
    BY <2>1 DEF OutIsPrefix
  <2>2. ASSUME NEW t \in Texts, Post(t) PROVE OutIsPrefix'
    <3>1. out'.text = << >> /\ out'.room = 0 /\ out'.data = << >>
      BY <2>2 DEF Post, NoOut
    <3>2. << >> \in Seq(Units)
      OBVIOUS
    <3> QED BY <1>1, <3>1, <3>2 DEF OutIsPrefix
  <2>3. ASSUME NEW t \in Texts, NEW n \in Buffers, SQLDriverConnectW(t, n) PROVE OutIsPrefix'
    <3> DEFINE a == utf8_alloc_out_vec(n)
               d == utf16_write_str(IF a = 0 THEN << >>
                                    ELSE WriteStringUtf8(utf16_to_utf8_lenient(t), a), n)
    <3>1. out' = [text |-> t, room |-> n, data |-> d]
      BY <2>3 DEF SQLDriverConnectW
    <3>2. t \in Seq(Units) /\ NoTwoLeads(t) /\ n \in Nat
      BY DiagnosticsAssumption, WidecharAssumption DEF NoLeadsInRow
    <3>3. d = Prefix(Repaired(t), IF n = 0 THEN 0 ELSE n - 1)
      <4>1. CASE n = 0
        <5>1. d = << >>
          BY <4>1 DEF utf16_write_str
        <5> HIDE DEF d
        <5> QED BY <1>1, <3>2, <4>1, <5>1
      <4>2. CASE n # 0
        <5>1. n \in Nat \ {0} /\ (3 * n <= MaxShort \/ 3 * Len(t) < MaxShort)
          BY <3>2, <4>2 DEF EnoughBytes
        <5>2. /\ a # 0
              /\ utf16_write_str(WriteStringUtf8(utf16_to_utf8_lenient(t), a), n)
                   = Prefix(Repaired(t), n - 1)
          BY <3>2, <5>1, OutputWhole
        <5> HIDE DEF a
        <5>3. d = Prefix(Repaired(t), n - 1)
          BY <5>2
        <5> QED BY <4>2, <5>3
      <4> QED BY <4>1, <4>2
    <3> HIDE DEF d
    <3>4. out'.text = t /\ out'.room = n /\ out'.data = d
      BY <3>1
    <3> QED BY <3>3, <3>4 DEF OutIsPrefix
  <2>4. ASSUME NEW t \in Texts, PostMore(t) PROVE OutIsPrefix'
    BY <2>1, <2>4 DEF PostMore
  <2>5. ASSUME NEW n \in 1..(Len(vec) + 1), NEW b \in Buffers, NEW wide \in BOOLEAN,
               NEW has_len \in BOOLEAN, NEW has_text \in BOOLEAN,
               SQLGetDiagRec(n, b, wide, has_len, has_text)
        PROVE  OutIsPrefix'
    BY <2>1, <2>5 DEF SQLGetDiagRec
  <2>6. ASSUME NEW n \in FieldRecords, SQLGetDiagField(n) PROVE OutIsPrefix'
    BY <2>1, <2>6 DEF SQLGetDiagField
  <2>7. ASSUME UNCHANGED vars PROVE OutIsPrefix'
    BY <2>1, <2>7 DEF vars
  <2> QED BY <2>2, <2>3, <2>4, <2>5, <2>6, <2>7 DEF Next
<1> QED BY <1>2, <1>3, PTL DEF Spec
============================================================================
