----------------------------- MODULE Diagnostics -----------------------------
(***************************************************************************)
(* The diagnostic records of a handle (OdbcDiagnostic, DiagRecord), posted *)
(* by the other functions and read by SQLGetDiagRec and SQLGetDiagField,   *)
(* narrow and wide.  A message longer than the buffer is read in parts:    *)
(* the record gets another number, and remembers how far it was read.      *)
(*                                                                         *)
(* The message quotes text of the application, which came in through a     *)
(* wide function.  Fixed parts of the message are left out.                *)
(***************************************************************************)
EXTENDS Widechar

CONSTANTS
  Texts,         \* UTF-16 texts of the application
  Buffers,       \* buffer lengths, in characters of the function called
  FieldRecords,  \* record numbers SQLGetDiagField is called with
  MaxRecords,    \* bound: records on the handle
  MaxNumbers     \* bound: numbers they have while the application goes on reading

ASSUME DiagnosticsAssumption ==
  /\ Texts \subseteq Seq(Units) \ {<< >>}
  /\ Buffers \subseteq 0..MaxShort /\ FieldRecords \subseteq Nat \ {0}
  /\ MaxRecords \in Nat \ {0} /\ MaxNumbers \in Nat

VARIABLES
  records,   \* diag_records: [text, msg (its UTF-8), stack_msg_offset]
  vec,       \* vec_record_idx: numbers of records, one for each part
  walk,      \* history: the parts returned for numbers 1, 2, ...; empty when the
             \* numbers were not read one after the other from 1
  no_data,   \* the number for which SQLGetDiagRec has just returned SQL_NO_DATA, or 0
  out        \* the text an output function was given, its room, and what it wrote

vars == <<records, vec, walk, no_data, out>>

NoOut  == [text |-> << >>, room |-> 0, data |-> << >>]

\* An SQLSMALLINT: wraps around.
Short(n) == ((n + MaxShort + 1) % (2 * (MaxShort + 1))) - (MaxShort + 1)

Init == /\ records = << >> /\ vec = << >> /\ walk = << >>
        /\ no_data = 0 /\ out = NoOut
----------------------------------------------------------------------------
\* DiagRecord, and AddDiagRecord.
DiagRecord(t) == [text |-> t, msg |-> utf16_to_utf8_lenient(t), stack_msg_offset |-> <<0>>]

\* A function of the handle: Clean() and a record, as ConvertHSTMT and the error do.
Post(t) ==
  /\ records' = <<DiagRecord(t)>> /\ vec' = <<1>>
  /\ walk' = << >> /\ no_data' = 0 /\ out' = NoOut

\* Another record: of the same call, or of a call that does not clean up (on a
\* descriptor, or on a handle without a connection).
PostMore(t) ==
  /\ records # << >> /\ Len(records) < MaxRecords
  /\ records' = Append(records, DiagRecord(t)) /\ vec' = Append(vec, Len(records) + 1)
  /\ walk' = << >> /\ no_data' = 0 /\ UNCHANGED out

\* Offsets are popped until a 0 is at the top.
ClearStackMsgOffset(r) ==
  [r EXCEPT !.stack_msg_offset = SubSeq(@, 1, SelectLastInSeq(@, LAMBDA o : o = 0))]

Offset(r) == Last(r.stack_msg_offset)

\* Mutant: the offset is measured from the start of the message.
GetMessageFromStart(r, b) ==
  IF Offset(r) + b >= Len(r.msg) THEN ClearStackMsgOffset(r)
  ELSE [r EXCEPT !.stack_msg_offset = Append(@, b)]

\* GetMessage: the record after the rest of its message was asked for.
GetMessage(r, b) ==
  IF Offset(r) + b >= Len(r.msg) THEN ClearStackMsgOffset(r)
  ELSE [r EXCEPT !.stack_msg_offset = Append(@, Offset(r) + b)]

Rest(r) == SubSeq(r.msg, Offset(r) + 1, Len(r.msg))

\* Mutant: the new number goes to the end.
AddNewRecIdxLast(v, n) == Append(v, v[n])

\* The record of number n gets the next number as well.
AddNewRecIdx(v, n) == InsertAt(v, n + 1, v[n])

\* Mutant: the offsets are kept.
FirstRecordKeeps(n) ==
  IF n # 1 THEN [records |-> records, vec |-> vec]
  ELSE [records |-> records, vec |-> [i \in DOMAIN records |-> i]]

\* GetDiagRecord: number 1 starts again with all records.
GetDiagRecord(n) ==
  IF n # 1 THEN [records |-> records, vec |-> vec]
  ELSE [records |-> [i \in DOMAIN records |-> ClearStackMsgOffset(records[i])],
        vec |-> [i \in DOMAIN records |-> i]]

\* What is written of the rest of a message (WriteStringWithLenInChars).  Without a
\* length pointer a wide buffer without room takes everything.
Written(rest, b, wide, has_len) ==
  CASE ~wide -> WriteStringUtf8(rest, b)
    [] wide /\ b = 0 /\ ~has_len -> utf8_to_utf16_lenient(rest)
    [] wide /\ (b > 0 \/ has_len) -> Prefix(utf8_to_utf16_lenient(rest), IF b = 0 THEN 0 ELSE b - 1)

\* Characters of the rest that do not fit, as the function computes them.
Remaining(rest, b, wide) ==
  Short(Short(Len(IF wide THEN utf8_to_utf16_lenient(rest) ELSE rest)) - b)

Walked(n, part) ==
  CASE n = 1 -> <<part>>
    [] n > 1 /\ n = Len(walk) + 1 -> Append(walk, part)
    [] n > 1 /\ n # Len(walk) + 1 -> << >>

\* Mutant: the records are counted, not their numbers.
NoSuchRecord(n) == n > Len(records)

\* rec_number > GetTotalRecords()
NoSuchNumber(n) == n > Len(vec)

\* The bytes of the rest that are read into what was written: up to three for a unit.
Covered(rest, written, wide) ==
  IF wide THEN Max({k \in 0..Len(rest) : Len(utf8_to_utf16_lenient(Prefix(rest, k))) <= Len(written)})
  ELSE Len(written)

\* A part covers the bytes of the message behind from, up to to.  It is cut at a byte by the
\* narrow function, and in a message of one-byte characters.
CutAtByte(r, wide) == wide => \A k \in DOMAIN r.msg : r.msg[k] = <<"1", 1>>

SQLGetDiagRec(n, b, wide, has_len, has_text) ==
  LET at == GetDiagRecord(n)
      i == vec[n]
      r == at.records[i]
      written == IF has_text THEN Written(Rest(r), b, wide, has_len) ELSE << >>
      part == [rec |-> i, at_byte |-> CutAtByte(r, wide), from |-> Offset(r),
               to |-> Offset(r) + Covered(Rest(r), written, wide)]
      more == has_text /\ has_len /\ Remaining(Rest(r), b, wide) > 0
  IN  /\ Len(vec) <= MaxNumbers
      /\ IF NoSuchNumber(n)
         THEN no_data' = n /\ UNCHANGED <<records, vec, walk>>
         ELSE /\ records' = [at.records EXCEPT ![i] = GetMessage(@, b)]
              /\ vec' = IF more THEN AddNewRecIdx(at.vec, n) ELSE at.vec
              /\ walk' = Walked(n, part)
              /\ no_data' = 0
      /\ UNCHANGED out

\* It works on a copy of the record, so only the effect of GetDiagRecord stays.
SQLGetDiagField(n) ==
  /\ n <= Len(records)
  /\ records' = GetDiagRecord(n).records /\ vec' = GetDiagRecord(n).vec
  /\ UNCHANGED <<walk, no_data, out>>

\* SQLDriverConnectW: the connection string is given back by the narrow function in a
\* buffer the driver allocates, and converted.
SQLDriverConnectW(t, n) ==
  /\ out' = [text |-> t, room |-> n,
             data |-> utf16_write_str(IF utf8_alloc_out_vec(n) = 0 THEN << >>
                                      ELSE WriteStringUtf8(utf16_to_utf8_lenient(t), utf8_alloc_out_vec(n)), n)]
  /\ UNCHANGED <<records, vec, walk, no_data>>

\* The application asks for any number up to one past the last.
Next ==
  \/ \E t \in Texts : Post(t) \/ PostMore(t)
  \/ \E n \in 1..(Len(vec) + 1), b \in Buffers, wide, has_len, has_text \in BOOLEAN :
        SQLGetDiagRec(n, b, wide, has_len, has_text)
  \/ \E n \in FieldRecords : SQLGetDiagField(n)
  \/ records = << >> /\ \E t \in Texts, n \in Buffers : SQLDriverConnectW(t, n)

Spec == Init /\ [][Next]_vars
----------------------------------------------------------------------------
(***************************************************************************)
(* Properties.                                                             *)
(***************************************************************************)
\* Every record has a number, numbers are in the order of the records, and how far a
\* message was read is a place in it: no access is outside the vectors or the message.
DiagTypeOK ==
  /\ \A i \in DOMAIN vec : vec[i] \in DOMAIN records
  /\ \A i \in DOMAIN records : \E j \in DOMAIN vec : vec[j] = i
  /\ \A i, j \in DOMAIN vec : i < j => vec[i] <= vec[j]
  /\ \A i \in DOMAIN records : LET r == records[i] IN
       /\ r.stack_msg_offset # << >> /\ Head(r.stack_msg_offset) = 0
       /\ \A k \in DOMAIN r.stack_msg_offset : r.stack_msg_offset[k] < Len(r.msg)

\* An application that reads the numbers from 1 up to SQL_NO_DATA gets a part of every
\* record, record after record, whatever buffers it uses and whatever was read before.
WalkReachesAll ==
  walk # << >> /\ no_data = Len(walk) + 1 =>
    /\ \A i \in DOMAIN records : \E k \in DOMAIN walk : walk[k].rec = i
    /\ \A j, k \in DOMAIN walk : j < k => walk[j].rec <= walk[k].rec

\* And it gets there: GetMessage moves on with every part, so that the parts are no more
\* than the bytes there are to read.
WalkEnds == Len(walk) <= Cardinality(UNION {{i} \X (1..Len(records[i].msg)) : i \in DOMAIN records})

\* The parts it gets of a record do not overlap: each starts behind those before that were
\* cut at a byte, whichever functions and buffers it uses for them.  (Of longer characters a
\* wide part has more bytes than GetMessage moves on: the next one repeats them.)
PartsApart ==
  \A j, k \in DOMAIN walk :
     j < k /\ walk[j].rec = walk[k].rec /\ walk[j].at_byte => walk[k].from >= walk[j].to

\* The parts of a record, put together as the tests do, are its message: each starts where
\* the one before ends.  The code loses a byte between two parts (README section 4).
PartsJoin ==
  \A k \in 2..Len(walk) : walk[k].rec = walk[k - 1].rec => walk[k].from = walk[k - 1].to

\* Whatever was read before, number 1 read by the wide function with room enough is the
\* application's text, with a replacement character for each unit without a partner.
WholeText ==
  records # << >> =>
     LET r == GetDiagRecord(1).records[1]
     IN  Written(Rest(r), Len(r.text) + 1, TRUE, TRUE) = Repaired(r.text)

\* An output string is the text as far as there is room, never cut in a character's bytes.
OutIsPrefix == out.data = Prefix(Repaired(out.text), IF out.room = 0 THEN 0 ELSE out.room - 1)
============================================================================
