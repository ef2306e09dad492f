------------------------------ MODULE Widechar ------------------------------
(***************************************************************************)
(* The conversions between UTF-16, which the wide ODBC functions take and  *)
(* return, and UTF-8, which the driver works with, and the ways a string   *)
(* is written to a buffer of the application.                              *)
(*                                                                         *)
(* A UTF-16 unit is named by how long its UTF-8 form is, "1", "2" or "3"   *)
(* bytes, or is a surrogate, "L" (lead) or "T" (trail); "R" is the         *)
(* replacement character.  A byte is a pair: the character it belongs to   *)
(* and its number.  Of characters beyond the units there are "4", a pair   *)
(* of surrogates, and "G", what an unchecked conversion makes of a lead    *)
(* and a unit that is not a trail.                                         *)
(***************************************************************************)
EXTENDS Integers, Sequences, SequencesExt

CONSTANT MaxShort   \* the largest SQLSMALLINT

ASSUME WidecharAssumption == MaxShort \in Nat \ {0}

Units == {"1", "2", "3", "L", "T", "R"}
Bytes == {"1", "2", "3", "T", "R", "4", "G"} \X (1..4)

\* Bytes of a character in UTF-8 (a surrogate too, if the conversion is not checked).
Width(ch) == CASE ch = "1" -> 1 [] ch = "2" -> 2 [] ch \in {"3", "T", "R"} -> 3 [] ch \in {"4", "G"} -> 4
Encoded(ch) == [k \in 1..Width(ch) |-> <<ch, k>>]
----------------------------------------------------------------------------
\* utf16_find_invalid returns the end of the string: no unit is invalid, or the first
\* that is, is a lone trail in the last place, for which it returns the place after it.
FoundNoInvalid(s) ==
  LET Step(a, u) ==
        CASE a.found -> a
          [] ~a.found /\ a.lead  -> [a EXCEPT !.lead = FALSE, !.found = u # "T", !.n = @ + 1]
          [] ~a.found /\ ~a.lead -> [lead |-> u = "L", found |-> u = "T", n |-> a.n + 1, trail |-> u = "T"]
      end == FoldLeft(Step, [lead |-> FALSE, found |-> FALSE, n |-> 0, trail |-> FALSE], s)
  IN  ~end.lead /\ (end.found => end.trail /\ end.n = Len(s))

\* The unit after a lead that has no trail is copied as it is.
utf16_replace_invalid(s) ==
  LET Step(a, u) ==
        CASE a.lead /\ u = "T" -> [out |-> a.out \o <<"L", "T">>, lead |-> FALSE]
          [] a.lead /\ u # "T" -> [out |-> a.out \o <<"R", u>>, lead |-> FALSE]
          [] ~a.lead /\ u = "L" -> [a EXCEPT !.lead = TRUE]
          [] ~a.lead /\ u # "L" -> [a EXCEPT !.out = Append(@, IF u = "T" THEN "R" ELSE u)]
      end == FoldLeft(Step, [out |-> << >>, lead |-> FALSE], s)
  IN  IF end.lead THEN Append(end.out, "R") ELSE end.out

\* utf8::unchecked::utf16to8: a lead takes the next unit whatever it is, and is dropped
\* at the end.
utf16to8(s) ==
  LET Step(a, u) ==
        CASE a.lead -> [out |-> a.out \o Encoded(IF u = "T" THEN "4" ELSE "G"), lead |-> FALSE]
          [] ~a.lead /\ u = "L" -> [a EXCEPT !.lead = TRUE]
          [] ~a.lead /\ u # "L" -> [a EXCEPT !.out = @ \o Encoded(u)]
  IN  FoldLeft(Step, [out |-> << >>, lead |-> FALSE], s).out

utf16_to_utf8_lenient(s) == utf16to8(IF FoundNoInvalid(s) THEN s ELSE utf16_replace_invalid(s))

\* The units of a character; a surrogate in UTF-8 is an invalid code point.
UnitsOf(ch) == CASE ch \in {"1", "2", "3", "R"} -> <<ch>> [] ch = "T" -> <<"R">>
                 [] ch \in {"4", "G"} -> <<"L", "T">>

\* utf8::replace_invalid, where needed, and utf8to16: a cut-off character is replaced
\* once, a byte that continues none by itself.
utf8_to_utf16_lenient(b) ==
  LET Step(a, x) ==
        LET done == x[2] = Width(x[1])
        IN  CASE x[2] = 1 ->
                   [out |-> a.out \o (IF a.have > 0 THEN <<"R">> ELSE << >>)
                                  \o (IF done THEN UnitsOf(x[1]) ELSE << >>),
                    have |-> IF done THEN 0 ELSE 1]
              [] x[2] > 1 /\ a.have > 0 ->
                   [out |-> IF done THEN a.out \o UnitsOf(x[1]) ELSE a.out,
                    have |-> IF done THEN 0 ELSE a.have + 1]
              [] x[2] > 1 /\ a.have = 0 -> [a EXCEPT !.out = Append(@, "R")]
      end == FoldLeft(Step, [out |-> << >>, have |-> 0], b)
  IN  IF end.have > 0 THEN Append(end.out, "R") ELSE end.out
----------------------------------------------------------------------------
(***************************************************************************)
(* Output: what is written before the terminating zero.                    *)
(***************************************************************************)
Prefix(s, n) == SubSeq(s, 1, IF n < Len(s) THEN n ELSE Len(s))

\* min(length, buf_len - 1), a size_t: with no room for the zero it is all of it.
WriteStringUtf8(b, n) == IF n = 0 THEN b ELSE Prefix(b, n - 1)

\* Mutant: two bytes for a unit.
utf8_alloc_two(n) == IF 2 * n < MaxShort THEN 2 * n ELSE MaxShort

\* Bytes set aside for n units.
utf8_alloc_out_vec(n) == IF 3 * n < MaxShort THEN 3 * n ELSE MaxShort

\* A narrow function has written to such a buffer; its text goes to a buffer of n units.
utf16_write_str(b, n) == IF n = 0 THEN << >> ELSE Prefix(utf8_to_utf16_lenient(b), n - 1)
----------------------------------------------------------------------------
\* A unit has its partner, and what a lenient conversion should make of a text.
Paired(s, i) ==
  \/ s[i] \notin {"L", "T"}
  \/ s[i] = "L" /\ i < Len(s) /\ s[i + 1] = "T"
  \/ s[i] = "T" /\ i > 1 /\ s[i - 1] = "L"
Repaired(s) == [i \in DOMAIN s |-> IF Paired(s, i) THEN s[i] ELSE "R"]

\* A lead surrogate is not followed by another.
NoTwoLeads(s) == \A i \in 1..(Len(s) - 1) : s[i] = "L" => s[i + 1] # "L"
============================================================================
