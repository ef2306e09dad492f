---------------------------- MODULE ScrollCursor ----------------------------
(***************************************************************************)
(* What a scrollable cursor with one-row rowsets promises, without chunks: *)
(* a position between 0 (before the first row) and rows + 1 (after the     *)
(* last), and fetch orientations that move it.  This is the contract the   *)
(* test declare_fetch_block.cpp exercises.  StatementCursor implements it  *)
(* for results of one chunk.                                               *)
(***************************************************************************)
EXTENDS Integers

CONSTANTS Sizes,   \* numbers of rows a result may have
          Offsets  \* offsets of SQL_FETCH_ABSOLUTE

VARIABLES
  rows,  \* rows of the open result, or -1
  pos,   \* position of the cursor
  ret,   \* outcome of the last call
  row    \* row the last call returned, 0 for none

vars == <<rows, pos, ret, row>>

Init == rows = -1 /\ pos = 0 /\ ret = "SUCCESS" /\ row = 0

IsOpen == rows >= 0

\* A call gives the application a row, or only an outcome.
GiveRow(p) == pos' = p /\ row' = p /\ ret' = "SUCCESS" /\ UNCHANGED rows
GiveNone(p, r) == pos' = p /\ row' = 0 /\ ret' = r /\ UNCHANGED rows

Open(n) == ~IsOpen /\ rows' = n /\ pos' = 0 /\ ret' = "SUCCESS" /\ row' = 0

\* Nothing is open any more, after a close or a failure; what was said last stays
\* when it is the connection that fails.
Shut == rows' = -1 /\ pos' = 0 /\ ret' \in {ret, "SUCCESS", "ERROR"} /\ row' \in {row, 0}

\* Without an open result a call reports it and changes nothing.
Idle == ~IsOpen /\ ret' \in {"ERROR", "NO_DATA"} /\ row' = 0 /\ UNCHANGED <<rows, pos>>

\* The cursor moves past the last row only once, and before the first likewise.
FetchNext  == IsOpen /\ (IF pos < rows THEN GiveRow(pos + 1) ELSE GiveNone(rows + 1, "NO_DATA"))
FetchPrior == IsOpen /\ (IF pos > 1 THEN GiveRow(pos - 1) ELSE GiveNone(0, "NO_DATA"))
FetchFirst == IsOpen /\ GiveRow(1)

\* Offset 1 stops before the first row, so that the next fetch returns it; an
\* offset past the end leaves the cursor where it was.
FetchAbsolute(k) ==
  /\ IsOpen
  /\ CASE k = 1        -> GiveNone(0, "SUCCESS")
       [] k \in 2..rows -> GiveRow(k)
       [] k > rows     -> GiveNone(pos, "NO_DATA")

Next ==
  \/ \E n \in Sizes : Open(n)
  \/ Shut \/ Idle
  \/ FetchNext \/ FetchPrior \/ FetchFirst
  \/ \E k \in Offsets : FetchAbsolute(k)

Spec == Init /\ [][Next]_vars
=============================================================================
