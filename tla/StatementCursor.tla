-------------------------- MODULE StatementCursor --------------------------
(***************************************************************************)
(* One ODBC statement handle, from SQLPrepare to SQLFreeStmt(SQL_CLOSE):   *)
(* execution, the fetch calls, SQLGetData, binding and attribute changes,  *)
(* and SQLEndTran of its connection.  Parameters are module ParamExec.     *)
(*                                                                         *)
(* A handle is used by one thread at a time, so a call is one step, except *)
(* for the two loops whose length depends on the data: Materialize         *)
(* (SQLEndTran with SQL_COMMIT) and the recursion of                       *)
(* SetAbsoluteCurrentChunk take one step per iteration.                    *)
(***************************************************************************)
EXTENDS OdbcFetch

CONSTANTS
  Results,     \* results a query may have: sequences of chunk sizes
  Calls,       \* names of the ODBC calls the application makes
  CursorTypes, \* values given to SQL_ATTR_CURSOR_TYPE: TRUE is forward-only
  ArraySizes,  \* values given to SQL_ATTR_ROW_ARRAY_SIZE
  Offsets,     \* offsets given to SQLFetchScroll(SQL_FETCH_ABSOLUTE)
  ValLen,      \* length of the values of a variable-length column
  BufLens,     \* room in the application's buffers for them, or no buffer
  MaxRowCount, \* bound: no fetch once row_count is past it
  MaxPrior     \* bound: no fetch once prior_chunk_row is that far before the start

AllCalls == {"prepare", "execute", "execdirect", "fetch", "next", "prior", "first",
             "absolute", "getdata", "close", "bind", "unbind", "array_size",
             "bind_type", "cursor_type", "retrieve_data", "commit", "rollback", "other_query"}

ASSUME ResultsAssumption == Results \subseteq Seq(Nat \ {0})
ASSUME CallsAssumption == Calls \subseteq AllCalls
ASSUME CursorTypesAssumption == CursorTypes \subseteq BOOLEAN
ASSUME ArraySizesAssumption == ArraySizes \subseteq Nat \ {0}
ASSUME OffsetsAssumption == Offsets \subseteq Int
ASSUME LengthsAssumption ==
  ValLen \in Nat /\ BufLens \subseteq Nat \cup {NullTarget, TooSmall} /\ BufLens # {}

ASSUME BoundsAssumption == MaxRowCount \in Nat /\ MaxPrior \in Nat

VARIABLES
  hstmt,      \* the statement handle and its fetcher
  cursor,     \* the driver manager has an open cursor on the handle
  call,       \* "idle", a loop in progress, or "undefined" after a stray read
  loop,       \* locals of the loop in progress
  ret,        \* SQLRETURN of the last call that executes, fetches or closes
  tran,       \* SQLRETURN of the last SQLEndTran
  rowset,     \* rows the last fetch transferred
  delivered,  \* history: the last row the application has been given
  parts       \* history: bytes of the current value received through SQLGetData

vars == <<hstmt, cursor, call, loop, ret, tran, rowset, delivered, parts>>
----------------------------------------------------------------------------
(***************************************************************************)
(* The order of the rows.                                                  *)
(***************************************************************************)
BeforeFirst == [chunk |-> 1, row |-> -1]

NextRow(sizes, p) ==
  IF p.chunk \in DOMAIN sizes /\ p.row + 1 < sizes[p.chunk]
    THEN [chunk |-> p.chunk, row |-> p.row + 1]
    ELSE [chunk |-> p.chunk + 1, row |-> 0]

AllDelivered == NextRow(hstmt.res.sizes, delivered).chunk > Len(hstmt.res.sizes)

FirstOf(rs) == [chunk |-> rs.chunk, row |-> rs.first]
LastOf(rs)  == [chunk |-> rs.chunk, row |-> rs.last]
----------------------------------------------------------------------------
NoParts == [col |-> 0, next |-> 0, ok |-> TRUE]
NoLoop  == [offset |-> 0, chunk |-> NoChunk, idx |-> 0, row |-> -1, prior |-> -1]

\* A new OdbcHandleStmt.  The members the OdbcFetch constructor leaves
\* uninitialized are not read before ClearChunks and BeforeStart set them.
NewHandle ==
  [chunks |-> << >>, current_chunk |-> NoChunk, current_chunk_idx |-> 0,
   chunk_row |-> -1, prior_chunk_row |-> -1, resultset_end |-> FALSE,
   row_count |-> 0, forward_only |-> TRUE, last |-> NoLast,
   res |-> NoResult, open |-> FALSE, prepared |-> FALSE,
   bound_size |-> 0, cols |-> "none", array_size |-> 1, by_column |-> TRUE,
   retrieve_data |-> TRUE]

\* The cursor type may be set as soon as the handle is allocated.
Init ==
  /\ \E fwd \in CursorTypes : hstmt = [NewHandle EXCEPT !.forward_only = fwd]
  /\ cursor = FALSE
  /\ call = "idle" /\ loop = NoLoop
  /\ ret = "SUCCESS" /\ tran = "SUCCESS"
  /\ rowset = NoRows
  /\ delivered = BeforeFirst
  /\ parts = NoParts

\* The application makes call c; the handle is not inside another call.
Calling(c) == c \in Calls /\ call = "idle"

\* A fetch completes with handle h, return code r and transferred rows rs.
Return(h, r, rs) ==
  /\ hstmt' = h /\ ret' = r /\ rowset' = rs
  /\ call' = "idle" /\ loop' = NoLoop
  /\ delivered' = IF HasRows(rs) THEN LastOf(rs) ELSE delivered
  /\ parts' = NoParts
  /\ UNCHANGED <<cursor, tran>>

\* A read through current_chunk when it points to no chunk the fetcher owns, or
\* past the end of chunks or bound_cols.
Undefined ==
  /\ call' = "undefined"
  /\ UNCHANGED <<hstmt, cursor, loop, ret, tran, rowset, delivered, parts>>
----------------------------------------------------------------------------
(***************************************************************************)
(* SQLPrepare, SQLExecute, SQLExecDirect.                                  *)
(***************************************************************************)
PrepareQuery(h) == [ClearChunks(h) EXCEPT !.res = NoResult, !.prepared = FALSE]

\* The engine prepared a statement: bound_cols gets one element per column.
FinalizeStmt(h) == [h EXCEPT !.prepared = TRUE, !.bound_size = Columns]

\* SingleExecuteStmt: the previous result is gone before the engine runs.
SingleExecuteStmt(h, sizes, fails) ==
  [ClearChunks(h) EXCEPT !.open = ~fails,
                         !.res = [NewResult(sizes) EXCEPT !.error = fails]]

\* BatchExecuteStmt for a statement without parameters: execute, then fetch
\* the first chunk.
BatchExecuteStmt(h, sizes, fails, fetchFails) ==
  LET g == SingleExecuteStmt(h, sizes, fails)
      o == FetchFirst(g, fetchFails)
  IN IF fails THEN Outcome(g, "ERROR")
     ELSE Outcome(o.h, IF o.ret = "ERROR" THEN "ERROR" ELSE "SUCCESS")

\* What the application sees of a call that prepares, executes or closes.
Restart(h, r, open) ==
  /\ hstmt' = h /\ ret' = r /\ cursor' = open
  /\ rowset' = NoRows /\ delivered' = BeforeFirst /\ parts' = NoParts
  /\ UNCHANGED <<call, loop, tran>>

\* The driver manager refuses these three calls while a cursor is open (24000).
SQLPrepare ==
  /\ Calling("prepare") /\ ~cursor
  /\ \/ Restart(FinalizeStmt(PrepareQuery(hstmt)), "SUCCESS", FALSE)
     \/ Restart(PrepareQuery(hstmt), "ERROR", FALSE)

SQLExecute(sizes) ==
  /\ Calling("execute") /\ ~cursor /\ hstmt.prepared
  /\ \E fails, fetchFails \in BOOLEAN :
       LET o == BatchExecuteStmt(hstmt, sizes, fails, fetchFails)
       IN Restart(o.h, o.ret, o.ret = "SUCCESS")

\* A rollback, and whatever else the connection prepares or runs, end its active
\* query: an unfinished stream is closed.
CloseStream(h) ==
  IF HasResult(h) /\ ~h.resultset_end THEN [h EXCEPT !.res.closed = TRUE] ELSE h

\* ExecDirectStmt prepares and executes the statements of the text in turn; the
\* model lets one succeed before the last.
SQLExecDirect(sizes) ==
  /\ Calling("execdirect") /\ ~cursor
  /\ \E earlier, unprepared, fails, fetchFails \in BOOLEAN :
       LET g == PrepareQuery(hstmt)
           k == IF earlier
                  THEN CloseStream(BatchExecuteStmt(FinalizeStmt(g), sizes, FALSE, FALSE).h)
                  ELSE g
           o == BatchExecuteStmt(FinalizeStmt(k), sizes, fails, fetchFails)
       IN IF unprepared
            THEN Restart([k EXCEPT !.prepared = FALSE], "ERROR", FALSE)
            ELSE Restart(o.h, o.ret, o.ret = "SUCCESS")

\* OdbcHandleStmt::Close, for SQLCloseCursor and SQLFreeStmt(SQL_CLOSE).
CloseStmt ==
  /\ Calling("close")
  /\ Restart([ClearChunks(hstmt) EXCEPT !.open = FALSE, !.res = NoResult],
             "SUCCESS", FALSE)
----------------------------------------------------------------------------
(***************************************************************************)
(* SQLFetch and SQLFetchScroll.  The driver manager refuses them without   *)
(* an open cursor.                                                         *)
(***************************************************************************)
\* The end of OdbcFetch::Fetch, FetchNextChunk having left handle h with r.
FinishFetch(h, r) ==
  CASE r = "BEFORE_START" -> Return(h, "SUCCESS", [NoRows EXCEPT !.chunk = h.current_chunk])
    [] r \in {"NO_DATA", "ERROR"} -> Return(h, r, NoRows)
    [] r = "SUCCESS" /\ ~CanFetchRows(h) -> Undefined
    [] r = "SUCCESS" /\ CanFetchRows(h) ->
         \E buf \in BufLens :
           LET t == FetchRows(h, ValLen, buf)
           IN Return(t.h, t.ret, t.rowset)

FetchWith(orientation) ==
  \E fails \in BOOLEAN :
    LET o == FetchNextChunk(hstmt, orientation, fails)
    IN IF orientation = "PRIOR" /\ ~hstmt.forward_only /\ ~PriorInRange(hstmt)
         THEN Undefined
         ELSE FinishFetch(o.h, o.ret)

\* The two counters that repeated fetches move without end are capped.
WithinBounds == hstmt.row_count <= MaxRowCount /\ hstmt.prior_chunk_row >= -MaxPrior

\* DummyFetch, ExecuteBeforeFetch (which has nothing to do without parameters),
\* then the open flag of FetchStmtResult.
SQLFetch ==
  /\ Calling("fetch") /\ cursor /\ WithinBounds
  /\ CASE ~hstmt.retrieve_data -> Return(hstmt, DummyFetch(hstmt), NoRows)
       [] hstmt.retrieve_data /\ hstmt.open -> FetchWith("NEXT")
       [] hstmt.retrieve_data /\ ~hstmt.open -> Return(hstmt, "NO_DATA", NoRows)

\* ConvertHSTMTResult, then the open flag of FetchStmtResult.
SQLFetchScroll(fetch) ==
  /\ cursor /\ WithinBounds
  /\ IF hstmt.open /\ ~HasError(hstmt) THEN fetch
     ELSE Return(hstmt, IF HasError(hstmt) THEN "ERROR" ELSE "NO_DATA", NoRows)

SQLFetchNext  == Calling("next") /\ SQLFetchScroll(FetchWith("NEXT"))
SQLFetchPrior == Calling("prior") /\ SQLFetchScroll(FetchWith("PRIOR"))
SQLFetchFirst == Calling("first") /\ SQLFetchScroll(FetchWith("FIRST"))

\* SQL_FETCH_ABSOLUTE enters the recursion with offset - 1; a forward-only
\* cursor is refused.
EnterAbsolute(offset) ==
  IF hstmt.forward_only
    THEN Return(hstmt, "ERROR", NoRows)
    ELSE /\ call' = "absolute"
         /\ loop' = [NoLoop EXCEPT !.offset = offset - 1]
         /\ UNCHANGED <<hstmt, cursor, ret, tran, rowset, delivered, parts>>

SQLFetchAbsolute(offset) ==
  Calling("absolute") /\ SQLFetchScroll(EnterAbsolute(offset))

\* The first level fetches a chunk when there is none; its outcome is ignored.
AbsoluteChunk(h, fails) ==
  IF h.current_chunk = NoChunk \/ h.chunks = << >> THEN FetchNext(h, fails).h ELSE h

AbsoluteStep ==
  /\ call = "absolute"
  /\ \E fails, fails2 \in BOOLEAN :
       LET g == AbsoluteChunk(hstmt, fails)
           o == SetAbsoluteCurrentChunk(g, loop.offset, fails2)
       IN IF ~Readable(g) THEN Undefined
          ELSE IF o.ret = "AGAIN"
            THEN /\ hstmt' = o.h /\ loop' = [loop EXCEPT !.offset = o.offset]
                 /\ UNCHANGED <<cursor, call, ret, tran, rowset, delivered, parts>>
          ELSE FinishFetch(o.h, o.ret)
----------------------------------------------------------------------------
(***************************************************************************)
(* SQLGetData of a variable-length column other than the bound one.  The   *)
(* driver manager asks for a fetch that succeeded, on an open cursor.      *)
(***************************************************************************)
SQLGetData(col, buf) ==
  /\ Calling("getdata") /\ cursor /\ Succeeded(ret) /\ rowset.chunk # NoChunk
  /\ IF ~(Readable(hstmt) /\ hstmt.chunk_row \in 0 .. ChunkSize(hstmt) - 1)
       THEN Undefined
       ELSE LET v    == GetVariableValue(hstmt, col, ValLen, buf)
                next == IF parts.col = col THEN parts.next ELSE 0
            IN /\ hstmt' = v.h
               /\ parts' = [col |-> col, next |-> v.from + v.out,
                            ok |-> v.from = next /\ (v.ret = "NO_DATA" => next = ValLen)]
               /\ UNCHANGED <<cursor, call, loop, ret, tran, rowset, delivered>>
----------------------------------------------------------------------------
(***************************************************************************)
(* Binding and statement attributes; they take effect at once, an open     *)
(* result included.                                                        *)
(***************************************************************************)
Configure(c, h) ==
  /\ Calling(c)
  /\ hstmt' = h
  /\ UNCHANGED <<cursor, call, loop, ret, tran, rowset, delivered, parts>>

\* Column 1 is bound: bound_cols grows to one element if it had none.
SQLBindCol(kind)   ==
  Configure("bind", [hstmt EXCEPT !.cols = kind,
                                  !.bound_size = IF @ = 0 THEN 1 ELSE @])
Unbind             == Configure("unbind", [hstmt EXCEPT !.cols = "none", !.bound_size = 0])
SetArraySize(n)    == Configure("array_size", [hstmt EXCEPT !.array_size = n])
\* SQL_BIND_BY_COLUMN is a null pointer and refused: row-wise binding is for good.
SetBindType(byCol) == Configure("bind_type", [hstmt EXCEPT !.by_column = @ /\ byCol])
SetCursorType(fwd) == Configure("cursor_type", [hstmt EXCEPT !.forward_only = fwd])
SetRetrieveData(b) == Configure("retrieve_data", [hstmt EXCEPT !.retrieve_data = b])
----------------------------------------------------------------------------
(***************************************************************************)
(* SQLEndTran of the connection.                                           *)
(***************************************************************************)
\* MaterializeResult: nothing to do without a healthy result; else save the
\* position and enter the loop.
SQLEndTranCommit ==
  /\ Calling("commit")
  /\ IF ~hstmt.prepared \/ ~HasResult(hstmt) \/ HasError(hstmt)
       THEN tran' = "SUCCESS" /\ UNCHANGED <<call, loop>>
       ELSE /\ call' = "materialize"
            /\ loop' = [NoLoop EXCEPT !.chunk = hstmt.current_chunk,
                                      !.idx = hstmt.current_chunk_idx,
                                      !.row = hstmt.chunk_row,
                                      !.prior = hstmt.prior_chunk_row]
            /\ UNCHANGED tran
  /\ UNCHANGED <<hstmt, cursor, ret, rowset, delivered, parts>>

\* The position Materialize restores after its loop.
Restore(h) ==
  IF loop.chunk # NoChunk
    THEN [h EXCEPT !.current_chunk = loop.chunk, !.current_chunk_idx = loop.idx,
                   !.chunk_row = loop.row, !.prior_chunk_row = loop.prior]
    ELSE BeforeStart(h).h

\* One iteration of do { ret = FetchNext } while (SQL_SUCCEEDED(ret)); the
\* last one restores the position and, unless it failed, commits.
MaterializeStep ==
  /\ call = "materialize"
  /\ \E fails \in BOOLEAN :
       LET o == FetchNext(hstmt, fails)
       IN IF Succeeded(o.ret)
            THEN hstmt' = o.h /\ UNCHANGED <<call, loop, tran>>
            ELSE /\ hstmt' = Restore(o.h)
                 /\ tran' = IF o.ret = "NO_DATA" THEN "SUCCESS" ELSE "ERROR"
                 /\ call' = "idle" /\ loop' = NoLoop
  /\ UNCHANGED <<cursor, ret, rowset, delivered, parts>>

SQLEndTranRollback ==
  /\ Calling("rollback")
  /\ hstmt' = CloseStream(hstmt)
  /\ tran' \in {"SUCCESS", "ERROR"}
  /\ UNCHANGED <<cursor, call, loop, ret, rowset, delivered, parts>>

OtherQuery == Configure("other_query", CloseStream(hstmt))
----------------------------------------------------------------------------
Next ==
  \/ SQLPrepare
  \/ \E sizes \in Results : SQLExecute(sizes) \/ SQLExecDirect(sizes)
  \/ CloseStmt
  \/ SQLFetch \/ SQLFetchNext \/ SQLFetchPrior \/ SQLFetchFirst
  \/ \E offset \in Offsets : SQLFetchAbsolute(offset)
  \/ AbsoluteStep
  \/ \E col \in {2, 3}, buf \in BufLens : SQLGetData(col, buf)
  \/ \E kind \in {"fixed", "variable"} : SQLBindCol(kind)
  \/ Unbind
  \/ \E n \in ArraySizes : SetArraySize(n)
  \/ \E fwd \in CursorTypes : SetCursorType(fwd)
  \/ \E b \in BOOLEAN : SetBindType(b) \/ SetRetrieveData(b)
  \/ SQLEndTranCommit \/ MaterializeStep \/ SQLEndTranRollback
  \/ OtherQuery

Spec == Init /\ [][Next]_vars

\* The driver finishes the call it is in; the application need not call again.
FairSpec == Spec /\ WF_vars(MaterializeStep) /\ WF_vars(AbsoluteStep)
----------------------------------------------------------------------------
(***************************************************************************)
(* Properties.                                                             *)
(***************************************************************************)
Flags     == BOOLEAN
Indexes   == Int
Counts    == Nat
Positives == Nat \ {0}
ChunkSeqs == Seq(Nat \ {0})
ColKinds  == {"none", "fixed", "variable"}
LastVals  == [col : Int, row : Int, length : Nat]
ResultSet == [sizes : Results \cup {<< >>}, pos : Int, error : BOOLEAN, closed : BOOLEAN]

HandleSet ==
  [chunks : ChunkSeqs, current_chunk : Counts, current_chunk_idx : Counts,
   chunk_row : Indexes, prior_chunk_row : Indexes, resultset_end : Flags,
   row_count : Indexes, forward_only : Flags, last : LastVals,
   res : ResultSet, open : Flags, prepared : Flags,
   bound_size : Counts, cols : ColKinds,
   array_size : Positives, by_column : Flags, retrieve_data : Flags]

\* Type invariant of the handle, the call in progress and the histories.
TypeOK ==
  /\ hstmt \in HandleSet
  /\ call \in {"idle", "absolute", "materialize", "undefined"}
  /\ loop \in [offset : Int, chunk : Nat, idx : Nat, row : Int, prior : Int]
  /\ ret \in {"SUCCESS", "SUCCESS_WITH_INFO", "NO_DATA", "ERROR"}
  /\ tran \in {"SUCCESS", "ERROR"} /\ cursor \in BOOLEAN
  /\ rowset \in [chunk : Nat, first : Int, last : Int, from : Nat]
  /\ delivered \in [chunk : Nat, row : Int]
  /\ parts \in [col : Nat, next : Nat, ok : BOOLEAN]

\* No fetch or SQLGetData reads through a current_chunk pointer that is null or
\* refers to a chunk the fetcher has freed (odbc_fetch.cpp keeps raw pointers
\* into its vector of chunks).
NeverUndefined == call # "undefined"

\* Between calls current_chunk is null or points to a chunk still in `chunks`,
\* whatever FetchNext, Materialize or a change of cursor type did to the vector.
CurrentChunkHeld ==
  call = "idle" /\ hstmt.current_chunk # NoChunk => Readable(hstmt)

\* The chunks held are consecutive chunks of the stream that end with the last
\* one the engine delivered, and current_chunk_idx names the one current_chunk
\* points to (SetPriorCurrentChunk steps back by index, the rest by pointer).
CursorConsistent ==
  HasResult(hstmt) /\ call = "idle" =>
    /\ \A i \in 1..Len(hstmt.chunks) :
         hstmt.chunks[i] = hstmt.res.pos - Len(hstmt.chunks) + i
    /\ hstmt.current_chunk # NoChunk =>
         /\ hstmt.current_chunk_idx + 1 \in 1..Len(hstmt.chunks)
         /\ hstmt.current_chunk = hstmt.chunks[hstmt.current_chunk_idx + 1]

\* The rows a step hands out, if any, are rows of the result, and they start right
\* after the last row delivered.
RowsFollow ==
  HasRows(rowset') =>
    /\ FirstOf(rowset') = NextRow(hstmt'.res.sizes, delivered)
    /\ rowset'.last < hstmt'.res.sizes[rowset'.chunk]

\* Every fetch that transfers rows goes on where the last one stopped: no row is skipped,
\* and none delivered again by a fetch that left the position where it was.
InOrderStep == SQLFetch \/ SQLFetchNext => RowsFollow
InOrder == [][InOrderStep]_vars

\* SQL_NO_DATA from a fetch on an open cursor means that every row of the result
\* has been delivered.
NoDataIsTheEnd == ret = "NO_DATA" /\ hstmt.open => AllDelivered

\* SQLGetData returns a value in consecutive parts, the first one from its start,
\* and a bound variable-length column is always transferred from its start.
PartsInSequence == parts.ok /\ rowset.from = 0

\* With one-row rowsets, SQL_FETCH_NEXT and SQL_FETCH_PRIOR move the cursor to
\* an adjacent row, in whatever order they are mixed.
AdjacentStep ==
  HasRows(rowset') /\ delivered' # delivered =>
    \/ FirstOf(rowset') = NextRow(hstmt'.res.sizes, delivered)
    \/ delivered = NextRow(hstmt'.res.sizes, FirstOf(rowset'))
Adjacent == [][AdjacentStep]_vars

\* The rows of a rowset go to the first elements of the arrays the application
\* bound, which have SQL_ATTR_ROW_ARRAY_SIZE elements.
SlotStep ==
  rowset' # rowset =>
    \A r \in rowset'.first .. rowset'.last :
      ValueSlot(hstmt', r) < hstmt'.array_size /\ StatusSlot(r) < hstmt'.array_size
SlotsInRowset == [][SlotStep]_vars

(***************************************************************************)
(* The cursor of ScrollCursor, read off the handle.  prior_chunk_row lags  *)
(* one row behind chunk_row after a fetch and has caught up with it after  *)
(* SQL_NO_DATA; while Materialize runs, the position is the saved one.     *)
(***************************************************************************)
ScrollPos ==
  LET row   == IF call = "materialize" THEN loop.row ELSE hstmt.chunk_row
      prior == IF call = "materialize" THEN loop.prior ELSE hstmt.prior_chunk_row
  IN IF ~hstmt.open \/ row = -1 THEN 0 ELSE prior + 2

Scroll == INSTANCE ScrollCursor WITH
  Sizes <- {sizes[1] : sizes \in Results},
  rows  <- IF cursor /\ hstmt.open THEN hstmt.res.sizes[1] ELSE -1,
  pos   <- IF cursor THEN ScrollPos ELSE 0,
  row   <- IF HasRows(rowset) THEN rowset.first + 1 ELSE 0

\* For results of one chunk and one-row rowsets, the statement handle implements
\* the cursor of ScrollCursor, with transactions ending around it.
ImplementsScrollCursor == Scroll!Spec

\* A SQL_FETCH_ABSOLUTE call returns: its recursion ends.
AbsoluteTerminates == call = "absolute" ~> call = "idle"

\* A SQLEndTran(SQL_COMMIT) call returns: the loop of Materialize ends.
CommitTerminates == call = "materialize" ~> call = "idle"
============================================================================
