----------------------------- MODULE OdbcFetch -----------------------------
(***************************************************************************)
(* The chunk cursor of the driver: class OdbcFetch (odbc_fetch.cpp) and    *)
(* the part of OdbcHandleStmt it reads.                                    *)
(*                                                                         *)
(* The engine hands out a query result as a stream of data chunks.  A      *)
(* chunk is named by its position 1, 2, ... in that stream; all that is    *)
(* kept of it is its number of rows.  A row is a chunk and a 0-based row   *)
(* index in it.                                                            *)
(*                                                                         *)
(* A statement handle is a record h with the fields                        *)
(*   chunks, current_chunk, current_chunk_idx, chunk_row, prior_chunk_row, *)
(*   resultset_end, row_count, forward_only (cursor_type), last            *)
(*   (last_fetched_variable_val)                     -- OdbcFetch          *)
(*   res, open, prepared (stmt), bound_size (the length of bound_cols),    *)
(*   cols (how column 1 is bound), array_size, by_column (bind type)       *)
(*                                                   -- OdbcHandleStmt     *)
(* Every operator below is one method: it maps a handle to the handle the  *)
(* method leaves behind, with the SQLRETURN where it has one.              *)
(***************************************************************************)
EXTENDS Integers, Sequences

\* SQL_SUCCEEDED, and the value RETURN_FETCH_BEFORE_START is "BEFORE_START".
Succeeded(ret) == ret \in {"SUCCESS", "SUCCESS_WITH_INFO"}

\* The null current_chunk pointer.
NoChunk == 0

\* The engine's result object: chunk sizes, chunks handed out so far, HasError,
\* and whether another query of the connection has closed the stream.
NewResult(sizes) == [sizes |-> sizes, pos |-> 0, error |-> FALSE, closed |-> FALSE]
NoResult == [sizes |-> << >>, pos |-> -1, error |-> FALSE, closed |-> FALSE]

HasResult(h) == h.res # NoResult
HasError(h)  == h.res.error

NoLast == [col |-> -1, row |-> -1, length |-> 0]

LastChunk(h) == h.chunks[Len(h.chunks)]
Held(h) == {h.chunks[i] : i \in 1..Len(h.chunks)}

\* current_chunk points to a chunk the fetcher still owns; reading through it
\* otherwise is undefined behaviour.
Readable(h) == h.current_chunk \in Held(h)
ChunkSize(h) == h.res.sizes[h.current_chunk]

\* ColumnCount of the prepared statement.
Columns == 3

Outcome(h, ret) == [h |-> h, ret |-> ret]
----------------------------------------------------------------------------
\* Mutants of ClearChunks: resultset_end, and current_chunk, are not reset.
ClearChunksKeepsEnd(h) ==
  [h EXCEPT !.chunks = << >>, !.current_chunk = NoChunk, !.row_count = 0,
            !.chunk_row = -1, !.prior_chunk_row = -1]
ClearChunksKeepsCurrent(h) ==
  [h EXCEPT !.chunks = << >>, !.row_count = 0, !.resultset_end = FALSE,
            !.chunk_row = -1, !.prior_chunk_row = -1]

ClearChunks(h) ==
  [h EXCEPT !.chunks = << >>, !.current_chunk = NoChunk,
            !.chunk_row = -1, !.prior_chunk_row = -1,
            !.row_count = 0, !.resultset_end = FALSE]

\* Mutant: the length is set to -1 like the two indexes.
ResetAllToMinusOne(h) == [h EXCEPT !.last = [col |-> -1, row |-> -1, length |-> -1]]

ResetLastFetchedVariableVal(h) == [h EXCEPT !.last = NoLast]

\* Mutant: only a new row, not a new column, starts a value.
SetLastFetchedRowOnly(h, col) ==
  [h EXCEPT !.last = [col |-> col, row |-> h.chunk_row,
                      length |-> IF h.last.row = h.chunk_row THEN h.last.length ELSE 0]]

\* Remember which column of which row is being read; the length already
\* returned survives only if both are those of the previous call.
SetLastFetchedVariableVal(h, col) ==
  [h EXCEPT !.last =
     [col |-> col, row |-> h.chunk_row,
      length |-> IF h.last.col = col /\ h.last.row = h.chunk_row
                   THEN h.last.length ELSE 0]]

\* Mutants: the pointer, or the index, is left behind.
SetCurrentChunkStalePointer(h) ==
  IF h.chunks = << >> THEN Outcome(h, "NO_DATA")
  ELSE Outcome([h EXCEPT !.current_chunk = IF @ = NoChunk THEN LastChunk(h) ELSE @,
                         !.current_chunk_idx = Len(h.chunks) - 1,
                         !.chunk_row = -1, !.prior_chunk_row = -1], "SUCCESS")
SetCurrentChunkStaleIndex(h) ==
  IF h.chunks = << >> THEN Outcome(h, "NO_DATA")
  ELSE Outcome([h EXCEPT !.current_chunk = LastChunk(h),
                         !.chunk_row = -1, !.prior_chunk_row = -1], "SUCCESS")

\* Make the following chunk (scrollable cursor) or the last one current.
SetCurrentChunk(h) ==
  LET last == Len(h.chunks) - 1
      idx  == IF ~h.forward_only /\ h.current_chunk_idx < last
                THEN h.current_chunk_idx + 1 ELSE last
  IN IF h.chunks = << >>
       THEN Outcome(h, "NO_DATA")
       ELSE Outcome([h EXCEPT !.current_chunk_idx = idx,
                              !.current_chunk = h.chunks[idx + 1],
                              !.chunk_row = -1, !.prior_chunk_row = -1],
                    "SUCCESS")

\* res->Fetch() delivered the next chunk: a forward-only cursor drops the
\* chunk it holds, a scrollable one keeps all of them.
KeepChunk(h) ==
  LET c == h.res.pos + 1
  IN [h EXCEPT !.chunks = IF h.forward_only THEN << c >> ELSE Append(h.chunks, c),
               !.res = [h.res EXCEPT !.pos = c]]

\* Fetch a chunk from the engine unless the end was seen, then move to it.
\* `fails` tells whether the engine raises an error; a closed stream always does.
FetchNext(h, fails) ==
  LET g == ResetLastFetchedVariableVal(h)
  IN IF h.resultset_end THEN SetCurrentChunk(h)
     ELSE IF fails \/ h.res.closed
       THEN Outcome([g EXCEPT !.open = FALSE, !.res = [g.res EXCEPT !.error = TRUE]],
                    "ERROR")
     ELSE IF h.res.pos = Len(h.res.sizes)
       THEN Outcome([g EXCEPT !.resultset_end = TRUE], "NO_DATA")
     ELSE SetCurrentChunk(KeepChunk(g))
----------------------------------------------------------------------------
\* Position before the first row; the caller turns BEFORE_START into SUCCESS
\* without transferring a row.
BeforeStart(h) ==
  Outcome([h EXCEPT !.current_chunk = IF h.chunks = << >> THEN h.current_chunk
                                                          ELSE h.chunks[1],
                    !.current_chunk_idx = 0,
                    !.chunk_row = -1, !.prior_chunk_row = -1],
          "BEFORE_START")

SetFirstCurrentChunk(h, fails) ==
  LET g == BeforeStart(h).h
  IN IF g.current_chunk = NoChunk THEN FetchNext(g, fails) ELSE Outcome(g, "SUCCESS")

\* FetchFirst makes the cursor dynamic for the duration of the call.
FetchFirst(h, fails) ==
  LET o == SetFirstCurrentChunk([h EXCEPT !.forward_only = FALSE], fails)
  IN Outcome([o.h EXCEPT !.forward_only = h.forward_only], o.ret)

\* The chunk SetPriorCurrentChunk steps back to exists.
PriorInRange(h) ==
  \/ h.prior_chunk_row - h.array_size >= -1
  \/ h.current_chunk_idx <= Len(h.chunks)

\* Mutant: SQL_NO_DATA at the start leaves chunk_row where it was.
SetPriorCurrentChunkKeepsRow(h) ==
  LET prior == h.prior_chunk_row - h.array_size
  IN IF prior < -1 THEN Outcome([h EXCEPT !.prior_chunk_row = prior], "NO_DATA")
     ELSE Outcome([h EXCEPT !.chunk_row = prior, !.prior_chunk_row = prior], "SUCCESS")

\* Step back one rowset, into the preceding chunk when the current one is
\* exhausted.
SetPriorCurrentChunk(h) ==
  LET prior == h.prior_chunk_row - h.array_size
      chunk == h.chunks[h.current_chunk_idx]
      row   == h.res.sizes[chunk] - h.array_size - 1
      g     == [h EXCEPT !.current_chunk_idx = @ - 1, !.current_chunk = chunk]
      At(k, r) == [k EXCEPT !.chunk_row = r, !.prior_chunk_row = r]
  IN IF prior < -1 /\ h.current_chunk_idx = 0
       THEN Outcome([h EXCEPT !.prior_chunk_row = prior, !.chunk_row = -1], "NO_DATA")
     ELSE IF prior < -1
       THEN Outcome(At(g, IF row < 0 THEN -1 ELSE row), "SUCCESS")
     ELSE Outcome(At(h, prior), "SUCCESS")

\* True when no row is left, judged by the size of the last chunk held.
RequireFetch(h) ==
  \/ h.chunks = << >>
  \/ h.chunk_row >= h.res.sizes[LastChunk(h)] - 1

NextChunk(h, fails) ==
  LET g == [h EXCEPT !.prior_chunk_row = h.chunk_row]
  IN IF ~RequireFetch(g) THEN Outcome(g, "SUCCESS")
     ELSE IF g.resultset_end /\ g.current_chunk_idx = Len(g.chunks) - 1
       THEN Outcome(g, "NO_DATA")
     ELSE FetchNext(g, fails)

\* FetchNextChunk but for SQL_FETCH_ABSOLUTE, whose recursion is below.
FetchNextChunk(h, orientation, fails) ==
  IF h.forward_only /\ orientation # "NEXT" THEN Outcome(h, "ERROR")
  ELSE CASE orientation = "NEXT"  -> NextChunk(h, fails)
         [] orientation = "PRIOR" -> SetPriorCurrentChunk(h)
         [] orientation = "FIRST" -> SetFirstCurrentChunk(h, fails)

Abs(n) == IF n < 0 THEN -n ELSE n

\* The offset that is left for the next chunk h has moved to.
OffsetNotReduced(h, offset) == offset  \* mutant
OffsetLeft(h, offset) == offset - ChunkSize(h)

\* One level of the recursion of SetAbsoluteCurrentChunk, with current_chunk
\* readable.  "AGAIN" stands for the recursive call, with offset o.offset.
SetAbsoluteCurrentChunk(h, offset, fails) ==
  LET size == ChunkSize(h)
      To(g, ret) == [h |-> g, ret |-> ret, offset |-> offset]
      AtRow(r) == To([h EXCEPT !.chunk_row = r, !.prior_chunk_row = r], "SUCCESS")
      back == h.chunk_row + offset + 1
      next == FetchNext(h, fails)
  IN IF offset > size /\ h.resultset_end THEN To(h, "NO_DATA")
     ELSE IF offset < 0 /\ Abs(offset) <= size
       THEN AtRow(IF back < -1 THEN -1 ELSE back)
     ELSE IF offset < 0 /\ Abs(offset) > h.chunk_row /\ Abs(offset) > h.array_size
       THEN To(BeforeStart(h).h, "BEFORE_START")
     ELSE IF offset < 0 /\ Abs(offset) > h.chunk_row THEN AtRow(0)
     ELSE IF offset = 0 THEN To(BeforeStart(h).h, "BEFORE_START")
     ELSE IF offset > 0 /\ offset < size THEN AtRow(offset - 1)
     ELSE IF offset >= size
       THEN IF next.ret # "SUCCESS"
              THEN To([next.h EXCEPT !.current_chunk_idx = 0], next.ret)
              ELSE [h |-> next.h, ret |-> "AGAIN", offset |-> OffsetLeft(next.h, offset)]
     ELSE To(h, "ERROR")
----------------------------------------------------------------------------
(***************************************************************************)
(* Transfer of values to the application.                                  *)
(***************************************************************************)
IncreaseRowCount(h) ==
  [h EXCEPT !.row_count =
     @ + (IF h.chunk_row + h.array_size < ChunkSize(h)
            THEN h.array_size ELSE ChunkSize(h) - h.chunk_row)]

\* Instead of a buffer length: the target pointer is null, or the buffer has no
\* room for the terminator.
NullTarget == -1
TooSmall   == -2

\* One part of a variable-length value of vlen bytes, read into a buffer with
\* room for buf bytes: `from` is where the part starts, `out` its length.
GetVariableValue(h, col, vlen, buf) ==
  LET g    == SetLastFetchedVariableVal(h, col)
      from == g.last.length
      rest == vlen - from
      out  == IF rest > buf THEN buf ELSE rest
      Part(k, ret, n) == [h |-> k, ret |-> ret, from |-> from, out |-> n]
  IN IF vlen > 0 /\ from >= vlen THEN Part(g, "NO_DATA", 0)
     ELSE IF buf = TooSmall THEN Part(g, "ERROR", 0)
     ELSE IF buf = NullTarget THEN Part(g, "SUCCESS", 0)
     ELSE Part([g EXCEPT !.last.length = from + out],
               IF rest > buf THEN "SUCCESS_WITH_INFO" ELSE "SUCCESS", out)

\* What a fetch transferred: rows first..last of a chunk, and the byte the
\* value of the first of them started at.
NoRows == [chunk |-> NoChunk, first |-> 0, last |-> -1, from |-> 0]
HasRows(rs) == rs.first <= rs.last
Transfer(h, ret, rowset) == [h |-> h, ret |-> ret, rowset |-> rowset]

\* No element in bound_cols: the cursor only moves, by array_size rows, and
\* counts; SQLGetData reads the row it stops at.
PositionOnly(h) ==
  LET g == [h EXCEPT !.chunk_row = @ + h.array_size]
  IN Transfer(IncreaseRowCount(g), "SUCCESS",
              [chunk |-> g.current_chunk, first |-> g.chunk_row, last |-> g.chunk_row,
               from |-> 0])

\* The last row a bound fetch visits: at most array_size rows, never past the
\* chunk.
LastRowToFetch(h) ==
  IF h.chunk_row + 1 + h.array_size > ChunkSize(h)
    THEN ChunkSize(h) - 1 ELSE h.chunk_row + h.array_size

\* Mutant: the rows are transferred, the position stays before them.
FetchBoundInPlace(h, vlen, buf) ==
  Transfer(IncreaseRowCount(h), "SUCCESS",
           [chunk |-> h.current_chunk, first |-> h.chunk_row + 1, last |-> LastRowToFetch(h), from |-> 0])

\* ColumnWise and RowWise.  Column 1 is bound to a fixed-length or to a
\* variable-length buffer, or not at all ("none").  A variable-length value
\* goes through GetVariableValue, so its first row may find the length an
\* earlier call left; the rows after it never do, chunk_row having changed.
\* The outcome is that of the last row.
FetchBound(h, vlen, buf) ==
  LET first == h.chunk_row + 1
      last  == LastRowToFetch(h)
      At(r) == [h EXCEPT !.chunk_row = r]
      head  == GetVariableValue(At(first), 1, vlen, buf)
      tail  == IF first = last THEN head
               ELSE GetVariableValue([head.h EXCEPT !.chunk_row = last], 1, vlen, buf)
      Sent(from) == [chunk |-> h.current_chunk, first |-> first, last |-> last, from |-> from]
  IN IF last < first THEN Transfer(IncreaseRowCount(h), "SUCCESS", Sent(0))
     ELSE IF h.cols # "variable"
       THEN Transfer(IncreaseRowCount(At(last)), "SUCCESS", Sent(0))
     ELSE Transfer(IF Succeeded(tail.ret) THEN IncreaseRowCount(tail.h) ELSE tail.h,
                   tail.ret, Sent(head.from))

\* SQLFetch with SQL_ATTR_RETRIEVE_DATA off: only the row status array is
\* written, the cursor does not move.
DummyFetch(h) ==
  LET left == h.row_count - h.chunk_row
      n    == IF h.array_size > left THEN left ELSE h.array_size
  IN IF n <= 0 THEN "NO_DATA" ELSE "SUCCESS"

\* The rest of Fetch once FetchNextChunk has returned SQL_SUCCESS.
FetchRows(h, vlen, buf) ==
  IF h.bound_size = 0 THEN PositionOnly(h) ELSE FetchBound(h, vlen, buf)

\* What FetchRows reads exists: current_chunk is one of the chunks, and a bound
\* fetch that has a row to visit finds an element of bound_cols per column.
CanFetchRows(h) ==
  /\ Readable(h)
  /\ h.bound_size # 0 /\ h.chunk_row < LastRowToFetch(h) => h.bound_size >= Columns

\* The element of the application's buffers, and of its row status array, that
\* a row of the rowset is written to.
ValueSlot(h, row) == IF h.by_column /\ h.array_size = 1 THEN 0 ELSE row
StatusSlot(row) == row
============================================================================
