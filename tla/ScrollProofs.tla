---------------------------- MODULE ScrollProofs ----------------------------
(***************************************************************************)
(* What an application that scrolls may rely on: the chunk pointer of the  *)
(* fetcher, for every result, row array size, cursor type and order of the *)
(* calls, as far as the hypotheses below reach.                            *)
(* The last part shows that StatementCursor implements ScrollCursor.       *)
(***************************************************************************)
EXTENDS StatementCursorProofs

\* SQLEndTran(SQL_COMMIT) is used with scrollable cursors only: Materialize
\* returns to a chunk a forward-only cursor has dropped meanwhile.
Holdable == "commit" \in Calls => CursorTypes \subseteq {FALSE}

\* The calls that can be mixed.  SQL_FETCH_ABSOLUTE reads the first chunk of a
\* result that has one, and may stop before the first row, where SQLGetData has
\* nothing to read.  After SQL_UNBIND, SQLBindCol leaves bound_cols shorter than
\* the row, and a fetch may stop behind the last row of a chunk.
Compatible ==
  /\ Holdable
  /\ "absolute" \in Calls => << >> \notin Results /\ "getdata" \notin Calls
  /\ "unbind" \in Calls => "bind" \notin Calls /\ "getdata" \notin Calls

\* The pointer and the index stay within the vector of chunks; without chunks the
\* pointer is null and no row is behind it.
Pointed(h) ==
  IF h.chunks = << >>
    THEN h.current_chunk = NoChunk /\ h.chunk_row = -1 /\ h.prior_chunk_row <= -1
    ELSE Readable(h) /\ h.current_chunk_idx < Len(h.chunks)

\* The position Materialize has saved is still in the vector.
Saved ==
  call = "materialize" =>
    /\ "commit" \in Calls
    /\ loop.chunk # NoChunk => loop.chunk \in Held(hstmt) /\ loop.idx < Len(hstmt.chunks)

HeldInv ==
  /\ Pointed(hstmt)
  /\ hstmt.forward_only \in CursorTypes
  /\ Saved

\* bound_cols has an element per column, or, without SQLBindCol, none.
BoundOK(h, open) ==
  /\ "unbind" \notin Calls /\ (h.prepared \/ open) => h.bound_size = Columns
  /\ "bind" \notin Calls => h.bound_size \in {0, Columns}

\* The row and the row before it are rows of a chunk of the given size, or -1.
RowsIn(row, prior, size) == row \in -1 .. size - 1 /\ prior < size

\* The rows of the current chunk the handle is on.
OnRow(h) == h.chunks # << >> => RowsIn(h.chunk_row, h.prior_chunk_row, ChunkSize(h))

\* Where SQLGetData may be called the handle is on a row; Materialize returns to it.
RowInv ==
  "getdata" \in Calls =>
    /\ OnRow(hstmt)
    /\ call = "materialize" /\ loop.chunk # NoChunk =>
         RowsIn(loop.row, loop.prior, hstmt.res.sizes[loop.chunk])
    /\ cursor /\ Succeeded(ret) /\ rowset.chunk # NoChunk =>
         /\ hstmt.chunks # << >>
         /\ call = "idle" => hstmt.chunk_row >= 0
         /\ call = "materialize" => loop.chunk # NoChunk /\ loop.row >= 0

\* SetPriorCurrentChunk finds the chunk before the current one.
Fits(h) == h.current_chunk_idx <= Len(h.chunks)

ScrollInv ==
  /\ call # "undefined"
  /\ cursor => Fits(hstmt)
  /\ cursor /\ << >> \notin Results => hstmt.chunks # << >>
  /\ call = "absolute" => cursor /\ "absolute" \in Calls
  /\ BoundOK(hstmt, cursor)
  /\ RowInv
----------------------------------------------------------------------------
(***************************************************************************)
(* The operations of OdbcFetch, on a handle whose pointer is in its        *)
(* vector.                                                                 *)
(***************************************************************************)
\* g has the attributes of h, and its result.
Alike(g, h) ==
  /\ g.forward_only = h.forward_only /\ g.bound_size = h.bound_size
  /\ g.prepared = h.prepared /\ g.array_size = h.array_size
  /\ g.res.sizes = h.res.sizes

\* g has the position of h.
Stays(g, h) ==
  /\ g.chunks = h.chunks /\ g.current_chunk = h.current_chunk
  /\ g.current_chunk_idx = h.current_chunk_idx
  /\ g.chunk_row = h.chunk_row /\ g.prior_chunk_row = h.prior_chunk_row

\* g holds the chunks of h, and perhaps more after them.
Grown(g, h) ==
  /\ Len(h.chunks) <= Len(g.chunks)
  /\ \A i \in 1..Len(h.chunks) : g.chunks[i] = h.chunks[i]

\* A handle with the attributes and the position of another is pointed likewise.
LEMMA StaysPointed ==
  ASSUME NEW h, NEW g, Alike(g, h), Stays(g, h), Pointed(h)
  PROVE  /\ Pointed(g) /\ (OnRow(h) => OnRow(g)) /\ Grown(g, h) /\ (Readable(h) => Readable(g))
<1>1. Held(g) = Held(h)
  BY DEF Held, Stays
<1>2. Pointed(g) /\ (Readable(h) => Readable(g))
  BY <1>1 DEF Pointed, Stays, Readable
<1>3. OnRow(h) => OnRow(g)
  BY DEF OnRow, Alike, Stays, ChunkSize
<1>4. Grown(g, h)
  <2>1. Len(h.chunks) <= Len(h.chunks) 
    BY DEF Stays
  <2> QED BY <2>1 DEF Grown, Stays
<1> QED BY <1>2, <1>3, <1>4

\* The first row of a chunk is still to come.
LEMMA StartOnRow ==
  ASSUME NEW h, HandleOK(h), Readable(h), h.chunk_row = -1, h.prior_chunk_row = -1
  PROVE  OnRow(h)
<1>1. ChunkSize(h) \in Nat \ {0}
  BY ChunkSizeOK
<1> QED BY <1>1 DEF OnRow, RowsIn

\* SetCurrentChunk points to a chunk of the vector, whatever it pointed to.
LEMMA SetCurrentChunkPointed ==
  ASSUME NEW h, HandleOK(h)
  PROVE  LET o == SetCurrentChunk(h)
         IN /\ Alike(o.h, h) /\ o.h.chunks = h.chunks /\ o.h.res = h.res
            /\ h.chunks = << >> => o = Outcome(h, "NO_DATA")
            /\ h.chunks # << >> =>
                 /\ o.ret = "SUCCESS" /\ Pointed(o.h)
                 /\ o.h.chunk_row = -1 /\ o.h.prior_chunk_row = -1
<1>1. CASE h.chunks = << >>
  BY <1>1 DEF SetCurrentChunk, Outcome, Alike
<1>2. CASE h.chunks # << >>
  <2> DEFINE last == Len(h.chunks) - 1
             idx  == IF ~h.forward_only /\ h.current_chunk_idx < last
                       THEN h.current_chunk_idx + 1 ELSE last
             g == [h EXCEPT !.current_chunk_idx = idx,
                            !.current_chunk = h.chunks[idx + 1],
                            !.chunk_row = -1, !.prior_chunk_row = -1]
  <2>0. h \in HandleSet
    BY DEF HandleOK
  <2>1. h.chunks \in Seq(Nat \ {0}) /\ h.current_chunk_idx \in Nat
    BY <2>0, Fields
  <2>2. idx + 1 \in 1..Len(h.chunks) /\ idx \in Nat /\ idx < Len(h.chunks)
    BY SMTT(30), <2>1, <1>2
  <2> HIDE DEF idx
  <2>4. /\ g.res = h.res /\ g.chunks = h.chunks /\ g.current_chunk = h.chunks[idx + 1]
        /\ g.current_chunk_idx = idx /\ g.chunk_row = -1 /\ g.prior_chunk_row = -1
        /\ g.forward_only = h.forward_only /\ g.bound_size = h.bound_size
        /\ g.prepared = h.prepared /\ g.array_size = h.array_size
    BY <2>0 DEF HandleSet
  <2>5. SetCurrentChunk(h) = Outcome(g, "SUCCESS")
    BY <1>2 DEF SetCurrentChunk, idx
  <2> HIDE DEF g
  <2>6. Readable(g)
    BY <2>2, <2>4 DEF Readable, Held
  <2>7. Pointed(g) /\ Alike(g, h)
    BY <1>2, <2>2, <2>4, <2>6 DEF Pointed, Alike
  <2> QED BY <1>2, <2>4, <2>5, <2>7 DEF Outcome
<1> QED BY <1>1, <1>2

\* What FetchNext makes of a handle.
Moved(o, h) ==
  /\ Pointed(o.h) /\ Alike(o.h, h)
  /\ IF o.ret = "SUCCESS"
       THEN o.h.chunks # << >> /\ o.h.chunk_row = -1 /\ o.h.prior_chunk_row = -1
       ELSE Stays(o.h, h)
  /\ ~h.forward_only => Grown(o.h, h)
  /\ OnRow(h) => OnRow(o.h)

\* Fetching a chunk leaves the pointer where it was, or moves it to a chunk held;
\* a scrollable cursor loses none.
LEMMA FetchNextPointed ==
  ASSUME NEW h, HandleOK(h), h.res.pos \in Nat, Pointed(h), NEW fails \in BOOLEAN
  PROVE  LET o == FetchNext(h, fails)
         IN /\ Moved(o, h)
            /\ ~h.resultset_end /\ o.ret = "NO_DATA" => h.res.pos = Len(h.res.sizes)
<1> DEFINE g == ResetLastFetchedVariableVal(h)
           er == [g.res EXCEPT !.error = TRUE]
           e == [g EXCEPT !.open = FALSE, !.res = er]
           n == [g EXCEPT !.resultset_end = TRUE]
           o == FetchNext(h, fails)
<1>0. h \in HandleSet
  BY DEF HandleOK
<1>1. HandleOK(g) /\ g.res = h.res /\ g \in HandleSet
  BY ResetOK DEF HandleOK
<1>2. Stays(g, h) /\ Alike(g, h)
  BY <1>0 DEF ResetLastFetchedVariableVal, HandleSet, Stays, Alike
<1>3. g.res \in ResultSet
  BY <1>1, Fields
<1> HIDE DEF g
<1>4. er.sizes = g.res.sizes
  BY <1>3 DEF ResultSet
<1> HIDE DEF er
<1>5. Stays(e, g) /\ Alike(e, g) /\ Stays(n, g) /\ Alike(n, g)
  BY <1>1, <1>4 DEF HandleSet, Stays, Alike
<1> HIDE DEF e, n
<1>6. Stays(e, h) /\ Alike(e, h) /\ Stays(n, h) /\ Alike(n, h)
  BY <1>2, <1>5 DEF Stays, Alike
<1>7. Moved(Outcome(e, "ERROR"), h) /\ Moved(Outcome(n, "NO_DATA"), h)
  BY <1>6, StaysPointed DEF Moved, Outcome
<1>8. HandleOK(o.h) /\ (o.ret = "SUCCESS" => Readable(o.h))
  BY FetchNextOK
<1>9. CASE h.resultset_end
  <2>1. o = SetCurrentChunk(h)
    BY <1>9 DEF FetchNext
  <2> HIDE DEF o
  <2>2. CASE h.chunks = << >>
    <3>1. o = Outcome(h, "NO_DATA")
      BY <2>1, <2>2, SetCurrentChunkPointed
    <3>2. o.h = h /\ o.ret = "NO_DATA" /\ Stays(h, h) /\ Alike(h, h)
      BY <3>1 DEF Outcome, Stays, Alike
    <3>3. Moved(o, h)
      BY <3>2, StaysPointed DEF Moved
    <3> QED BY <1>9, <3>3 DEF o
  <2>3. CASE h.chunks # << >>
    <3>1. /\ Alike(o.h, h) /\ o.h.chunks = h.chunks /\ o.ret = "SUCCESS" /\ Pointed(o.h)
          /\ o.h.chunk_row = -1 /\ o.h.prior_chunk_row = -1
      BY <2>1, <2>3, SetCurrentChunkPointed
    <3>2. OnRow(o.h)
      BY <1>8, <3>1, StartOnRow
    <3>3. Len(h.chunks) <= Len(h.chunks)
      <4>1. h.chunks \in Seq(Nat \ {0})
        BY <1>0, Fields
      <4> QED BY <4>1
    <3>4. Grown(o.h, h)
      BY <3>1, <3>3 DEF Grown
    <3> QED BY <1>9, <2>3, <3>1, <3>2, <3>4 DEF Moved, o
  <2> QED BY <2>2, <2>3
<1>10. CASE ~h.resultset_end /\ (fails \/ h.res.closed)
  <2>1. o = Outcome(e, "ERROR")
    BY <1>10 DEF FetchNext, e, er, g
  <2> HIDE DEF o
  <2>2. o.ret = "ERROR"
    BY <2>1 DEF Outcome
  <2> QED BY <1>7, <2>1, <2>2 DEF o
<1>11. CASE ~h.resultset_end /\ ~(fails \/ h.res.closed) /\ h.res.pos = Len(h.res.sizes)
  <2>1. o = Outcome(n, "NO_DATA")
    BY <1>11 DEF FetchNext, n, g
  <2> HIDE DEF o
  <2> QED BY <1>7, <1>11, <2>1 DEF o
<1>12. CASE ~h.resultset_end /\ ~(fails \/ h.res.closed) /\ h.res.pos # Len(h.res.sizes)
  <2> DEFINE c   == g.res.pos + 1
             cs  == IF g.forward_only THEN << c >> ELSE Append(g.chunks, c)
             res == [g.res EXCEPT !.pos = c]
             k   == [g EXCEPT !.chunks = cs, !.res = res]
  <2>1. HandleOK(KeepChunk(g))
    BY <1>1, <1>12, KeepChunkOK
  <2>2. o = SetCurrentChunk(KeepChunk(g))
    BY <1>12 DEF FetchNext, g
  <2>3. k = KeepChunk(g)
    BY DEF KeepChunk
  <2>4. g.chunks \in Seq(Nat \ {0}) /\ g.forward_only \in BOOLEAN /\ g.res.pos \in Nat
    BY <1>1, Fields
  <2>5. cs # << >>
    <3>1. << c >> # << >>
      OBVIOUS
    <3>2. Append(g.chunks, c) # << >>
      BY <2>4
    <3> QED BY <3>1, <3>2
  <2>6. ~g.forward_only => /\ Len(g.chunks) <= Len(cs)
                           /\ \A i \in 1..Len(g.chunks) : cs[i] = g.chunks[i]
    BY <2>4
  <2>7. res.sizes = g.res.sizes
    BY <1>3 DEF ResultSet
  <2> HIDE DEF cs, res
  <2>8. k.chunks = cs /\ Alike(k, g)
    BY <1>1, <2>7 DEF HandleSet, Alike
  <2> HIDE DEF k, o
  <2>9. /\ Alike(o.h, k) /\ o.h.chunks = k.chunks /\ o.ret = "SUCCESS" /\ Pointed(o.h)
        /\ o.h.chunk_row = -1 /\ o.h.prior_chunk_row = -1
    BY <2>1, <2>2, <2>3, <2>5, <2>8, SetCurrentChunkPointed
  <2>10. Alike(o.h, h)
    BY <1>2, <2>8, <2>9 DEF Alike
  <2>11. OnRow(o.h)
    BY <1>8, <2>9, StartOnRow DEF o
  <2>12. ~h.forward_only => Grown(o.h, h)
    <3>1. h.chunks = g.chunks /\ h.forward_only = g.forward_only
      BY <1>2 DEF Stays, Alike
    <3> QED BY <2>6, <2>8, <2>9, <3>1 DEF Grown
  <2>13. Moved(o, h)
    BY <2>5, <2>8, <2>9, <2>10, <2>11, <2>12 DEF Moved
  <2> QED BY <2>9, <2>13 DEF o
<1> QED BY <1>9, <1>10, <1>11, <1>12

\* BeforeStart goes to the first chunk held.
LEMMA BeforeStartPointed ==
  ASSUME NEW h, HandleOK(h), Pointed(h)
  PROVE  LET g == BeforeStart(h).h
         IN /\ Pointed(g) /\ Alike(g, h) /\ g.chunks = h.chunks /\ g.res = h.res
            /\ Fits(g) /\ OnRow(g) /\ g.chunk_row = -1
            /\ g.resultset_end = h.resultset_end
            /\ (g.current_chunk = NoChunk) = (h.chunks = << >>)
<1> DEFINE c == IF h.chunks = << >> THEN h.current_chunk ELSE h.chunks[1]
           g == [h EXCEPT !.current_chunk = c, !.current_chunk_idx = 0,
                          !.chunk_row = -1, !.prior_chunk_row = -1]
<1>0. h \in HandleSet
  BY DEF HandleOK
<1>1. h.chunks \in Seq(Nat \ {0}) /\ Len(h.chunks) \in Nat
  BY <1>0, Fields
<1>2. h.chunks # << >> => c = h.chunks[1] /\ 1 \in 1..Len(h.chunks) /\ c \in Nat \ {0}
  BY <1>1
<1>3. h.chunks = << >> => c = NoChunk
  BY DEF Pointed
<1> HIDE DEF c
<1>4. /\ g.chunks = h.chunks /\ g.res = h.res /\ g.current_chunk = c
      /\ g.current_chunk_idx = 0 /\ g.chunk_row = -1 /\ g.prior_chunk_row = -1
      /\ g.forward_only = h.forward_only /\ g.bound_size = h.bound_size
      /\ g.prepared = h.prepared /\ g.array_size = h.array_size
      /\ g.resultset_end = h.resultset_end
  BY <1>0 DEF HandleSet
<1>5. BeforeStart(h) = Outcome(g, "BEFORE_START")
  BY DEF BeforeStart, c
<1>6. HandleOK(BeforeStart(h).h) /\ BeforeStart(h).h = g
  BY <1>5, BeforeStartOK DEF Outcome
<1> HIDE DEF g
<1>7. h.chunks # << >> => Readable(g) /\ Len(h.chunks) > 0
  BY <1>1, <1>2, <1>4 DEF Readable, Held
<1>8. Pointed(g)
  BY <1>3, <1>4, <1>7 DEF Pointed
<1>9. OnRow(g)
  BY <1>4, <1>6, <1>7, StartOnRow DEF OnRow
<1>10. Alike(g, h) /\ Fits(g)
  BY <1>1, <1>4 DEF Alike, Fits
<1>11. (g.current_chunk = NoChunk) = (h.chunks = << >>)
  BY <1>2, <1>3, <1>4 DEF NoChunk
<1> QED BY <1>4, <1>6, <1>8, <1>9, <1>10, <1>11

\* What the part of a fetch that finds the chunk makes of a handle.
Ready(o, h) ==
  /\ Pointed(o.h) /\ Alike(o.h, h)
  /\ Fits(h) => Fits(o.h)
  /\ h.chunks # << >> \/ o.ret = "SUCCESS" => o.h.chunks # << >>
  /\ OnRow(h) => OnRow(o.h)

\* A handle whose pointer is in its vector fits.
LEMMA PointedFits ==
  ASSUME NEW h, HandleOK(h), Pointed(h), h.chunks # << >>
  PROVE  Fits(h)
<1>1. h.chunks \in Seq(Nat \ {0}) /\ h.current_chunk_idx \in Nat
  BY Fields DEF HandleOK
<1> QED BY <1>1 DEF Pointed, Fits

\* A fetched chunk is ready.
LEMMA MovedReady ==
  ASSUME NEW h, NEW o, HandleOK(h), HandleOK(o.h), Moved(o, h)
  PROVE  Ready(o, h)
<1>1. Fits(h) => Fits(o.h)
  <2>1. CASE o.ret = "SUCCESS"
    BY <2>1, PointedFits DEF Moved
  <2>2. CASE o.ret # "SUCCESS"
    BY <2>2 DEF Moved, Stays, Fits
  <2> QED BY <2>1, <2>2
<1> QED BY <1>1 DEF Moved, Ready, Stays

\* SetFirstCurrentChunk, with or without a chunk.
LEMMA SetFirstPointed ==
  ASSUME NEW h, HandleOK(h), h.res.pos \in Nat, Pointed(h), NEW fails \in BOOLEAN
  PROVE  LET o == SetFirstCurrentChunk(h, fails)
         IN /\ Ready(o, h) /\ Fits(o.h) /\ OnRow(o.h)
            /\ ~h.resultset_end /\ o.ret = "NO_DATA" => h.res.pos = Len(h.res.sizes)
<1> DEFINE g == BeforeStart(h).h
           o == SetFirstCurrentChunk(h, fails)
           f == FetchNext(g, fails)
<1>1. /\ Pointed(g) /\ Alike(g, h) /\ g.chunks = h.chunks /\ g.res = h.res
      /\ Fits(g) /\ OnRow(g) /\ g.resultset_end = h.resultset_end
      /\ (g.current_chunk = NoChunk) = (h.chunks = << >>)
  BY BeforeStartPointed
<1>2. HandleOK(g) /\ g.res.pos \in Nat
  BY <1>1, BeforeStartOK
<1>3. o = IF g.current_chunk = NoChunk THEN f ELSE Outcome(g, "SUCCESS")
  BY DEF SetFirstCurrentChunk
<1> HIDE DEF g, o
<1>4. CASE g.current_chunk = NoChunk
  <2>1. Moved(f, g) /\ (~g.resultset_end /\ f.ret = "NO_DATA" => g.res.pos = Len(g.res.sizes))
    BY <1>1, <1>2, FetchNextPointed
  <2>2. HandleOK(f.h)
    BY <1>2, FetchNextOK
  <2>3. o = f
    BY <1>3, <1>4
  <2> HIDE DEF f
  <2>4. Ready(f, g)
    BY <1>2, <2>1, <2>2, MovedReady
  <2>5. Ready(f, h)
    BY <1>1, <2>4 DEF Ready, Alike
  <2> QED BY <1>1, <2>1, <2>3, <2>4, <2>5 DEF Ready, o
<1>5. CASE g.current_chunk # NoChunk
  <2>1. o.h = g /\ o.ret = "SUCCESS" /\ h.chunks # << >>
    BY <1>1, <1>3, <1>5 DEF Outcome
  <2> QED BY <1>1, <2>1 DEF Ready, o
<1> QED BY <1>4, <1>5

\* Another cursor type leaves the position alone.
LEMMA CursorTypePointed ==
  ASSUME NEW h, HandleOK(h), NEW b \in BOOLEAN
  PROVE  LET g == [h EXCEPT !.forward_only = b]
         IN /\ HandleOK(g) /\ Stays(g, h) /\ g.res = h.res /\ g.forward_only = b
            /\ g.bound_size = h.bound_size /\ g.prepared = h.prepared
            /\ g.array_size = h.array_size /\ g.resultset_end = h.resultset_end
            /\ (Pointed(h) => Pointed(g)) /\ (OnRow(h) => OnRow(g))
<1> DEFINE g == [h EXCEPT !.forward_only = b]
<1>0. h \in HandleSet /\ b \in Flags
  BY DEF HandleOK, Flags
<1>1. /\ g \in HandleSet /\ Stays(g, h) /\ g.res = h.res /\ g.forward_only = b
      /\ g.bound_size = h.bound_size /\ g.prepared = h.prepared
      /\ g.array_size = h.array_size /\ g.resultset_end = h.resultset_end
  BY <1>0 DEF HandleSet, Stays
<1> HIDE DEF g
<1>2. HandleOK(g)
  BY <1>1 DEF HandleOK, Stays
<1>3. Pointed(h) => Pointed(g)
  BY <1>1 DEF Pointed, Stays, Readable, Held
<1>4. OnRow(h) => OnRow(g)
  BY <1>1 DEF OnRow, Stays, ChunkSize
<1> QED BY <1>1, <1>2, <1>3, <1>4 DEF g

\* FetchFirst keeps the first chunk whatever the cursor type.
LEMMA FetchFirstPointed ==
  ASSUME NEW h, HandleOK(h), h.res.pos \in Nat, Pointed(h), NEW fails \in BOOLEAN
  PROVE  LET o == FetchFirst(h, fails)
         IN /\ Ready(o, h) /\ Fits(o.h) /\ OnRow(o.h)
            /\ ~h.resultset_end /\ o.ret = "NO_DATA" => h.res.pos = Len(h.res.sizes)
<1> DEFINE d == [h EXCEPT !.forward_only = FALSE]
           s == SetFirstCurrentChunk(d, fails)
           g == [s.h EXCEPT !.forward_only = h.forward_only]
           o == FetchFirst(h, fails)
<1>0. h.forward_only \in BOOLEAN
  BY Fields DEF HandleOK
<1>1. /\ HandleOK(d) /\ Stays(d, h) /\ d.res = h.res /\ Pointed(d)
      /\ d.bound_size = h.bound_size /\ d.prepared = h.prepared
      /\ d.array_size = h.array_size /\ d.resultset_end = h.resultset_end
  BY CursorTypePointed
<1> HIDE DEF d
<1>2. /\ Ready(s, d) /\ Fits(s.h) /\ OnRow(s.h)
      /\ ~d.resultset_end /\ s.ret = "NO_DATA" => d.res.pos = Len(d.res.sizes)
  BY <1>1, SetFirstPointed
<1>3. HandleOK(s.h)
  BY <1>1, SetFirstCurrentChunkOK
<1> HIDE DEF s
<1>4. /\ HandleOK(g) /\ Stays(g, s.h) /\ g.res = s.h.res /\ g.forward_only = h.forward_only
      /\ g.bound_size = s.h.bound_size /\ g.prepared = s.h.prepared
      /\ g.array_size = s.h.array_size /\ Pointed(g) /\ OnRow(g)
  BY <1>0, <1>2, <1>3, CursorTypePointed DEF Ready
<1>5. o = Outcome(g, s.ret)
  BY DEF FetchFirst, s, d
<1> HIDE DEF g, o
<1>6. o.h = g /\ o.ret = s.ret
  BY <1>5 DEF Outcome
<1>7. Alike(g, h) /\ Fits(g)
  BY <1>1, <1>2, <1>4 DEF Alike, Ready, Fits, Stays
<1>8. h.chunks # << >> \/ o.ret = "SUCCESS" => g.chunks # << >>
  BY <1>1, <1>2, <1>4, <1>6 DEF Ready, Stays
<1>9. Ready(o, h) /\ Fits(o.h) /\ OnRow(o.h)
  BY <1>4, <1>6, <1>7, <1>8 DEF Ready
<1> QED BY <1>1, <1>2, <1>6, <1>9 DEF o

\* Moving to a row leaves pointer and attributes alone.
LEMMA AtRowPointed ==
  ASSUME NEW h, HandleOK(h), NEW r \in Int, NEW q \in Int
  PROVE  LET g == AtRow(h, r, q)
         IN /\ Alike(g, h) /\ g.res = h.res /\ g.chunks = h.chunks
            /\ g.current_chunk = h.current_chunk /\ g.current_chunk_idx = h.current_chunk_idx
            /\ g.chunk_row = r /\ g.prior_chunk_row = q /\ (Fits(h) => Fits(g))
            /\ (Readable(h) => Readable(g))
<1> DEFINE g == AtRow(h, r, q)
<1>0. h \in HandleSet
  BY DEF HandleOK
<1>1. /\ Alike(g, h) /\ g.res = h.res /\ g.chunks = h.chunks
      /\ g.current_chunk = h.current_chunk /\ g.current_chunk_idx = h.current_chunk_idx
      /\ g.chunk_row = r /\ g.prior_chunk_row = q
  BY <1>0 DEF AtRow, HandleSet, Alike
<1> HIDE DEF g
<1>2. (Fits(h) => Fits(g)) /\ (Readable(h) => Readable(g))
  BY <1>1 DEF Fits, Readable, Held
<1> QED BY <1>1, <1>2 DEF g

\* SetPriorCurrentChunk steps back within the chunks held, where it finds one.
LEMMA SetPriorPointed ==
  ASSUME NEW h, HandleOK(h), Pointed(h), PriorInRange(h)
  PROVE  Ready(SetPriorCurrentChunk(h), h)
<1> DEFINE prior == h.prior_chunk_row - h.array_size
           idx   == h.current_chunk_idx - 1
           chunk == h.chunks[h.current_chunk_idx]
           row   == h.res.sizes[chunk] - h.array_size - 1
           to    == IF row < 0 THEN -1 ELSE row
           g     == [h EXCEPT !.current_chunk_idx = @ - 1, !.current_chunk = chunk]
<1>0. h \in HandleSet
  BY DEF HandleOK
<1>1. /\ h.chunks \in Seq(Nat \ {0}) /\ h.current_chunk_idx \in Nat
      /\ h.prior_chunk_row \in Int /\ h.array_size \in Nat \ {0} /\ Len(h.chunks) \in Nat
  BY <1>0, Fields
<1>2. prior \in Int /\ prior < h.prior_chunk_row /\ -1 \in Int
  BY <1>1
<1>3. CASE prior < -1 /\ h.current_chunk_idx = 0
  <2> DEFINE k == AtRow(h, -1, prior)
             o == SetPriorCurrentChunk(h)
  <2>1. o = Outcome(k, "NO_DATA")
    BY <1>0, <1>3 DEF SetPriorCurrentChunk, AtRow, HandleSet
  <2>2. o.h = k /\ o.ret = "NO_DATA"
    BY <2>1 DEF Outcome
  <2>3. /\ Alike(k, h) /\ k.res = h.res /\ k.chunks = h.chunks
        /\ k.current_chunk = h.current_chunk /\ k.current_chunk_idx = h.current_chunk_idx
        /\ k.chunk_row = -1 /\ k.prior_chunk_row = prior /\ (Fits(h) => Fits(k))
        /\ (Readable(h) => Readable(k))
    BY <1>2, AtRowPointed
  <2> HIDE DEF k, o, prior
  <2>4. Pointed(k)
    BY <1>2, <1>3, <2>3 DEF Pointed
  <2>5. OnRow(h) => OnRow(k)
    <3>1. CASE h.chunks = << >>
      BY <2>3, <3>1 DEF OnRow
    <3>2. CASE h.chunks # << >>
      <4>1. ChunkSize(h) \in Nat \ {0} /\ ChunkSize(k) = ChunkSize(h)
        <5>1. Readable(h)
          BY <3>2 DEF Pointed
        <5> QED BY <2>3, <5>1, ChunkSizeOK DEF ChunkSize
      <4>2. RowsIn(-1, prior, ChunkSize(h))
        BY <1>2, <1>3, <4>1 DEF RowsIn
      <4> QED BY <2>3, <4>1, <4>2 DEF OnRow
    <3> QED BY <3>1, <3>2
  <2>6. Ready(o, h)
    BY <2>2, <2>3, <2>4, <2>5 DEF Ready
  <2> QED BY <2>6 DEF o
<1>4. CASE prior < -1 /\ h.current_chunk_idx # 0
  <2> DEFINE k == AtRow(g, to, to)
             o == SetPriorCurrentChunk(h)
  <2>1. h.current_chunk_idx \in 1..Len(h.chunks)
    BY <1>1, <1>4 DEF PriorInRange
  <2>2. chunk \in 1..Len(h.res.sizes) /\ idx \in Nat /\ idx < Len(h.chunks)
    BY <1>1, <2>1 DEF HandleOK
  <2>3. h.res.sizes[chunk] \in Nat \ {0}
    BY <1>0, <2>2, Sizes
  <2>4. to \in Int /\ to \in -1 .. h.res.sizes[chunk] - 1
    <3> DEFINE z == h.res.sizes[chunk]
    <3>1. z \in Nat \ {0} /\ to = IF z - h.array_size - 1 < 0 THEN -1 ELSE z - h.array_size - 1
      BY <2>3
    <3> HIDE DEF z, to
    <3>2. to \in Int /\ to \in -1 .. z - 1
      BY <1>1, <3>1
    <3> QED BY <3>2 DEF z
  <2>5. o = Outcome(k, "SUCCESS")
    BY <1>4 DEF SetPriorCurrentChunk, AtRow
  <2>6. chunk \in Held(h) /\ h.chunks # << >>
    BY <1>1, <2>1 DEF Held
  <2>7. HandleOK(g) /\ g.chunks = h.chunks
    <3>1. chunk \in Counts /\ idx \in Counts
      BY <2>2 DEF Counts
    <3> HIDE DEF chunk
    <3>2. g \in HandleSet /\ g.chunks = h.chunks /\ g.res = h.res
      BY <1>0, <3>1 DEF HandleSet
    <3> HIDE DEF g
    <3> QED BY <3>2 DEF HandleOK
  <2> HIDE DEF chunk, to, o
  <2>8. /\ Alike(g, h) /\ g.res = h.res /\ g.current_chunk = chunk
        /\ g.current_chunk_idx = idx
    BY <1>0 DEF HandleSet, Alike
  <2> HIDE DEF g
  <2>9. /\ Alike(k, g) /\ k.res = g.res /\ k.chunks = g.chunks
        /\ k.current_chunk = g.current_chunk /\ k.current_chunk_idx = g.current_chunk_idx
        /\ k.chunk_row = to /\ k.prior_chunk_row = to
    BY <2>4, <2>7, AtRowPointed
  <2> HIDE DEF k
  <2>10. Pointed(k) /\ Fits(k)
    <3>1. Readable(k)
      BY <2>6, <2>7, <2>8, <2>9 DEF Readable, Held
    <3>2. k.chunks = h.chunks /\ k.current_chunk_idx = idx /\ idx <= Len(h.chunks)
      BY <1>1, <2>2, <2>7, <2>8, <2>9
    <3> QED BY <2>2, <2>6, <3>1, <3>2 DEF Pointed, Fits
  <2>11. OnRow(k)
    <3>1. ChunkSize(k) = h.res.sizes[chunk]
      BY <2>8, <2>9 DEF ChunkSize
    <3>2. RowsIn(to, to, h.res.sizes[chunk])
      BY <2>3, <2>4 DEF RowsIn
    <3> QED BY <2>9, <3>1, <3>2 DEF OnRow
  <2>12. Alike(k, h) /\ k.chunks # << >>
    BY <2>6, <2>7, <2>8, <2>9 DEF Alike
  <2>13. o.h = k /\ o.ret = "SUCCESS"
    BY <2>5 DEF Outcome
  <2>14. Ready(o, h)
    BY <2>10, <2>11, <2>12, <2>13 DEF Ready
  <2> QED BY <2>14 DEF o
<1>5. CASE ~(prior < -1)
  <2> DEFINE k == AtRow(h, prior, prior)
             o == SetPriorCurrentChunk(h)
  <2>1. o = Outcome(k, "SUCCESS")
    BY <1>5 DEF SetPriorCurrentChunk, AtRow
  <2>2. /\ Alike(k, h) /\ k.res = h.res /\ k.chunks = h.chunks
        /\ k.current_chunk = h.current_chunk /\ k.current_chunk_idx = h.current_chunk_idx
        /\ k.chunk_row = prior /\ k.prior_chunk_row = prior /\ (Fits(h) => Fits(k))
        /\ (Readable(h) => Readable(k))
    BY <1>2, AtRowPointed
  <2>3. h.chunks # << >>
    BY <1>1, <1>2, <1>5 DEF Pointed
  <2>4. o.h = k /\ o.ret = "SUCCESS"
    BY <2>1 DEF Outcome
  <2> HIDE DEF k, o, prior
  <2>5. Pointed(k)
    BY <2>2, <2>3 DEF Pointed
  <2>6. OnRow(h) => OnRow(k)
    <3>1. ChunkSize(h) \in Nat \ {0} /\ ChunkSize(k) = ChunkSize(h)
      <4>1. Readable(h)
        BY <2>3 DEF Pointed
      <4> QED BY <2>2, <4>1, ChunkSizeOK DEF ChunkSize
    <3>2. RowsIn(h.chunk_row, h.prior_chunk_row, ChunkSize(h)) => RowsIn(prior, prior, ChunkSize(h))
      BY <1>1, <1>2, <1>5, <3>1 DEF RowsIn
    <3> QED BY <2>2, <2>3, <3>1, <3>2 DEF OnRow
  <2>7. Ready(o, h)
    BY <2>2, <2>3, <2>4, <2>5, <2>6 DEF Ready
  <2> QED BY <2>7 DEF o
<1> QED BY <1>3, <1>4, <1>5

\* NextChunk, after prior_chunk_row has caught up.
LEMMA NextChunkPointed ==
  ASSUME NEW h, HandleOK(h), h.res.pos \in Nat, Pointed(h), NEW fails \in BOOLEAN
  PROVE  Ready(NextChunk(h, fails), h)
<1> DEFINE g == [h EXCEPT !.prior_chunk_row = h.chunk_row]
           f == FetchNext(g, fails)
           o == NextChunk(h, fails)
<1>0. h \in HandleSet /\ h.chunk_row \in Int
  BY Fields DEF HandleOK
<1>1. g = AtRow(h, h.chunk_row, h.chunk_row)
  BY <1>0 DEF AtRow, HandleSet
<1>2. HandleOK(g) /\ g.res = h.res
  BY CatchUpOK
<1>3. /\ Alike(g, h) /\ g.chunks = h.chunks
      /\ g.current_chunk = h.current_chunk /\ g.current_chunk_idx = h.current_chunk_idx
      /\ g.chunk_row = h.chunk_row /\ g.prior_chunk_row = h.chunk_row /\ (Fits(h) => Fits(g))
      /\ (Readable(h) => Readable(g))
  BY <1>0, <1>1, AtRowPointed
<1>4. o = IF ~RequireFetch(g) THEN Outcome(g, "SUCCESS")
          ELSE IF g.resultset_end /\ g.current_chunk_idx = Len(g.chunks) - 1
            THEN Outcome(g, "NO_DATA") ELSE f
  BY DEF NextChunk
<1> HIDE DEF g, o
<1>5. Pointed(g)
  BY <1>3 DEF Pointed
<1>6. OnRow(h) => OnRow(g)
  <2>1. ChunkSize(g) = ChunkSize(h)
    BY <1>2, <1>3 DEF ChunkSize
  <2>2. CASE g.chunks = << >>
    BY <2>2 DEF OnRow
  <2>3. CASE g.chunks # << >>
    <3>1. ChunkSize(h) \in Nat
      <4>1. Readable(h)
        BY <1>3, <2>3 DEF Pointed
      <4> QED BY <4>1, ChunkSizeOK
    <3>2. RowsIn(h.chunk_row, h.prior_chunk_row, ChunkSize(h)) =>
            RowsIn(h.chunk_row, h.chunk_row, ChunkSize(h))
      BY <1>0, <3>1 DEF RowsIn
    <3> QED BY <1>3, <2>1, <3>2 DEF OnRow
  <2> QED BY <2>2, <2>3
<1>7. CASE ~RequireFetch(g)
  <2>1. o.h = g /\ g.chunks # << >>
    BY <1>4, <1>7 DEF RequireFetch, Outcome
  <2> QED BY <1>3, <1>5, <1>6, <2>1 DEF Ready, o
<1>8. CASE RequireFetch(g) /\ g.resultset_end /\ g.current_chunk_idx = Len(g.chunks) - 1
  <2>1. o.h = g /\ o.ret = "NO_DATA"
    BY <1>4, <1>8 DEF Outcome
  <2> QED BY <1>3, <1>5, <1>6, <2>1 DEF Ready, o
<1>9. CASE RequireFetch(g) /\ ~(g.resultset_end /\ g.current_chunk_idx = Len(g.chunks) - 1)
  <2>1. o = f
    BY <1>4, <1>9
  <2>2. Moved(f, g) /\ HandleOK(f.h)
    BY <1>2, <1>5, FetchNextPointed, FetchNextOK
  <2> HIDE DEF f
  <2>3. Ready(f, g)
    BY <1>2, <2>2, MovedReady
  <2>4. Ready(f, h)
    BY <1>3, <1>6, <2>3 DEF Ready, Alike
  <2> QED BY <2>1, <2>4 DEF o
<1> QED BY <1>7, <1>8, <1>9

\* FetchNextChunk, for the three orientations without recursion.
LEMMA FetchNextChunkPointed ==
  ASSUME NEW h, HandleOK(h), h.res.pos \in Nat, Pointed(h), NEW fails \in BOOLEAN,
         NEW orientation \in {"NEXT", "PRIOR", "FIRST"},
         orientation = "PRIOR" => h.forward_only \/ PriorInRange(h)
  PROVE  Ready(FetchNextChunk(h, orientation, fails), h)
<1>1. CASE h.forward_only /\ orientation # "NEXT"
  <2>1. FetchNextChunk(h, orientation, fails) = Outcome(h, "ERROR")
    BY <1>1 DEF FetchNextChunk
  <2>2. Outcome(h, "ERROR").h = h /\ Outcome(h, "ERROR").ret = "ERROR" /\ Alike(h, h)
    BY DEF Outcome, Alike
  <2> QED BY <2>1, <2>2 DEF Ready
<1>2. CASE orientation = "NEXT"
  <2>1. FetchNextChunk(h, orientation, fails) = NextChunk(h, fails)
    BY <1>2 DEF FetchNextChunk
  <2> QED BY <2>1, NextChunkPointed
<1>3. CASE ~h.forward_only /\ orientation = "PRIOR"
  <2>1. FetchNextChunk(h, orientation, fails) = SetPriorCurrentChunk(h)
    BY <1>3 DEF FetchNextChunk
  <2> QED BY <1>3, <2>1, SetPriorPointed
<1>4. CASE ~h.forward_only /\ orientation = "FIRST"
  <2>1. FetchNextChunk(h, orientation, fails) = SetFirstCurrentChunk(h, fails)
    BY <1>4 DEF FetchNextChunk
  <2> QED BY <2>1, SetFirstPointed
<1> QED BY <1>1, <1>2, <1>3, <1>4

\* A level of the recursion of SetAbsoluteCurrentChunk.
LEMMA SetAbsolutePointed ==
  ASSUME NEW h, HandleOK(h), h.res.pos \in Nat, Pointed(h), Readable(h),
         NEW offset \in Int, NEW fails \in BOOLEAN
  PROVE  LET o == SetAbsoluteCurrentChunk(h, offset, fails)
         IN /\ Pointed(o.h) /\ Alike(o.h, h) /\ o.h.chunks # << >>
<1> DEFINE To(g, r) == [h |-> g, ret |-> r, offset |-> offset]
           Fine(g) == Pointed(g) /\ Alike(g, h) /\ g.chunks # << >>
           row  == IF h.chunk_row + offset + 1 < -1 THEN -1 ELSE h.chunk_row + offset + 1
           next == FetchNext(h, fails)
           back == SetIdx(next.h, 0)
           o    == SetAbsoluteCurrentChunk(h, offset, fails)
<1>0. h \in HandleSet /\ h.chunk_row \in Int /\ ChunkSize(h) \in Nat
  BY Fields, ChunkSizeOK DEF HandleOK
<1>1. h.chunks # << >>
  <2>1. CASE h.chunks = << >>
    <3>1. Held(h) = {}
      BY <2>1 DEF Held
    <3> QED BY <3>1 DEF Readable
  <2> QED BY <2>1
<1>2. Fine(h)
  BY <1>1 DEF Alike
<1>3. \A r \in Int : Fine(AtRow(h, r, r))
  <2> SUFFICES ASSUME NEW r \in Int PROVE Fine(AtRow(h, r, r))
    OBVIOUS
  <2> DEFINE g == AtRow(h, r, r)
  <2>1. /\ Alike(g, h) /\ g.chunks = h.chunks /\ g.current_chunk_idx = h.current_chunk_idx
        /\ Readable(g)
    BY AtRowPointed
  <2> HIDE DEF g
  <2> QED BY <1>1, <2>1 DEF Pointed, g
<1>4. Fine(BeforeStart(h).h)
  BY <1>1, BeforeStartPointed
<1>5. Moved(next, h) /\ HandleOK(next.h)
  BY FetchNextPointed, FetchNextOK
<1> HIDE DEF next
<1>6. Fine(next.h)
  BY <1>1, <1>5 DEF Moved, Stays
<1>7. Fine(back)
  <2>1. next.h \in HandleSet
    BY <1>5 DEF HandleOK
  <2>2. /\ back.chunks = next.h.chunks /\ back.current_chunk = next.h.current_chunk
        /\ back.current_chunk_idx = 0 /\ Alike(back, next.h)
    BY <2>1 DEF SetIdx, HandleSet, Alike
  <2>3. next.h.chunks \in Seq(Nat \ {0})
    BY <2>1, Fields
  <2> HIDE DEF back
  <2>4. Readable(back) /\ 0 < Len(back.chunks)
    BY <1>6, <2>2, <2>3 DEF Pointed, Readable, Held
  <2> QED BY <1>6, <2>2, <2>4 DEF Pointed, Alike
<1>8. o.h \in {h, BeforeStart(h).h, next.h, back} \/ \E r \in Int : o.h = AtRow(h, r, r)
  <2>1. row \in Int /\ 0 \in Int /\ offset - 1 \in Int
    BY <1>0
  <2>2. o.h \in {h, BeforeStart(h).h, next.h, back,
                 AtRow(h, row, row), AtRow(h, 0, 0), AtRow(h, offset - 1, offset - 1)}
    BY DEF SetAbsoluteCurrentChunk, AtRow, SetIdx, next
  <2> HIDE DEF o, row, back
  <2> QED BY <2>1, <2>2
<1> HIDE DEF o, back
<1>9. Fine(o.h)
  BY <1>2, <1>3, <1>4, <1>6, <1>7, <1>8
<1> QED BY <1>9 DEF o
----------------------------------------------------------------------------
(***************************************************************************)
(* The transfer of values.                                                 *)
(***************************************************************************)
\* g is h, on another row of the same chunk.
Visits(g, h) ==
  /\ Alike(g, h) /\ g.res = h.res /\ g.chunks = h.chunks
  /\ g.current_chunk = h.current_chunk /\ g.current_chunk_idx = h.current_chunk_idx
  /\ g.prior_chunk_row = h.prior_chunk_row

\* A handle on another row of its chunk is pointed likewise.
LEMMA VisitsPointed ==
  ASSUME NEW h, NEW g, Visits(g, h), Pointed(h), h.chunks # << >>
  PROVE  Pointed(g) /\ g.chunks # << >> /\ (Fits(h) => Fits(g)) /\ ChunkSize(g) = ChunkSize(h)
<1>1. Held(g) = Held(h)
  BY DEF Held, Visits
<1> QED BY <1>1 DEF Pointed, Visits, Readable, Fits, ChunkSize

\* Remembering a value changes nothing else, moving to a row only the row.
LEMMA Visiting ==
  ASSUME NEW h, HandleOK(h), NEW v, NEW r
  PROVE  /\ Visits(SetLast(h, v), h) /\ SetLast(h, v).chunk_row = h.chunk_row
         /\ Visits([h EXCEPT !.chunk_row = r], h) /\ [h EXCEPT !.chunk_row = r].chunk_row = r
<1>0. h \in HandleSet
  BY DEF HandleOK
<1>2. Visits(SetLast(h, v), h) /\ SetLast(h, v).chunk_row = h.chunk_row
  BY <1>0 DEF HandleSet, SetLast, Visits, Alike
<1>3. Visits([h EXCEPT !.chunk_row = r], h) /\ [h EXCEPT !.chunk_row = r].chunk_row = r
  BY <1>0 DEF HandleSet, Visits, Alike
<1> QED BY <1>2, <1>3

\* IncreaseRowCount only counts.
LEMMA CountingVisits ==
  ASSUME NEW h, HandleOK(h)
  PROVE  Visits(IncreaseRowCount(h), h) /\ IncreaseRowCount(h).chunk_row = h.chunk_row
<1> DEFINE n == h.row_count + (IF h.chunk_row + h.array_size < ChunkSize(h)
                                 THEN h.array_size ELSE ChunkSize(h) - h.chunk_row)
<1>1. IncreaseRowCount(h) = SetRowCount(h, n)
  BY DEF IncreaseRowCount, SetRowCount
<1> HIDE DEF n
<1>2. h \in HandleSet
  BY DEF HandleOK
<1>3. Visits(SetRowCount(h, n), h) /\ SetRowCount(h, n).chunk_row = h.chunk_row
  BY <1>2 DEF HandleSet, SetRowCount, Visits, Alike
<1> QED BY <1>1, <1>3

\* Reading a part of a value does not move the handle.
LEMMA ValueVisits ==
  ASSUME NEW h, HandleOK(h), NEW col \in Nat, NEW buf \in Buffers
  PROVE  LET v == GetVariableValue(h, col, ValLen, buf)
         IN Visits(v.h, h) /\ v.h.chunk_row = h.chunk_row /\ HandleOK(v.h)
<1> DEFINE len  == IF h.last.col = col /\ h.last.row = h.chunk_row THEN h.last.length ELSE 0
           seen == [col |-> col, row |-> h.chunk_row, length |-> len]
           g    == SetLast(h, seen)
           out  == IF ValLen - g.last.length > buf THEN buf ELSE ValLen - g.last.length
           read == [g.last EXCEPT !.length = g.last.length + out]
           k    == SetLast(g, read)
           v    == GetVariableValue(h, col, ValLen, buf)
<1>0. h \in HandleSet /\ ValLen \in Nat
  BY LengthsAssumption DEF HandleOK
<1>1. Visits(g, h) /\ g.chunk_row = h.chunk_row
  BY Visiting
<1>2. HandleOK(g)
  <2>1. h.last \in LastVals /\ h.chunk_row \in Int
    BY <1>0, Fields
  <2>2. seen \in LastVals
    BY <2>1 DEF LastVals
  <2>3. 0 \in Nat /\ 0 \in Int
    OBVIOUS
  <2> HIDE DEF seen
  <2> QED BY <2>2, <2>3, FieldChangesOK
<1>3. SetLastFetchedVariableVal(h, col) = g
  BY DEF SetLastFetchedVariableVal, SetLast
<1> HIDE DEF g, seen
<1>4. Visits(k, g) /\ k.chunk_row = g.chunk_row
  <2> HIDE DEF read
  <2> QED BY <1>2, Visiting
<1>5. [g EXCEPT !.last.length = g.last.length + out] = k
  <2> HIDE DEF out
  <2> QED BY DEF SetLast
<1>6. v.h \in {g, k}
  BY <1>3, <1>5 DEF GetVariableValue
<1>7. PartOK(v, h)
  BY <1>0, GetVariableValueOK
<1> HIDE DEF v, k
<1>8. Visits(v.h, h) /\ v.h.chunk_row = h.chunk_row /\ HandleOK(v.h)
  BY <1>1, <1>4, <1>6, <1>7 DEF Visits, Alike, PartOK
<1> QED BY <1>8 DEF v

\* A fetch into bound columns stays on its chunk, and on a row of it.
LEMMA FetchBoundVisits ==
  ASSUME NEW h, HandleOK(h), Readable(h), NEW buf \in Buffers
  PROVE  LET t == FetchBound(h, ValLen, buf)
         IN /\ Visits(t.h, h)
            /\ t.h.chunk_row = IF LastRowToFetch(h) < h.chunk_row + 1
                                 THEN h.chunk_row ELSE LastRowToFetch(h)
<1> DEFINE first == h.chunk_row + 1
           last  == LastRowToFetch(h)
           one   == 1
           To(k, r) == [k EXCEPT !.chunk_row = r]
           head  == GetVariableValue(To(h, first), one, ValLen, buf)
           next  == GetVariableValue(To(head.h, last), one, ValLen, buf)
           tail  == IF first = last THEN head ELSE next
           t     == FetchBound(h, ValLen, buf)
<1>0. h \in HandleSet /\ h.chunk_row \in Int /\ h.array_size \in Nat \ {0}
  BY Fields DEF HandleOK
<1>1. ChunkSize(h) \in Nat
  BY ChunkSizeOK
<1>2. first \in Int /\ last \in Int /\ one \in Nat
  BY <1>0, <1>1 DEF LastRowToFetch
<1> HIDE DEF first, last, one
<1>3. ASSUME NEW k, HandleOK(k), NEW r \in Int
      PROVE  HandleOK(To(k, r)) /\ Visits(To(k, r), k) /\ To(k, r).chunk_row = r
  <2>1. k \in HandleSet /\ k.prior_chunk_row \in Int
    BY <1>3, Fields DEF HandleOK
  <2>2. To(k, r) = AtRow(k, r, k.prior_chunk_row)
    BY <2>1 DEF AtRow, HandleSet
  <2>3. HandleOK(To(k, r))
    BY <1>3, <2>1, <2>2, AtRowOK
  <2> QED BY <1>3, <2>3, Visiting
<1>4. ASSUME NEW k, HandleOK(k), NEW r \in Int
      PROVE  LET v == GetVariableValue(To(k, r), one, ValLen, buf)
             IN HandleOK(v.h) /\ Visits(v.h, k) /\ v.h.chunk_row = r
  <2> DEFINE a == To(k, r)
             v == GetVariableValue(a, one, ValLen, buf)
  <2>1. HandleOK(a) /\ Visits(a, k) /\ a.chunk_row = r
    BY <1>3, <1>4
  <2> HIDE DEF a
  <2>2. Visits(v.h, a) /\ v.h.chunk_row = a.chunk_row /\ HandleOK(v.h)
    BY <1>2, <2>1, ValueVisits
  <2> HIDE DEF v
  <2>3. HandleOK(v.h) /\ Visits(v.h, k) /\ v.h.chunk_row = r
    BY <2>1, <2>2 DEF Visits, Alike
  <2> QED BY <2>3 DEF v, a
<1>5. HandleOK(head.h) /\ Visits(head.h, h) /\ head.h.chunk_row = first
  BY <1>2, <1>4
<1>6. HandleOK(next.h) /\ Visits(next.h, head.h) /\ next.h.chunk_row = last
  <2> HIDE DEF head
  <2> QED BY <1>2, <1>4, <1>5
<1>7. HandleOK(To(h, last)) /\ Visits(To(h, last), h) /\ To(h, last).chunk_row = last
  BY <1>2, <1>3
<1>8. t.h = IF last < first THEN IncreaseRowCount(h)
            ELSE IF h.cols # "variable" THEN IncreaseRowCount(To(h, last))
            ELSE IF Succeeded(tail.ret) THEN IncreaseRowCount(tail.h) ELSE tail.h
  BY DEF FetchBound, Transfer, first, last, head, next, one
<1> HIDE DEF next, head, To, t
<1>9. HandleOK(tail.h) /\ Visits(tail.h, h) /\ tail.h.chunk_row = last
  BY <1>5, <1>6 DEF Visits, Alike
<1> HIDE DEF tail
<1>10. ASSUME NEW k, HandleOK(k), Visits(k, h)
       PROVE  Visits(IncreaseRowCount(k), h) /\ IncreaseRowCount(k).chunk_row = k.chunk_row
  <2>1. Visits(IncreaseRowCount(k), k) /\ IncreaseRowCount(k).chunk_row = k.chunk_row
    BY <1>10, CountingVisits
  <2> QED BY <1>10, <2>1 DEF Visits, Alike
<1>11. CASE last < first
  <2>1. Visits(h, h)
    BY DEF Visits, Alike
  <2>2. t.h = IncreaseRowCount(h) /\ Visits(t.h, h) /\ t.h.chunk_row = h.chunk_row
    BY <1>8, <1>10, <1>11, <2>1
  <2> QED BY <1>11, <2>2 DEF t, last, first
<1>12. CASE ~(last < first)
  <2>1. Visits(t.h, h) /\ t.h.chunk_row = last
    BY <1>7, <1>8, <1>9, <1>10, <1>12
  <2> QED BY <1>12, <2>1 DEF t, last, first
<1> QED BY <1>11, <1>12

\* A fetch transfers rows of the chunk its handle points to; into bound columns it
\* stops on one of them.
LEMMA FetchRowsPointed ==
  ASSUME NEW h, HandleOK(h), Pointed(h), Readable(h), h.chunks # << >>, NEW buf \in Buffers
  PROVE  LET t == FetchRows(h, ValLen, buf)
         IN /\ Visits(t.h, h)
            /\ h.bound_size # 0 /\ OnRow(h) => OnRow(t.h) /\ t.h.chunk_row >= 0
<1> DEFINE t == FetchRows(h, ValLen, buf)
<1>0. /\ h \in HandleSet /\ h.chunk_row \in Int /\ h.array_size \in Nat \ {0}
      /\ h.prior_chunk_row \in Int /\ ChunkSize(h) \in Nat \ {0}
  BY Fields, ChunkSizeOK DEF HandleOK
<1>1. CASE h.bound_size = 0
  <2> DEFINE r == h.chunk_row + h.array_size
             g == [h EXCEPT !.chunk_row = r]
  <2>1. Visits(g, h)
    BY Visiting
  <2>2. HandleOK(g)
    <3>1. r \in Int
      BY <1>0
    <3> HIDE DEF r
    <3>2. g = AtRow(h, r, h.prior_chunk_row)
      BY <1>0 DEF AtRow, HandleSet
    <3> HIDE DEF g
    <3> QED BY <1>0, <3>1, <3>2, AtRowOK
  <2>3. t.h = IncreaseRowCount(g)
    BY <1>1 DEF FetchRows, PositionOnly, Transfer
  <2> HIDE DEF g, t
  <2>4. Visits(t.h, h)
    BY <2>1, <2>2, <2>3, CountingVisits DEF Visits, Alike
  <2> QED BY <1>1, <2>4 DEF t
<1>2. CASE h.bound_size # 0
  <2> DEFINE last == LastRowToFetch(h)
             size == ChunkSize(h)
  <2>1. /\ Visits(t.h, h)
        /\ t.h.chunk_row = IF last < h.chunk_row + 1 THEN h.chunk_row ELSE last
    <3>1. t = FetchBound(h, ValLen, buf)
      BY <1>2 DEF FetchRows
    <3> QED BY <3>1, FetchBoundVisits
  <2> HIDE DEF t
  <2>2. last = IF h.chunk_row + 1 + h.array_size > size THEN size - 1 ELSE h.chunk_row + h.array_size
    BY DEF LastRowToFetch
  <2>3. ChunkSize(t.h) = size /\ t.h.chunks # << >>
    BY <2>1, VisitsPointed
  <2>4. t.h.prior_chunk_row = h.prior_chunk_row
    BY <2>1 DEF Visits
  <2>5. size \in Nat \ {0}
    BY <1>0
  <2> HIDE DEF last, size
  <2>6. RowsIn(h.chunk_row, h.prior_chunk_row, size) =>
          RowsIn(t.h.chunk_row, h.prior_chunk_row, size) /\ t.h.chunk_row >= 0
    <3> SUFFICES ASSUME RowsIn(h.chunk_row, h.prior_chunk_row, size)
                 PROVE  RowsIn(t.h.chunk_row, h.prior_chunk_row, size) /\ t.h.chunk_row >= 0
      OBVIOUS
    <3> DEFINE row == h.chunk_row
               n == h.array_size
    <3>1. row \in Int /\ row >= -1 /\ row <= size - 1 /\ n \in Nat \ {0}
      BY <1>0, <2>5 DEF RowsIn
    <3>2. t.h.chunk_row = IF last < row + 1 THEN row ELSE last
      BY <2>1
    <3>3. last = IF row + 1 + n > size THEN size - 1 ELSE row + n
      BY <2>2
    <3> HIDE DEF row, n
    <3>4. t.h.chunk_row \in 0 .. size - 1
      BY <2>5, <3>1, <3>2, <3>3
    <3>5. t.h.chunk_row \in -1 .. size - 1 /\ t.h.chunk_row >= 0
      BY <2>5, <3>4
    <3> QED BY <3>5 DEF RowsIn
  <2>7. OnRow(h) => OnRow(t.h) /\ t.h.chunk_row >= 0
    BY <2>3, <2>4, <2>6 DEF OnRow, size
  <2> QED BY <2>1, <2>7 DEF t
<1> QED BY <1>1, <1>2
----------------------------------------------------------------------------
(***************************************************************************)
(* Executing a statement.                                                  *)
(***************************************************************************)
\* ClearChunks leaves nothing to point to.
LEMMA ClearChunksPointed ==
  ASSUME NEW h \in HandleSet
  PROVE  LET c == ClearChunks(h)
         IN /\ c \in HandleSet /\ c.chunks = << >> /\ c.current_chunk = NoChunk
            /\ c.chunk_row = -1 /\ c.prior_chunk_row = -1 /\ c.resultset_end = FALSE
            /\ c.forward_only = h.forward_only /\ c.bound_size = h.bound_size
            /\ c.prepared = h.prepared
BY Basics DEF HandleSet, ClearChunks

\* A handle without chunks, pointer and row.
Blank(g) ==
  /\ g.chunks = << >> /\ g.current_chunk = NoChunk
  /\ g.chunk_row = -1 /\ g.prior_chunk_row = -1

\* It is pointed.
LEMMA BlankPointed ==
  ASSUME NEW g, Blank(g)
  PROVE  Pointed(g) /\ OnRow(g)
<1>1. -1 <= -1
  OBVIOUS
<1> QED BY <1>1 DEF Blank, Pointed, OnRow

\* An execution that succeeds has its first chunk, unless the result is empty.
LEMMA BatchExecuteStmtPointed ==
  ASSUME NEW h, HandleOK(h), NEW sizes \in Results,
         NEW fails \in BOOLEAN, NEW fetchFails \in BOOLEAN
  PROVE  LET o == BatchExecuteStmt(h, sizes, fails, fetchFails)
         IN /\ Pointed(o.h) /\ OnRow(o.h) /\ o.h.forward_only = h.forward_only
            /\ o.h.bound_size = h.bound_size /\ o.h.prepared = h.prepared
            /\ o.ret = "SUCCESS" => Fits(o.h) /\ (sizes # << >> => o.h.chunks # << >>)
<1> DEFINE c == ClearChunks(h)
           r == [NewResult(sizes) EXCEPT !.error = fails]
           b == ~fails
           g == [c EXCEPT !.open = b, !.res = r]
           f == FetchFirst(g, fetchFails)
           o == BatchExecuteStmt(h, sizes, fails, fetchFails)
<1>0. h \in HandleSet
  BY DEF HandleOK
<1>1. /\ c \in HandleSet /\ Blank(c) /\ c.resultset_end = FALSE
      /\ c.forward_only = h.forward_only /\ c.bound_size = h.bound_size
      /\ c.prepared = h.prepared
  BY <1>0, ClearChunksPointed DEF Blank
<1>2. r \in ResultSet /\ r.pos = 0 /\ r.sizes = sizes
  <2> DEFINE n == NewResult(sizes)
  <2>1. n \in ResultSet /\ n.pos = 0 /\ n.sizes = sizes
    BY DEF NewResult, ResultSet
  <2> HIDE DEF n
  <2>2. LET m == [n EXCEPT !.error = fails]
        IN m \in ResultSet /\ m.pos = 0 /\ m.sizes = sizes
    BY <2>1 DEF ResultSet
  <2> QED BY <2>2 DEF n
<1>3. b \in Flags /\ sizes \in Seq(Nat \ {0})
  BY ResultsAssumption DEF Flags
<1> HIDE DEF c, r, b
<1>4. /\ g \in HandleSet /\ g.res = r /\ Blank(g) /\ g.resultset_end = FALSE
      /\ g.forward_only = c.forward_only /\ g.bound_size = c.bound_size
      /\ g.prepared = c.prepared
  BY <1>1, <1>2, <1>3 DEF HandleSet, Blank
<1>5. SingleExecuteStmt(h, sizes, fails) = g
  BY DEF SingleExecuteStmt, c, r, b
<1> HIDE DEF g
<1>6. HandleOK(g) /\ g.res.pos \in Nat /\ Pointed(g) /\ OnRow(g)
  BY <1>2, <1>3, <1>4, BlankPointed DEF HandleOK, Blank
<1>7. /\ Ready(f, g) /\ Fits(f.h) /\ OnRow(f.h)
      /\ ~g.resultset_end /\ f.ret = "NO_DATA" => g.res.pos = Len(g.res.sizes)
  BY <1>6, FetchFirstPointed
<1>8. f.ret \in {"SUCCESS", "NO_DATA", "ERROR"}
  BY <1>6, FetchFirstOK
<1>9. o = IF fails THEN Outcome(g, "ERROR")
          ELSE Outcome(f.h, IF f.ret = "ERROR" THEN "ERROR" ELSE "SUCCESS")
  BY <1>5 DEF BatchExecuteStmt
<1> HIDE DEF f, o
<1>10. CASE fails
  <2>1. o.h = g /\ o.ret = "ERROR"
    BY <1>9, <1>10 DEF Outcome
  <2> QED BY <1>1, <1>4, <1>6, <2>1 DEF o
<1>11. CASE ~fails
  <2>1. o.h = f.h /\ (o.ret = "SUCCESS" => f.ret # "ERROR")
    BY <1>9, <1>11 DEF Outcome
  <2>2. f.ret # "ERROR" /\ sizes # << >> => f.h.chunks # << >>
    <3>1. sizes # << >> => Len(sizes) # 0
      BY <1>3
    <3>2. f.ret = "NO_DATA" => Len(sizes) = 0
      BY <1>2, <1>4, <1>7
    <3> QED BY <1>7, <1>8, <3>1, <3>2 DEF Ready
  <2>3. /\ Pointed(f.h) /\ f.h.forward_only = h.forward_only
        /\ f.h.bound_size = h.bound_size /\ f.h.prepared = h.prepared
    BY <1>1, <1>4, <1>7 DEF Ready, Alike
  <2> QED BY <1>7, <2>1, <2>2, <2>3 DEF o
<1> QED BY <1>10, <1>11

\* Closing a stream leaves the handle where it is.
LEMMA CloseStreamPointed ==
  ASSUME NEW h, HandleOK(h)
  PROVE  LET g == CloseStream(h)
         IN /\ Alike(g, h) /\ Stays(g, h) /\ HandleOK(g)
            /\ (Pointed(h) => Pointed(g) /\ (OnRow(h) => OnRow(g)))
<1> DEFINE r == [h.res EXCEPT !.closed = TRUE]
           g == [h EXCEPT !.res = r]
           s == CloseStream(h)
<1>0. h \in HandleSet /\ h.res \in ResultSet
  BY Fields DEF HandleOK
<1>1. r.sizes = h.res.sizes
  BY <1>0 DEF ResultSet
<1>2. s \in {h, g}
  <2>1. [h EXCEPT !.res.closed = TRUE] = g
    BY <1>0 DEF HandleSet
  <2> QED BY <2>1 DEF CloseStream
<1> HIDE DEF r
<1>3. Alike(g, h) /\ Stays(g, h) /\ Alike(h, h) /\ Stays(h, h)
  BY <1>0, <1>1 DEF HandleSet, Alike, Stays
<1>4. HandleOK(s)
  BY CloseStreamOK
<1> HIDE DEF g, s
<1>5. Alike(s, h) /\ Stays(s, h)
  BY <1>2, <1>3
<1> QED BY <1>4, <1>5, StaysPointed DEF s
----------------------------------------------------------------------------
(***************************************************************************)
(* The calls.                                                              *)
(***************************************************************************)
CursorInv == HeldInv /\ (Compatible => ScrollInv)

\* What the steps below start from.
Given == Holdable /\ TypeInv /\ CursorInv

\* A call that prepares, executes or closes.
LEMMA RestartHeld ==
  ASSUME Given, call = "idle", NEW h, NEW r, NEW open \in BOOLEAN,
         Pointed(h), OnRow(h), h.forward_only = hstmt.forward_only,
         open => Fits(h) /\ (<< >> \notin Results => h.chunks # << >>),
         Compatible => BoundOK(h, open), Restart(h, r, open)
  PROVE  CursorInv'
<1>1. hstmt' = h /\ cursor' = open /\ rowset' = NoRows /\ call' = "idle" /\ ret' = r
  BY DEF Restart
<1>2. NoRows.chunk = NoChunk
  BY DEF NoRows
<1>3. HeldInv'
  BY <1>1 DEF Given, CursorInv, HeldInv, Saved, Pointed, Readable, Held
<1>4. Compatible => ScrollInv'
  <2> SUFFICES ASSUME Compatible PROVE ScrollInv'
    OBVIOUS
  <2>1. BoundOK(hstmt', cursor')
    BY <1>1
  <2>2. OnRow(hstmt')
    BY <1>1
  <2>3. RowInv'
    BY <1>1, <1>2, <2>2 DEF RowInv, OnRow, ChunkSize, RowsIn
  <2> QED BY <1>1, <2>1, <2>3 DEF ScrollInv, BoundOK, Fits
<1> QED BY <1>3, <1>4 DEF CursorInv

\* What a fetch has to leave behind, returning r and the rows rs.
Left(h, r, rs) ==
  /\ Fits(h) /\ (<< >> \notin Results => h.chunks # << >>)
  /\ h.bound_size = hstmt.bound_size /\ h.prepared = hstmt.prepared
  /\ "getdata" \in Calls =>
       /\ OnRow(h)
       /\ Succeeded(r) /\ rs.chunk # NoChunk => h.chunks # << >> /\ h.chunk_row >= 0

\* A fetch that returns.
LEMMA ReturnHeld ==
  ASSUME Given, NEW h, NEW r, NEW rs, Pointed(h), h.forward_only = hstmt.forward_only,
         Compatible => Left(h, r, rs), Return(h, r, rs)
  PROVE  CursorInv'
<1>1. hstmt' = h /\ cursor' = cursor /\ rowset' = rs /\ call' = "idle" /\ ret' = r
  BY DEF Return
<1>2. HeldInv'
  BY <1>1 DEF Given, CursorInv, HeldInv, Saved, Pointed, Readable, Held
<1>3. Compatible => ScrollInv'
  <2> SUFFICES ASSUME Compatible PROVE ScrollInv'
    OBVIOUS
  <2>1. BoundOK(hstmt', cursor')
    BY <1>1 DEF Given, CursorInv, ScrollInv, BoundOK, Left
  <2>2. "getdata" \in Calls => OnRow(hstmt')
    BY <1>1 DEF Left
  <2>3. RowInv'
    BY <1>1, <2>2 DEF RowInv, OnRow, ChunkSize, RowsIn, Left
  <2> QED BY <1>1, <2>1, <2>3 DEF ScrollInv, BoundOK, Fits, Left
<1> QED BY <1>2, <1>3 DEF CursorInv

\* A stray read, where nothing is promised.
LEMMA UndefinedHeld ==
  ASSUME Given, Undefined, ~Compatible
  PROVE  CursorInv'
<1>1. hstmt' = hstmt /\ call' = "undefined"
  BY DEF Undefined
<1> QED BY <1>1 DEF Given, CursorInv, HeldInv, Saved, Pointed, Readable, Held

\* A fetch that returns at once with the handle as it was.
LEMMA StayHeld ==
  ASSUME Given, cursor, NEW r, Return(hstmt, r, NoRows)
  PROVE  CursorInv'
<1>1. NoRows.chunk = NoChunk
  BY DEF NoRows
<1>2. Compatible => Left(hstmt, r, NoRows)
  BY <1>1 DEF Given, CursorInv, ScrollInv, RowInv, Left
<1> QED BY <1>2, ReturnHeld DEF Given, CursorInv, HeldInv

\* The end of a fetch that has found its chunk.
LEMMA FinishHeld ==
  ASSUME Given, Compatible => cursor, NEW h, HandleOK(h), h.res.pos \in Nat,
         NEW r \in {"SUCCESS", "NO_DATA", "ERROR", "BEFORE_START"},
         Pointed(h), Alike(h, hstmt), r = "SUCCESS" => h.chunks # << >>,
         Compatible => /\ Fits(h) /\ (<< >> \notin Results => h.chunks # << >>)
                       /\ "getdata" \in Calls => OnRow(h) /\ r # "BEFORE_START",
         FinishFetch(h, r)
  PROVE  CursorInv'
<1>0. h.forward_only = hstmt.forward_only /\ NoRows.chunk = NoChunk
  BY DEF Alike, NoRows
<1>1. CASE r = "BEFORE_START"
  <2> DEFINE rs == [NoRows EXCEPT !.chunk = h.current_chunk]
  <2>1. Return(h, "SUCCESS", rs)
    BY <1>1 DEF FinishFetch
  <2> HIDE DEF rs
  <2>2. Compatible => Left(h, "SUCCESS", rs)
    BY <1>1 DEF Left, Alike
  <2> QED BY <1>0, <2>1, <2>2, ReturnHeld
<1>2. CASE r \in {"NO_DATA", "ERROR"}
  <2>1. Return(h, r, NoRows)
    BY <1>2 DEF FinishFetch
  <2>2. Compatible => Left(h, r, NoRows)
    BY <1>0 DEF Left, Alike
  <2> QED BY <1>0, <2>1, <2>2, ReturnHeld
<1>3. CASE r = "SUCCESS" /\ ~CanFetchRows(h)
  <2>1. Undefined
    BY <1>3 DEF FinishFetch
  <2>2. Compatible => CanFetchRows(h)
    <3>1. Readable(h)
      BY <1>3 DEF Pointed
    <3>2. Compatible => h.bound_size \in {0, Columns}
      BY DEF Given, CursorInv, ScrollInv, BoundOK, Compatible, Alike
    <3> QED BY <3>1, <3>2 DEF CanFetchRows, Columns
  <2> QED BY <1>3, <2>1, <2>2, UndefinedHeld
<1>4. CASE r = "SUCCESS" /\ CanFetchRows(h)
  <2>1. PICK buf \in BufLens : LET t == FetchRows(h, ValLen, buf)
                                IN Return(t.h, t.ret, t.rowset)
    BY <1>4 DEF FinishFetch
  <2> DEFINE t == FetchRows(h, ValLen, buf)
  <2>2. buf \in Buffers
    BY LengthsAssumption DEF Buffers
  <2>3. Readable(h) /\ h.chunks # << >>
    BY <1>4 DEF CanFetchRows
  <2>4. Visits(t.h, h) /\ (h.bound_size # 0 /\ OnRow(h) => OnRow(t.h) /\ t.h.chunk_row >= 0)
    BY <2>2, <2>3, FetchRowsPointed
  <2>5. Return(t.h, t.ret, t.rowset)
    BY <2>1
  <2> HIDE DEF t
  <2>6. Pointed(t.h) /\ t.h.chunks # << >> /\ (Fits(h) => Fits(t.h))
    BY <2>3, <2>4, VisitsPointed
  <2>7. /\ t.h.forward_only = hstmt.forward_only /\ t.h.bound_size = hstmt.bound_size
        /\ t.h.prepared = hstmt.prepared /\ h.bound_size = hstmt.bound_size
    BY <2>4 DEF Visits, Alike
  <2>8. Compatible /\ "getdata" \in Calls => hstmt.bound_size = Columns /\ Columns # 0
    BY DEF Given, CursorInv, ScrollInv, BoundOK, Compatible, Columns
  <2>9. Compatible => Left(t.h, t.ret, t.rowset)
    BY <2>4, <2>6, <2>7, <2>8 DEF Left
  <2> QED BY <2>5, <2>6, <2>7, <2>9, ReturnHeld
<1> QED BY <1>1, <1>2, <1>3, <1>4

\* A fetch in any direction but SQL_FETCH_ABSOLUTE.
LEMMA FetchWithHeld ==
  ASSUME Given, cursor, NEW orientation \in {"NEXT", "PRIOR", "FIRST"}, FetchWith(orientation)
  PROVE  CursorInv'
<1>0. HandleOK(hstmt) /\ hstmt.res.pos \in Nat /\ Pointed(hstmt)
  BY DEF Given, TypeInv, CursorInv, HeldInv
<1>1. PICK fails \in BOOLEAN :
        LET o == FetchNextChunk(hstmt, orientation, fails)
        IN IF orientation = "PRIOR" /\ ~hstmt.forward_only /\ ~PriorInRange(hstmt)
             THEN Undefined
             ELSE FinishFetch(o.h, o.ret)
  BY DEF FetchWith
<1> DEFINE o == FetchNextChunk(hstmt, orientation, fails)
           stray == orientation = "PRIOR" /\ ~hstmt.forward_only /\ ~PriorInRange(hstmt)
<1>2. CASE stray
  <2>1. ~Compatible
    BY <1>2 DEF Given, CursorInv, ScrollInv, PriorInRange, Fits
  <2> QED BY <1>1, <1>2, <2>1, UndefinedHeld
<1>3. CASE ~stray
  <2>1. HandleOK(o.h) /\ o.h.res.pos \in Nat /\ o.ret \in {"SUCCESS", "NO_DATA", "ERROR"}
    BY <1>0, <1>3, FetchNextChunkOK
  <2>2. Ready(o, hstmt)
    BY <1>0, <1>3, FetchNextChunkPointed
  <2>3. FinishFetch(o.h, o.ret)
    BY <1>1, <1>3
  <2> HIDE DEF o
  <2>4. Compatible => /\ Fits(o.h) /\ (<< >> \notin Results => o.h.chunks # << >>)
                      /\ "getdata" \in Calls => OnRow(o.h) /\ o.ret # "BEFORE_START"
    BY <2>1, <2>2 DEF Ready, Given, CursorInv, ScrollInv, RowInv
  <2>5. o.ret \in {"SUCCESS", "NO_DATA", "ERROR", "BEFORE_START"}
    BY <2>1
  <2>6. Pointed(o.h) /\ Alike(o.h, hstmt) /\ (o.ret = "SUCCESS" => o.h.chunks # << >>)
    BY <2>2 DEF Ready
  <2> QED BY <2>1, <2>3, <2>4, <2>5, <2>6, FinishHeld
<1> QED BY <1>2, <1>3

\* SQLFetch and SQLFetchScroll but for SQL_FETCH_ABSOLUTE.
LEMMA FetchesHeld ==
  ASSUME Given, SQLFetch \/ SQLFetchNext \/ SQLFetchPrior \/ SQLFetchFirst
  PROVE  CursorInv'
<1>1. cursor
  BY DEF SQLFetch, SQLFetchNext, SQLFetchPrior, SQLFetchFirst, SQLFetchScroll
<1>2. \A d \in {"NEXT", "PRIOR", "FIRST"} : FetchWith(d) => CursorInv'
  BY <1>1, FetchWithHeld
<1>3. CASE SQLFetch
  <2>1. CASE ~hstmt.retrieve_data
    BY <1>1, <1>3, <2>1, StayHeld DEF SQLFetch
  <2>2. CASE hstmt.retrieve_data /\ hstmt.open
    BY <1>2, <1>3, <2>2 DEF SQLFetch
  <2>3. CASE hstmt.retrieve_data /\ ~hstmt.open
    BY <1>1, <1>3, <2>3, StayHeld DEF SQLFetch
  <2> QED BY <2>1, <2>2, <2>3
<1>4. CASE SQLFetchNext \/ SQLFetchPrior \/ SQLFetchFirst
  <2>1. CASE hstmt.open /\ ~HasError(hstmt)
    BY <1>2, <1>4, <2>1 DEF SQLFetchNext, SQLFetchPrior, SQLFetchFirst, SQLFetchScroll
  <2>2. CASE ~(hstmt.open /\ ~HasError(hstmt))
    <3>1. Return(hstmt, IF HasError(hstmt) THEN "ERROR" ELSE "NO_DATA", NoRows)
      BY <1>4, <2>2 DEF SQLFetchNext, SQLFetchPrior, SQLFetchFirst, SQLFetchScroll
    <3> QED BY <1>1, <3>1, StayHeld
  <2> QED BY <2>1, <2>2
<1> QED BY <1>3, <1>4

\* SQL_FETCH_ABSOLUTE: entering its recursion, or being refused.
LEMMA SQLFetchAbsoluteHeld ==
  ASSUME Given, NEW offset \in Offsets, SQLFetchAbsolute(offset)
  PROVE  CursorInv'
<1>1. cursor /\ "absolute" \in Calls /\ call = "idle"
  BY DEF SQLFetchAbsolute, SQLFetchScroll, Calling
<1>2. CASE hstmt.open /\ ~HasError(hstmt) /\ ~hstmt.forward_only
  <2>1. call' = "absolute" /\ UNCHANGED <<hstmt, cursor, ret, tran, rowset, delivered, parts>>
    BY <1>2 DEF SQLFetchAbsolute, SQLFetchScroll, EnterAbsolute
  <2>2. HeldInv'
    BY <2>1 DEF Given, CursorInv, HeldInv, Saved, Pointed, Readable, Held
  <2>3. Compatible => ScrollInv'
    BY <1>1, <2>1 DEF Given, CursorInv, ScrollInv, Compatible, RowInv, BoundOK, Fits
  <2> QED BY <2>2, <2>3 DEF CursorInv
<1>3. CASE hstmt.open /\ ~HasError(hstmt) /\ hstmt.forward_only
  BY <1>1, <1>3, StayHeld DEF SQLFetchAbsolute, SQLFetchScroll, EnterAbsolute
<1>4. CASE ~(hstmt.open /\ ~HasError(hstmt))
  <2>1. Return(hstmt, IF HasError(hstmt) THEN "ERROR" ELSE "NO_DATA", NoRows)
    BY <1>4 DEF SQLFetchAbsolute, SQLFetchScroll
  <2> QED BY <1>1, <2>1, StayHeld
<1> QED BY <1>2, <1>3, <1>4

\* A level of that recursion.
LEMMA AbsoluteStepHeld ==
  ASSUME Given, AbsoluteStep
  PROVE  CursorInv'
<1>0. /\ hstmt.res.pos \in Nat /\ HandleOK(hstmt) /\ loop.offset \in Int /\ Pointed(hstmt)
      /\ call = "absolute"
  BY DEF Given, TypeInv, AbsoluteStep, TypeOK, CursorInv, HeldInv
<1>1. PICK fails \in BOOLEAN, fails2 \in BOOLEAN :
       LET g == AbsoluteChunk(hstmt, fails)
           o == SetAbsoluteCurrentChunk(g, loop.offset, fails2)
       IN IF ~Readable(g) THEN Undefined
          ELSE IF o.ret = "AGAIN"
            THEN /\ hstmt' = o.h /\ loop' = [loop EXCEPT !.offset = o.offset]
                 /\ UNCHANGED <<cursor, call, ret, tran, rowset, delivered, parts>>
          ELSE FinishFetch(o.h, o.ret)
  BY DEF AbsoluteStep
<1> DEFINE g == AbsoluteChunk(hstmt, fails)
           o == SetAbsoluteCurrentChunk(g, loop.offset, fails2)
           n == FetchNext(hstmt, fails)
<1>2. /\ HandleOK(g) /\ g.res.pos \in Nat /\ Pointed(g) /\ Alike(g, hstmt)
  <2>1. HandleOK(n.h) /\ n.h.res.pos \in Nat /\ Moved(n, hstmt)
    BY <1>0, FetchNextOK, FetchNextPointed
  <2>2. g \in {hstmt, n.h}
    BY DEF AbsoluteChunk
  <2>3. Alike(hstmt, hstmt)
    BY DEF Alike
  <2> HIDE DEF g, n
  <2> QED BY <1>0, <2>1, <2>2, <2>3 DEF Moved
<1>3. Compatible => /\ cursor /\ Readable(g) /\ << >> \notin Results /\ "getdata" \notin Calls
  <2> SUFFICES ASSUME Compatible
               PROVE  cursor /\ Readable(g) /\ << >> \notin Results /\ "getdata" \notin Calls
    OBVIOUS
  <2>1. /\ cursor /\ << >> \notin Results /\ "getdata" \notin Calls /\ hstmt.chunks # << >>
    BY <1>0 DEF Given, CursorInv, ScrollInv, Compatible
  <2>2. Readable(hstmt)
    BY <1>0, <2>1 DEF Pointed
  <2>3. hstmt.current_chunk # NoChunk
    BY <1>0, <2>2, ChunkSizeOK DEF NoChunk
  <2>4. g = hstmt
    BY <2>1, <2>3 DEF AbsoluteChunk
  <2> QED BY <2>1, <2>2, <2>4
<1>4. CASE ~Readable(g)
  BY <1>1, <1>3, <1>4, UndefinedHeld
<1>5. CASE Readable(g)
  <2>1. IF o.ret = "AGAIN"
          THEN /\ hstmt' = o.h /\ loop' = [loop EXCEPT !.offset = o.offset]
               /\ UNCHANGED <<cursor, call, ret, tran, rowset, delivered, parts>>
          ELSE FinishFetch(o.h, o.ret)
    BY <1>1, <1>5
  <2> HIDE DEF g
  <2>2. /\ HandleOK(o.h) /\ o.h.res.pos \in Nat
        /\ o.ret \in {"SUCCESS", "NO_DATA", "ERROR", "BEFORE_START", "AGAIN"}
    BY <1>0, <1>2, <1>5, SetAbsoluteCurrentChunkOK
  <2>3. Pointed(o.h) /\ Alike(o.h, g) /\ o.h.chunks # << >>
    BY <1>0, <1>2, <1>5, SetAbsolutePointed
  <2> HIDE DEF o
  <2>4. Alike(o.h, hstmt) /\ Fits(o.h)
    BY <1>2, <2>2, <2>3, PointedFits DEF Alike
  <2>5. CASE o.ret = "AGAIN"
    <3>1. hstmt' = o.h /\ UNCHANGED <<cursor, call, ret, rowset>>
      BY <2>1, <2>5
    <3>2. HeldInv'
      BY <1>0, <2>3, <2>4, <3>1
         DEF Given, CursorInv, HeldInv, Saved, Pointed, Readable, Held, Alike
    <3>3. Compatible => ScrollInv'
      <4> SUFFICES ASSUME Compatible PROVE ScrollInv'
        OBVIOUS
      <4>1. RowInv'
        BY <1>3 DEF RowInv
      <4>2. BoundOK(hstmt', cursor')
        BY <2>4, <3>1 DEF Given, CursorInv, ScrollInv, BoundOK, Alike
      <4> QED BY <1>0, <2>3, <2>4, <3>1, <4>1, <4>2
              DEF Given, CursorInv, ScrollInv, BoundOK, Fits
    <3> QED BY <3>2, <3>3 DEF CursorInv
  <2>6. CASE o.ret # "AGAIN"
    <3>1. FinishFetch(o.h, o.ret)
      BY <2>1, <2>6
    <3>2. o.ret \in {"SUCCESS", "NO_DATA", "ERROR", "BEFORE_START"}
      BY <2>2, <2>6
    <3>3. Compatible => /\ Fits(o.h) /\ (<< >> \notin Results => o.h.chunks # << >>)
                        /\ "getdata" \in Calls => OnRow(o.h) /\ o.ret # "BEFORE_START"
      BY <1>3, <2>3, <2>4
    <3> QED BY <1>3, <2>2, <2>3, <2>4, <3>1, <3>2, <3>3, FinishHeld
  <2> QED BY <2>5, <2>6
<1> QED BY <1>4, <1>5

\* A call that leaves the position alone.
LEMMA PlaceHeld ==
  ASSUME Given, call = "idle", NEW h, Stays(h, hstmt), h.res.sizes = hstmt.res.sizes,
         h.forward_only \in CursorTypes, Compatible => BoundOK(h, cursor),
         hstmt' = h, UNCHANGED <<cursor, call, ret, rowset>>
  PROVE  CursorInv'
<1>1. Pointed(h)
  BY DEF Given, CursorInv, HeldInv, Pointed, Readable, Held, Stays
<1>2. HeldInv'
  BY <1>1 DEF HeldInv, Saved, Pointed, Readable, Held
<1>3. Compatible => ScrollInv'
  <2> SUFFICES ASSUME Compatible PROVE ScrollInv'
    OBVIOUS
  <2>1. ScrollInv
    BY DEF Given, CursorInv
  <2>2. "getdata" \in Calls => OnRow(h)
    BY <2>1 DEF ScrollInv, RowInv, OnRow, Stays, ChunkSize
  <2>3. RowInv'
    BY <2>1, <2>2 DEF ScrollInv, RowInv, OnRow, ChunkSize, RowsIn, Stays
  <2>4. BoundOK(hstmt', cursor')
    OBVIOUS
  <2> QED BY <2>1, <2>3, <2>4 DEF ScrollInv, BoundOK, Fits, Stays
<1> QED BY <1>2, <1>3 DEF CursorInv

\* SQLGetData.
LEMMA SQLGetDataHeld ==
  ASSUME Given, NEW col \in {2, 3}, NEW buf \in BufLens, SQLGetData(col, buf)
  PROVE  CursorInv'
<1>0. /\ HandleOK(hstmt) /\ Pointed(hstmt) /\ call = "idle" /\ "getdata" \in Calls
      /\ cursor /\ Succeeded(ret) /\ rowset.chunk # NoChunk /\ hstmt.forward_only \in CursorTypes
  BY DEF Given, TypeInv, CursorInv, HeldInv, SQLGetData, Calling
<1>1. Compatible => Readable(hstmt) /\ hstmt.chunk_row \in 0 .. ChunkSize(hstmt) - 1
  <2> SUFFICES ASSUME Compatible
               PROVE  Readable(hstmt) /\ hstmt.chunk_row \in 0 .. ChunkSize(hstmt) - 1
    OBVIOUS
  <2>1. OnRow(hstmt) /\ hstmt.chunks # << >> /\ hstmt.chunk_row >= 0
    BY <1>0 DEF Given, CursorInv, ScrollInv, RowInv
  <2>2. Readable(hstmt)
    BY <1>0, <2>1 DEF Pointed
  <2>3. ChunkSize(hstmt) \in Nat /\ hstmt.chunk_row \in Int
    BY <1>0, <2>2, ChunkSizeOK, Fields DEF HandleOK
  <2>4. hstmt.chunk_row \in -1 .. ChunkSize(hstmt) - 1
    BY <2>1 DEF OnRow, RowsIn
  <2> QED BY <2>1, <2>2, <2>3, <2>4
<1>2. CASE ~(Readable(hstmt) /\ hstmt.chunk_row \in 0 .. ChunkSize(hstmt) - 1)
  <2>1. Undefined
    BY <1>2 DEF SQLGetData
  <2> QED BY <1>1, <1>2, <2>1, UndefinedHeld
<1>3. CASE Readable(hstmt) /\ hstmt.chunk_row \in 0 .. ChunkSize(hstmt) - 1
  <2> DEFINE v == GetVariableValue(hstmt, col, ValLen, buf)
  <2>1. hstmt' = v.h /\ UNCHANGED <<cursor, call, ret, rowset>>
    BY <1>3 DEF SQLGetData
  <2>2. col \in Nat /\ buf \in Buffers
    BY LengthsAssumption DEF Buffers
  <2>3. Visits(v.h, hstmt) /\ v.h.chunk_row = hstmt.chunk_row
    BY <1>0, <2>2, ValueVisits
  <2> HIDE DEF v
  <2>4. /\ Stays(v.h, hstmt) /\ v.h.res.sizes = hstmt.res.sizes
        /\ v.h.forward_only \in CursorTypes
    BY <1>0, <2>3 DEF Visits, Stays, Alike
  <2>5. Compatible => BoundOK(v.h, cursor)
    BY <2>3 DEF Given, CursorInv, ScrollInv, BoundOK, Visits, Alike
  <2> QED BY <1>0, <2>1, <2>4, <2>5, PlaceHeld
<1> QED BY <1>2, <1>3

\* A handle SQLPrepare or SQLExecDirect has on its way.
Sound(k) ==
  /\ HandleOK(k) /\ Pointed(k) /\ OnRow(k) /\ k.forward_only = hstmt.forward_only
  /\ Compatible /\ "bind" \notin Calls => k.bound_size \in {0, Columns}

\* FinalizeStmt gives bound_cols its length.
LEMMA FinalizeSound ==
  ASSUME NEW k, Sound(k)
  PROVE  Sound(FinalizeStmt(k)) /\ FinalizeStmt(k).bound_size = Columns
<1> DEFINE f == FinalizeStmt(k)
<1>1. /\ Stays(f, k) /\ f.res = k.res /\ f.forward_only = k.forward_only
      /\ f.bound_size = Columns
  BY DEF Sound, HandleOK, HandleSet, FinalizeStmt, Stays
<1>2. HandleOK(f)
  BY PrepareOK DEF Sound
<1> HIDE DEF f
<1>3. Pointed(f) /\ OnRow(f)
  BY <1>1 DEF Sound, Pointed, OnRow, Readable, Held, Stays, ChunkSize
<1>4. Sound(f) /\ f.bound_size = Columns
  BY <1>1, <1>2, <1>3 DEF Sound
<1> QED BY <1>4 DEF f

\* An execution of a statement whose bound_cols has an element per column.
LEMMA ExecuteHeld ==
  ASSUME Given, call = "idle", NEW k, HandleOK(k), k.forward_only = hstmt.forward_only,
         Compatible => BoundOK(k, TRUE),
         NEW sizes \in Results, NEW fails \in BOOLEAN, NEW fetchFails \in BOOLEAN,
         LET o == BatchExecuteStmt(k, sizes, fails, fetchFails)
         IN Restart(o.h, o.ret, o.ret = "SUCCESS")
  PROVE  CursorInv'
<1> DEFINE o == BatchExecuteStmt(k, sizes, fails, fetchFails)
           open == o.ret = "SUCCESS"
<1>1. /\ Pointed(o.h) /\ OnRow(o.h) /\ o.h.forward_only = k.forward_only
      /\ o.h.bound_size = k.bound_size
      /\ open => Fits(o.h) /\ (sizes # << >> => o.h.chunks # << >>)
  BY BatchExecuteStmtPointed
<1>2. Restart(o.h, o.ret, open) /\ open \in BOOLEAN
  OBVIOUS
<1> HIDE DEF o, open
<1>3. o.h.forward_only = hstmt.forward_only /\ (Compatible => BoundOK(o.h, open))
  BY <1>1 DEF BoundOK
<1>4. open => Fits(o.h) /\ (<< >> \notin Results => o.h.chunks # << >>)
  BY <1>1
<1> QED BY <1>1, <1>2, <1>3, <1>4, RestartHeld

\* SQLPrepare, SQLExecute, SQLExecDirect and SQLFreeStmt(SQL_CLOSE).
LEMMA RestartActionsHeld ==
  ASSUME Given,
         \/ SQLPrepare \/ CloseStmt
         \/ \E sizes \in Results : SQLExecute(sizes) \/ SQLExecDirect(sizes)
  PROVE  CursorInv'
<1>0. /\ HandleOK(hstmt) /\ hstmt \in HandleSet /\ Pointed(hstmt) /\ call = "idle"
      /\ Compatible => BoundOK(hstmt, cursor)
  BY DEF Given, TypeInv, HandleOK, CursorInv, HeldInv, ScrollInv,
         SQLPrepare, CloseStmt, SQLExecute, SQLExecDirect, Calling
<1> DEFINE c == ClearChunks(hstmt)
           p == PrepareQuery(hstmt)
<1>1. /\ c \in HandleSet /\ Blank(c) /\ c.forward_only = hstmt.forward_only
      /\ c.bound_size = hstmt.bound_size /\ c.prepared = hstmt.prepared
  BY <1>0, ClearChunksPointed DEF Blank
<1>2. p = [c EXCEPT !.res = NoResult, !.prepared = FALSE]
  BY DEF PrepareQuery
<1> HIDE DEF c
<1>3. Sound(p) /\ ~p.prepared
  <2>1. /\ Blank(p) /\ p.forward_only = c.forward_only /\ p.bound_size = c.bound_size
        /\ p.prepared = FALSE
    BY <1>1, <1>2 DEF HandleSet, Blank
  <2>2. HandleOK(p)
    BY <1>0, PrepareOK
  <2> HIDE DEF p
  <2>3. Compatible /\ "bind" \notin Calls => p.bound_size \in {0, Columns}
    BY <1>0, <1>1, <2>1 DEF BoundOK
  <2> QED BY <1>1, <2>1, <2>2, <2>3, BlankPointed DEF Sound
<1> HIDE DEF p
<1>4. ASSUME NEW k, Sound(k), ~k.prepared \/ k.bound_size = Columns, NEW r,
             Restart(k, r, FALSE)
      PROVE  CursorInv'
  <2>1. Compatible => BoundOK(k, FALSE)
    BY <1>4 DEF Sound, BoundOK
  <2>2. Pointed(k) /\ OnRow(k) /\ k.forward_only = hstmt.forward_only
    BY <1>4 DEF Sound
  <2> QED BY <1>0, <1>4, <2>1, <2>2, RestartHeld
<1>5. ASSUME SQLPrepare PROVE CursorInv'
  <2>1. CASE Restart(FinalizeStmt(p), "SUCCESS", FALSE)
    BY <1>3, <1>4, <2>1, FinalizeSound
  <2>2. CASE Restart(p, "ERROR", FALSE)
    BY <1>3, <1>4, <2>2
  <2> QED BY <1>5, <2>1, <2>2 DEF SQLPrepare, p
<1>6. ASSUME CloseStmt PROVE CursorInv'
  <2> DEFINE g == [c EXCEPT !.open = FALSE, !.res = NoResult]
  <2>1. /\ Blank(g) /\ g.forward_only = hstmt.forward_only
        /\ g.bound_size = hstmt.bound_size /\ g.prepared = hstmt.prepared
    BY <1>1 DEF HandleSet, Blank
  <2>2. Restart(g, "SUCCESS", FALSE)
    BY <1>6 DEF CloseStmt, c
  <2> HIDE DEF g
  <2>3. Compatible => BoundOK(g, FALSE)
    BY <1>0, <2>1 DEF BoundOK
  <2> QED BY <1>0, <2>1, <2>2, <2>3, BlankPointed, RestartHeld
<1>7. ASSUME NEW sizes \in Results, SQLExecute(sizes) PROVE CursorInv'
  <2>1. PICK fails \in BOOLEAN, fetchFails \in BOOLEAN :
          LET o == BatchExecuteStmt(hstmt, sizes, fails, fetchFails)
          IN Restart(o.h, o.ret, o.ret = "SUCCESS")
    BY <1>7 DEF SQLExecute
  <2>2. hstmt.prepared
    BY <1>7 DEF SQLExecute
  <2>3. Compatible => BoundOK(hstmt, TRUE)
    BY <1>0, <2>2 DEF BoundOK
  <2> QED BY <1>0, <2>1, <2>3, ExecuteHeld
<1>8. ASSUME NEW sizes \in Results, SQLExecDirect(sizes) PROVE CursorInv'
  <2>1. PICK earlier \in BOOLEAN, unprepared \in BOOLEAN, fails \in BOOLEAN,
             fetchFails \in BOOLEAN :
       LET k == IF earlier
                  THEN CloseStream(BatchExecuteStmt(FinalizeStmt(p), sizes, FALSE, FALSE).h)
                  ELSE p
           o == BatchExecuteStmt(FinalizeStmt(k), sizes, fails, fetchFails)
       IN IF unprepared
            THEN Restart([k EXCEPT !.prepared = FALSE], "ERROR", FALSE)
            ELSE Restart(o.h, o.ret, o.ret = "SUCCESS")
    BY <1>8 DEF SQLExecDirect, p
  <2> DEFINE f == FinalizeStmt(p)
             e == BatchExecuteStmt(f, sizes, FALSE, FALSE).h
             s == CloseStream(e)
             k == IF earlier THEN s ELSE p
             u == [k EXCEPT !.prepared = FALSE]
  <2>2. FALSE \in BOOLEAN /\ Sound(f) /\ f.bound_size = Columns
    BY <1>3, FinalizeSound
  <2> HIDE DEF f
  <2>3. Sound(e)
    <3>1. HandleOK(e)
      BY <2>2, BatchExecuteStmtOK DEF Sound
    <3>2. /\ Pointed(e) /\ OnRow(e) /\ e.forward_only = f.forward_only
          /\ e.bound_size = f.bound_size
      BY <2>2, BatchExecuteStmtPointed DEF Sound
    <3> QED BY <2>2, <3>1, <3>2 DEF Sound
  <2> HIDE DEF e
  <2>4. Sound(s)
    <3>1. HandleOK(s) /\ Alike(s, e) /\ Pointed(s) /\ OnRow(s)
      BY <2>3, CloseStreamPointed DEF Sound
    <3> QED BY <2>3, <3>1 DEF Sound, Alike
  <2> HIDE DEF s
  <2>5. Sound(k)
    BY <1>3, <2>4
  <2>6. CASE unprepared
    <3>1. Restart(u, "ERROR", FALSE)
      BY <2>1, <2>6 DEF f, e, s
    <3> HIDE DEF k
    <3>2. /\ Stays(u, k) /\ u.res = k.res /\ u.forward_only = k.forward_only
          /\ u.bound_size = k.bound_size /\ u.prepared = FALSE /\ u \in HandleSet
      BY <2>5 DEF Sound, HandleOK, HandleSet, Stays, Flags
    <3> HIDE DEF u
    <3>3. Sound(u)
      BY <2>5, <3>2 DEF Sound, HandleOK, Pointed, OnRow, Readable, Held, Stays, ChunkSize
    <3> QED BY <1>4, <3>1, <3>2, <3>3
  <2>7. CASE ~unprepared
    <3>1. LET o == BatchExecuteStmt(FinalizeStmt(k), sizes, fails, fetchFails)
          IN Restart(o.h, o.ret, o.ret = "SUCCESS")
      BY <2>1, <2>7 DEF f, e, s
    <3> HIDE DEF k
    <3>2. Sound(FinalizeStmt(k)) /\ FinalizeStmt(k).bound_size = Columns
      BY <2>5, FinalizeSound
    <3>3. /\ HandleOK(FinalizeStmt(k)) /\ FinalizeStmt(k).forward_only = hstmt.forward_only
          /\ Compatible => BoundOK(FinalizeStmt(k), TRUE)
      BY <3>2 DEF Sound, BoundOK
    <3> QED BY <1>0, <3>1, <3>3, ExecuteHeld
  <2> QED BY <2>6, <2>7
<1> QED BY <1>5, <1>6, <1>7, <1>8

\* Binding and attributes, a rollback, and another query of the connection.
LEMMA ConfigureActionsHeld ==
  ASSUME Given,
         \/ \E kind \in {"fixed", "variable"} : SQLBindCol(kind)
         \/ Unbind
         \/ \E n \in ArraySizes : SetArraySize(n)
         \/ \E fwd \in CursorTypes : SetCursorType(fwd)
         \/ \E b \in BOOLEAN : SetBindType(b) \/ SetRetrieveData(b)
         \/ SQLEndTranRollback \/ OtherQuery
  PROVE  CursorInv'
<1>0. /\ hstmt \in HandleSet /\ HandleOK(hstmt) /\ Pointed(hstmt)
      /\ hstmt.forward_only \in CursorTypes /\ (Compatible => BoundOK(hstmt, cursor))
  BY DEF Given, TypeInv, HandleOK, CursorInv, HeldInv, ScrollInv
<1>1. ASSUME NEW g, Stays(g, hstmt), g.res = hstmt.res, g.prepared = hstmt.prepared,
             g.forward_only \in CursorTypes, NEW c, Configure(c, g),
             \/ g.bound_size = hstmt.bound_size
             \/ c = "bind" /\ (hstmt.bound_size = 0 \/ g.bound_size = hstmt.bound_size)
             \/ c = "unbind" /\ g.bound_size = 0
      PROVE  CursorInv'
  <2>1. call = "idle" /\ c \in Calls /\ hstmt' = g /\ UNCHANGED <<cursor, call, ret, rowset>>
    BY <1>1 DEF Configure, Calling
  <2>2. Compatible => BoundOK(g, cursor)
    BY <1>0, <1>1, <2>1 DEF BoundOK, Compatible, Columns
  <2> QED BY <1>1, <2>1, <2>2, PlaceHeld
<1>2. ASSUME NEW kind \in {"fixed", "variable"}, SQLBindCol(kind) PROVE CursorInv'
  <2> DEFINE n == IF hstmt.bound_size = 0 THEN 1 ELSE hstmt.bound_size
             g == [hstmt EXCEPT !.cols = kind, !.bound_size = n]
  <2>1. hstmt.bound_size = 0 \/ n = hstmt.bound_size
    OBVIOUS
  <2>2. Configure("bind", g)
    BY <1>2 DEF SQLBindCol
  <2> HIDE DEF n
  <2>3. /\ Stays(g, hstmt) /\ g.res = hstmt.res /\ g.prepared = hstmt.prepared
        /\ g.forward_only = hstmt.forward_only /\ g.bound_size = n
    BY <1>0 DEF HandleSet, Stays
  <2> HIDE DEF g
  <2> QED BY <1>0, <1>1, <2>1, <2>2, <2>3
<1>3. ASSUME Unbind PROVE CursorInv'
  <2> DEFINE g == [hstmt EXCEPT !.cols = "none", !.bound_size = 0]
  <2>1. Configure("unbind", g)
    BY <1>3 DEF Unbind
  <2>2. /\ Stays(g, hstmt) /\ g.res = hstmt.res /\ g.prepared = hstmt.prepared
        /\ g.forward_only = hstmt.forward_only /\ g.bound_size = 0
    BY <1>0 DEF HandleSet, Stays
  <2> HIDE DEF g
  <2> QED BY <1>0, <1>1, <2>1, <2>2
<1>4. ASSUME NEW n \in ArraySizes, SetArraySize(n) PROVE CursorInv'
  <2> DEFINE g == [hstmt EXCEPT !.array_size = n]
  <2>1. Configure("array_size", g)
    BY <1>4 DEF SetArraySize
  <2>2. /\ Stays(g, hstmt) /\ g.res = hstmt.res /\ g.prepared = hstmt.prepared
        /\ g.forward_only = hstmt.forward_only /\ g.bound_size = hstmt.bound_size
    BY <1>0 DEF HandleSet, Stays
  <2> HIDE DEF g
  <2> QED BY <1>0, <1>1, <2>1, <2>2
<1>5. ASSUME NEW fwd \in CursorTypes, SetCursorType(fwd) PROVE CursorInv'
  <2> DEFINE g == [hstmt EXCEPT !.forward_only = fwd]
  <2>1. Configure("cursor_type", g)
    BY <1>5 DEF SetCursorType
  <2>2. /\ Stays(g, hstmt) /\ g.res = hstmt.res /\ g.prepared = hstmt.prepared
        /\ g.forward_only = fwd /\ g.bound_size = hstmt.bound_size
    BY <1>0 DEF HandleSet, Stays
  <2> HIDE DEF g
  <2> QED BY <1>0, <1>1, <1>5, <2>1, <2>2
<1>6. ASSUME NEW b \in BOOLEAN, SetBindType(b) PROVE CursorInv'
  <2> DEFINE f == hstmt.by_column /\ b
             g == [hstmt EXCEPT !.by_column = f]
  <2>1. Configure("bind_type", g)
    BY <1>6 DEF SetBindType
  <2> HIDE DEF f
  <2>2. /\ Stays(g, hstmt) /\ g.res = hstmt.res /\ g.prepared = hstmt.prepared
        /\ g.forward_only = hstmt.forward_only /\ g.bound_size = hstmt.bound_size
    BY <1>0 DEF HandleSet, Stays
  <2> HIDE DEF g
  <2> QED BY <1>0, <1>1, <2>1, <2>2
<1>7. ASSUME NEW b \in BOOLEAN, SetRetrieveData(b) PROVE CursorInv'
  <2> DEFINE g == [hstmt EXCEPT !.retrieve_data = b]
  <2>1. Configure("retrieve_data", g)
    BY <1>7 DEF SetRetrieveData
  <2>2. /\ Stays(g, hstmt) /\ g.res = hstmt.res /\ g.prepared = hstmt.prepared
        /\ g.forward_only = hstmt.forward_only /\ g.bound_size = hstmt.bound_size
    BY <1>0 DEF HandleSet, Stays
  <2> HIDE DEF g
  <2> QED BY <1>0, <1>1, <2>1, <2>2
<1>8. ASSUME SQLEndTranRollback \/ OtherQuery PROVE CursorInv'
  <2> DEFINE g == CloseStream(hstmt)
  <2>1. Alike(g, hstmt) /\ Stays(g, hstmt)
    BY <1>0, CloseStreamPointed
  <2>2. call = "idle" /\ hstmt' = g /\ UNCHANGED <<cursor, call, ret, rowset>>
    BY <1>8 DEF SQLEndTranRollback, OtherQuery, Configure, Calling
  <2> HIDE DEF g
  <2>3. Compatible => BoundOK(g, cursor)
    BY <1>0, <2>1 DEF BoundOK, Alike
  <2>4. g.forward_only \in CursorTypes /\ g.res.sizes = hstmt.res.sizes
    BY <1>0, <2>1 DEF Alike
  <2> QED BY <2>1, <2>2, <2>3, <2>4, PlaceHeld
<1> QED BY <1>2, <1>3, <1>4, <1>5, <1>6, <1>7, <1>8

\* SQLEndTran(SQL_COMMIT) saves the position.
LEMMA CommitHeld ==
  ASSUME Given, SQLEndTranCommit
  PROVE  CursorInv'
<1> DEFINE skip == ~hstmt.prepared \/ ~HasResult(hstmt) \/ HasError(hstmt)
           lo == [NoLoop EXCEPT !.chunk = hstmt.current_chunk,
                                !.idx = hstmt.current_chunk_idx,
                                !.row = hstmt.chunk_row,
                                !.prior = hstmt.prior_chunk_row]
<1>0. /\ HandleOK(hstmt) /\ Pointed(hstmt) /\ call = "idle" /\ "commit" \in Calls
      /\ hstmt.forward_only \in CursorTypes
  BY DEF Given, TypeInv, CursorInv, HeldInv, SQLEndTranCommit, Calling
<1>1. UNCHANGED <<hstmt, cursor, ret, rowset, delivered, parts>>
  BY DEF SQLEndTranCommit
<1>2. IF skip THEN UNCHANGED <<call, loop>> ELSE call' = "materialize" /\ loop' = lo
  BY DEF SQLEndTranCommit
<1>3. /\ lo.chunk = hstmt.current_chunk /\ lo.idx = hstmt.current_chunk_idx
      /\ lo.row = hstmt.chunk_row /\ lo.prior = hstmt.prior_chunk_row
  BY DEF NoLoop
<1> HIDE DEF lo, skip
<1>4. CASE skip
  BY <1>0, <1>1, <1>2, <1>4, PlaceHeld DEF Given, CursorInv, ScrollInv, Stays
<1>5. CASE ~skip
  <2>1. call' = "materialize" /\ loop' = lo
    BY <1>2, <1>5
  <2>2. hstmt.current_chunk # NoChunk =>
          /\ Readable(hstmt) /\ hstmt.chunks # << >>
          /\ hstmt.current_chunk_idx < Len(hstmt.chunks)
    BY <1>0 DEF Pointed
  <2>3. HeldInv'
    BY <1>0, <1>1, <1>3, <2>1, <2>2 DEF HeldInv, Saved, Pointed, Readable, Held
  <2>4. Compatible => ScrollInv'
    <3> SUFFICES ASSUME Compatible PROVE ScrollInv'
      OBVIOUS
    <3>1. ScrollInv
      BY DEF Given, CursorInv
    <3>2. RowInv'
      <4> SUFFICES ASSUME "getdata" \in Calls PROVE RowInv'
        BY DEF RowInv
      <4>1. OnRow(hstmt)
        BY <3>1 DEF ScrollInv, RowInv
      <4>2. loop'.chunk # NoChunk =>
              RowsIn(loop'.row, loop'.prior, hstmt.res.sizes[loop'.chunk])
        BY <1>3, <2>1, <2>2, <4>1 DEF OnRow, ChunkSize
      <4>3. cursor /\ Succeeded(ret) /\ rowset.chunk # NoChunk =>
              hstmt.chunks # << >> /\ hstmt.chunk_row >= 0
        BY <1>0, <3>1 DEF ScrollInv, RowInv
      <4>4. hstmt.chunks # << >> => hstmt.current_chunk # NoChunk
        BY <1>0, ChunkSizeOK DEF Pointed, NoChunk
      <4> QED BY <1>1, <1>3, <2>1, <4>1, <4>2, <4>3, <4>4 DEF RowInv, OnRow, ChunkSize, RowsIn
    <3> QED BY <1>1, <2>1, <3>1, <3>2 DEF ScrollInv, BoundOK, Fits
  <2> QED BY <2>3, <2>4 DEF CursorInv
<1> QED BY <1>4, <1>5

\* An iteration of Materialize loses no chunk; the last one returns to the position
\* saved.
LEMMA MaterializeHeld ==
  ASSUME Given, MaterializeStep
  PROVE  CursorInv'
<1>0. /\ HandleOK(hstmt) /\ hstmt.res.pos \in Nat /\ Pointed(hstmt) /\ call = "materialize"
      /\ Saved /\ ~hstmt.forward_only /\ hstmt.forward_only \in CursorTypes
  BY CursorTypesAssumption
     DEF Given, TypeInv, CursorInv, HeldInv, Saved, Holdable, MaterializeStep
<1>1. PICK fails \in BOOLEAN :
        LET o == FetchNext(hstmt, fails)
        IN IF Succeeded(o.ret)
             THEN hstmt' = o.h /\ UNCHANGED <<call, loop, tran>>
             ELSE /\ hstmt' = Restore(o.h)
                  /\ tran' = IF o.ret = "NO_DATA" THEN "SUCCESS" ELSE "ERROR"
                  /\ call' = "idle" /\ loop' = NoLoop
  BY DEF MaterializeStep
<1>2. UNCHANGED <<cursor, ret, rowset>>
  BY DEF MaterializeStep
<1> DEFINE o == FetchNext(hstmt, fails)
           k == o.h
<1>3. HandleOK(k) /\ Moved(o, hstmt) /\ Ready(o, hstmt)
  BY <1>0, FetchNextOK, FetchNextPointed, MovedReady
<1>4. IF Succeeded(o.ret)
        THEN hstmt' = k /\ UNCHANGED <<call, loop>>
        ELSE hstmt' = Restore(k) /\ call' = "idle" /\ loop' = NoLoop
  BY <1>1
<1>5. /\ Pointed(k) /\ Alike(k, hstmt) /\ Grown(k, hstmt) /\ (Fits(hstmt) => Fits(k))
      /\ (hstmt.chunks # << >> => k.chunks # << >>) /\ (OnRow(hstmt) => OnRow(k))
  BY <1>0, <1>3 DEF Moved, Ready
<1> HIDE DEF k, o
<1>6. loop.chunk # NoChunk => loop.chunk \in Held(k) /\ loop.idx < Len(k.chunks)
  <2> SUFFICES ASSUME loop.chunk # NoChunk
               PROVE  loop.chunk \in Held(k) /\ loop.idx < Len(k.chunks)
    OBVIOUS
  <2>1. loop.chunk \in Held(hstmt) /\ loop.idx < Len(hstmt.chunks)
    BY <1>0 DEF Saved
  <2>2. Len(hstmt.chunks) \in Nat /\ Len(k.chunks) \in Nat /\ loop.idx \in Nat
    BY SMTT(30), <1>0, <1>3, Fields DEF HandleOK, Given, TypeInv, TypeOK
  <2>3. PICK i \in 1..Len(hstmt.chunks) : loop.chunk = hstmt.chunks[i]
    BY <2>1 DEF Held
  <2>4. i \in 1..Len(k.chunks) /\ k.chunks[i] = loop.chunk
    BY <1>5, <2>2, <2>3 DEF Grown
  <2> QED BY <1>5, <2>1, <2>2, <2>4 DEF Grown, Held
<1>7. CASE Succeeded(o.ret)
  <2>1. hstmt' = k /\ UNCHANGED <<call, loop>>
    BY <1>4, <1>7
  <2>2. HeldInv'
    BY <1>0, <1>5, <1>6, <2>1 DEF HeldInv, Saved, Pointed, Readable, Held, Alike
  <2>3. Compatible => ScrollInv'
    <3> SUFFICES ASSUME Compatible PROVE ScrollInv'
      OBVIOUS
    <3>1. ScrollInv
      BY DEF Given, CursorInv
    <3>2. BoundOK(hstmt', cursor')
      BY <1>2, <1>5, <2>1, <3>1 DEF ScrollInv, BoundOK, Alike
    <3>3. RowInv'
      <4> SUFFICES ASSUME "getdata" \in Calls PROVE RowInv'
        BY DEF RowInv
      <4>1. OnRow(k) /\ k.res.sizes = hstmt.res.sizes
        BY <1>5, <3>1 DEF ScrollInv, RowInv, Alike
      <4>2. cursor /\ Succeeded(ret) /\ rowset.chunk # NoChunk =>
              k.chunks # << >> /\ loop.chunk # NoChunk /\ loop.row >= 0
        BY <1>0, <1>5, <3>1 DEF ScrollInv, RowInv
      <4>3. loop.chunk # NoChunk => RowsIn(loop.row, loop.prior, hstmt.res.sizes[loop.chunk])
        BY <1>0, <3>1 DEF ScrollInv, RowInv
      <4> QED BY <1>0, <1>2, <2>1, <4>1, <4>2, <4>3 DEF RowInv, OnRow, ChunkSize, RowsIn
    <3> QED BY <1>0, <1>2, <1>5, <2>1, <3>1, <3>2, <3>3 DEF ScrollInv, BoundOK, Fits
  <2> QED BY <2>2, <2>3 DEF CursorInv
<1>8. CASE ~Succeeded(o.ret)
  <2> DEFINE g == Restore(k)
  <2>1. hstmt' = g /\ call' = "idle" /\ loop' = NoLoop
    BY <1>4, <1>8
  <2>2. /\ Pointed(g) /\ Alike(g, k) /\ Fits(g) /\ g.chunks = k.chunks
        /\ loop.chunk # NoChunk => /\ g.current_chunk = loop.chunk
                                   /\ g.chunk_row = loop.row
                                   /\ g.prior_chunk_row = loop.prior
        /\ loop.chunk = NoChunk => OnRow(g)
    <3>1. CASE loop.chunk = NoChunk
      <4>1. g = BeforeStart(k).h
        BY <3>1 DEF Restore
      <4> QED BY <1>3, <1>5, <3>1, <4>1, BeforeStartPointed
    <3>2. CASE loop.chunk # NoChunk
      <4> DEFINE s == [k EXCEPT !.current_chunk = loop.chunk, !.current_chunk_idx = loop.idx,
                                !.chunk_row = loop.row, !.prior_chunk_row = loop.prior]
      <4>1. g = s
        BY <3>2 DEF Restore
      <4>2. /\ s.chunks = k.chunks /\ s.res = k.res /\ s.forward_only = k.forward_only
            /\ s.bound_size = k.bound_size /\ s.prepared = k.prepared
            /\ s.array_size = k.array_size /\ s.current_chunk = loop.chunk
            /\ s.current_chunk_idx = loop.idx /\ s.chunk_row = loop.row
            /\ s.prior_chunk_row = loop.prior
        BY <1>3 DEF HandleOK, HandleSet
      <4> HIDE DEF s
      <4>3. Len(k.chunks) \in Nat /\ loop.idx \in Nat /\ k.chunks \in Seq(Nat \ {0})
        BY <1>3, Fields DEF HandleOK, Given, TypeInv, TypeOK
      <4>4. k.chunks # << >>
        BY <1>6, <3>2, <4>3
      <4>5. Pointed(s) /\ Fits(s) /\ Alike(s, k)
        BY <1>6, <3>2, <4>2, <4>3, <4>4 DEF Pointed, Readable, Held, Fits, Alike
      <4> QED BY <3>2, <4>1, <4>2, <4>5
    <3> QED BY <3>1, <3>2
  <2> HIDE DEF g
  <2>3. HeldInv'
    BY <1>0, <1>5, <2>1, <2>2 DEF HeldInv, Saved, Pointed, Readable, Held, Alike
  <2>4. Compatible => ScrollInv'
    <3> SUFFICES ASSUME Compatible PROVE ScrollInv'
      OBVIOUS
    <3>1. ScrollInv
      BY DEF Given, CursorInv
    <3>2. BoundOK(hstmt', cursor')
      BY <1>2, <1>5, <2>1, <2>2, <3>1 DEF ScrollInv, BoundOK, Alike
    <3>3. RowInv'
      <4> SUFFICES ASSUME "getdata" \in Calls PROVE RowInv'
        BY DEF RowInv
      <4>1. g.res.sizes = hstmt.res.sizes
        BY <1>5, <2>2 DEF Alike
      <4>2. loop.chunk # NoChunk => RowsIn(loop.row, loop.prior, hstmt.res.sizes[loop.chunk])
        BY <1>0, <3>1 DEF ScrollInv, RowInv
      <4>3. OnRow(g)
        BY <2>2, <4>1, <4>2 DEF OnRow, ChunkSize
      <4>4. cursor /\ Succeeded(ret) /\ rowset.chunk # NoChunk =>
              g.chunks # << >> /\ g.chunk_row >= 0
        BY <1>0, <1>5, <2>2, <3>1 DEF ScrollInv, RowInv
      <4> QED BY <1>2, <2>1, <4>3, <4>4 DEF RowInv, OnRow, ChunkSize, RowsIn
    <3> QED BY <1>2, <1>5, <2>1, <2>2, <3>1, <3>2, <3>3 DEF ScrollInv, BoundOK, Fits
  <2> QED BY <2>3, <2>4 DEF CursorInv
<1> QED BY <1>7, <1>8
----------------------------------------------------------------------------
(***************************************************************************)
(* The invariants.                                                         *)
(***************************************************************************)
\* A new handle holds no chunk.
LEMMA HeldInit ==
  Init => CursorInv
<1> SUFFICES ASSUME Init PROVE CursorInv
  OBVIOUS
<1>1. PICK fwd \in CursorTypes : hstmt = [NewHandle EXCEPT !.forward_only = fwd]
  BY DEF Init
<1>2. /\ Blank(hstmt) /\ hstmt.forward_only = fwd /\ hstmt.bound_size = 0
      /\ hstmt.prepared = FALSE
  BY <1>1 DEF NewHandle, Blank
<1>3. call = "idle" /\ cursor = FALSE
  BY DEF Init
<1>4. HeldInv
  BY <1>2, <1>3, BlankPointed DEF HeldInv, Saved
<1>5. ScrollInv
  BY <1>2, <1>3, BlankPointed DEF ScrollInv, BoundOK, RowInv
<1> QED BY <1>4, <1>5 DEF CursorInv

\* Every step keeps the cursor invariant.
LEMMA HeldNext ==
  ASSUME Holdable, TypeInv, CursorInv, [Next]_vars
  PROVE  CursorInv'
<1>0. Given
  BY DEF Given
<1>1. CASE UNCHANGED vars
  <2>1. UNCHANGED <<hstmt, cursor, call, loop, ret, rowset>>
    BY <1>1 DEF vars
  <2>2. HeldInv'
    BY <2>1 DEF CursorInv, HeldInv, Saved, Pointed, Readable, Held
  <2>3. Compatible => ScrollInv'
    BY <2>1 DEF CursorInv, ScrollInv, BoundOK, Fits, RowInv, OnRow, RowsIn, ChunkSize
  <2> QED BY <2>2, <2>3 DEF CursorInv
<1>2. ASSUME \/ SQLPrepare \/ CloseStmt
             \/ \E sizes \in Results : SQLExecute(sizes) \/ SQLExecDirect(sizes)
      PROVE  CursorInv'
  BY <1>0, <1>2, RestartActionsHeld
<1>3. ASSUME SQLFetch \/ SQLFetchNext \/ SQLFetchPrior \/ SQLFetchFirst PROVE CursorInv'
  BY <1>0, <1>3, FetchesHeld
<1>4. ASSUME NEW offset \in Offsets, SQLFetchAbsolute(offset) PROVE CursorInv'
  BY <1>0, <1>4, SQLFetchAbsoluteHeld
<1>5. ASSUME AbsoluteStep PROVE CursorInv'
  BY <1>0, <1>5, AbsoluteStepHeld
<1>6. ASSUME NEW col \in {2, 3}, NEW buf \in BufLens, SQLGetData(col, buf) PROVE CursorInv'
  BY <1>0, <1>6, SQLGetDataHeld
<1>7. ASSUME \/ \E kind \in {"fixed", "variable"} : SQLBindCol(kind)
             \/ Unbind
             \/ \E n \in ArraySizes : SetArraySize(n)
             \/ \E fwd \in CursorTypes : SetCursorType(fwd)
             \/ \E b \in BOOLEAN : SetBindType(b) \/ SetRetrieveData(b)
             \/ SQLEndTranRollback \/ OtherQuery
      PROVE  CursorInv'
  BY <1>0, <1>7, ConfigureActionsHeld
<1>8. ASSUME SQLEndTranCommit PROVE CursorInv'
  BY <1>0, <1>8, CommitHeld
<1>9. ASSUME MaterializeStep PROVE CursorInv'
  BY <1>0, <1>9, MaterializeHeld
<1> QED BY <1>1, <1>2, <1>3, <1>4, <1>5, <1>6, <1>7, <1>8, <1>9 DEF Next

\* The inductive invariant of the cursor: the pointer and the index of the current
\* chunk stay within the vector of chunks, and so does the position Materialize has
\* saved, whatever is fetched, scrolled to, committed or rolled back; with calls
\* that can be mixed, the rows and bound_cols stay within the chunk and the row.
THEOREM CursorInvariance ==
  ASSUME Holdable
  PROVE  Spec => []CursorInv
<1>1. TypeInv /\ CursorInv /\ [Next]_vars => CursorInv'
  BY HeldNext
<1> QED BY <1>1, HeldInit, TypeInvariance, PTL DEF Spec

\* Between calls current_chunk is null or points to a chunk the fetcher holds:
\* FetchNext, which reallocates or replaces the vector of chunks, SQLFetchScroll in
\* any direction, Materialize and changes of cursor type leave no stale pointer,
\* for every result, row array size, offset and order of all calls.
THEOREM ChunkHeld ==
  ASSUME Holdable
  PROVE  Spec => []CurrentChunkHeld
<1>1. TypeInv /\ CursorInv => CurrentChunkHeld
  <2>1. CursorInv => (hstmt.current_chunk # NoChunk => Readable(hstmt))
    BY DEF CursorInv, HeldInv, Pointed
  <2> QED BY <2>1 DEF CurrentChunkHeld
<1> QED BY <1>1, CursorInvariance, TypeInvariance, PTL

\* No fetch in any direction, no SQLGetData, no level of the recursion of
\* SetAbsoluteCurrentChunk and no step back over a chunk boundary reads outside the
\* chunks and columns the handle holds, for every result, row array size and cursor
\* type and every order of calls that can be mixed.
THEOREM ScrollNeverUndefined ==
  ASSUME Compatible
  PROVE  Spec => []NeverUndefined
<1>1. Holdable
  BY DEF Compatible
<1>2. CursorInv => NeverUndefined
  BY DEF CursorInv, ScrollInv, NeverUndefined
<1> QED BY <1>1, <1>2, CursorInvariance, PTL

----------------------------------------------------------------------------
(***************************************************************************)
(* The refinement of ScrollCursor.                                         *)
(***************************************************************************)
\* What ScrollCursor is about: results of one chunk read a row at a time, without a
\* variable-length column bound (which an earlier call may have begun to read), and no
\* absolute offset just behind the last row, which is taken for the start once the end
\* has been seen.
OneRowScroll ==
  /\ \A sizes \in Results : Len(sizes) = 1
  /\ CursorTypes \subseteq {FALSE} /\ ArraySizes \subseteq {1}
  /\ "bind" \notin Calls
  /\ "fetch" \in Calls => "retrieve_data" \notin Calls
  /\ \A k \in Offsets : k > 0 /\ \A sizes \in Results : k # sizes[1] + 1

\* The row and the row before of a position in n rows: at the start, on a row, or
\* behind the last one.
Placed(row, prior, n) ==
  \/ row = -1 /\ prior <= -1
  \/ row \in 0 .. n - 1 /\ prior = row - 1
  \/ row = n - 1 /\ prior = row

\* The attributes of a handle that no call changes.
Scrollable(h) ==
  /\ ~h.forward_only /\ h.array_size = 1 /\ h.cols # "variable"
  /\ "fetch" \in Calls => h.retrieve_data

\* The handle holds the one chunk of its result.
OneChunkHeld(h) ==
  /\ h.chunks = << 1 >> /\ h.current_chunk = 1 /\ h.current_chunk_idx = 0
  /\ h.res.sizes \in Results /\ h.res.pos = 1 /\ ~h.res.error

\* Where the cursor is; during Materialize it is what that has saved.
PlaceInv ==
  /\ Scrollable(hstmt)
  /\ cursor /\ hstmt.open =>
       /\ OneChunkHeld(hstmt)
       /\ IF call = "materialize"
            THEN /\ loop.chunk = 1 /\ loop.idx = 0
                 /\ Placed(loop.row, loop.prior, hstmt.res.sizes[1])
            ELSE Placed(hstmt.chunk_row, hstmt.prior_chunk_row, hstmt.res.sizes[1])
  /\ call = "absolute" => cursor /\ hstmt.open /\ loop.offset + 1 \in Offsets

\* The variables of ScrollCursor.
RowsBar == IF cursor /\ hstmt.open THEN hstmt.res.sizes[1] ELSE -1
PosBar  == IF cursor THEN ScrollPos ELSE 0
RowBar  == IF HasRows(rowset) THEN rowset.first + 1 ELSE 0
----------------------------------------------------------------------------
\* g has the attributes of h, and no result is open that was not.
Kept(g, h) ==
  /\ g.forward_only = h.forward_only /\ g.array_size = h.array_size
  /\ g.cols = h.cols /\ g.retrieve_data = h.retrieve_data
  /\ g.open => h.open

\* g is h at another place of its one chunk.
OneAt(g, h, row, prior) ==
  /\ OneChunkHeld(g) /\ g.res.sizes = h.res.sizes /\ g.open = h.open
  /\ g.chunk_row = row /\ g.prior_chunk_row = prior

\* A handle that keeps its attributes stays scrollable.
LEMMA KeptScrollable ==
  ASSUME NEW g, NEW h, Kept(g, h), Scrollable(h)
  PROVE  Scrollable(g)
BY DEF Kept, Scrollable

\* What is kept twice is kept.
LEMMA KeptTwice ==
  ASSUME NEW g, NEW h, NEW k, Kept(g, h), Kept(k, g)
  PROVE  Kept(k, h)
BY DEF Kept

\* Moving to a row changes no attribute.
LEMMA AtRowKept ==
  ASSUME NEW h \in HandleSet, NEW r, NEW q
  PROVE  /\ Kept(AtRow(h, r, q), h)
         /\ OneChunkHeld(h) => OneAt(AtRow(h, r, q), h, r, q)
<1> DEFINE g == AtRow(h, r, q)
<1>1. /\ g.forward_only = h.forward_only /\ g.array_size = h.array_size
      /\ g.cols = h.cols /\ g.retrieve_data = h.retrieve_data /\ g.open = h.open
  BY DEF HandleSet, AtRow
<1>2. /\ g.chunks = h.chunks /\ g.current_chunk = h.current_chunk /\ g.res = h.res
      /\ g.current_chunk_idx = h.current_chunk_idx /\ g.chunk_row = r /\ g.prior_chunk_row = q
  BY DEF HandleSet, AtRow
<1> HIDE DEF g
<1>3. Kept(g, h) /\ (OneChunkHeld(h) => OneAt(g, h, r, q))
  BY <1>1, <1>2 DEF Kept, OneAt, OneChunkHeld
<1> QED BY <1>3 DEF g

\* Going to a chunk changes no attribute.
LEMMA SetCurrentChunkKept ==
  ASSUME NEW h, HandleOK(h)
  PROVE  Kept(SetCurrentChunk(h).h, h)
<1>1. CASE h.chunks = << >>
  BY <1>1 DEF SetCurrentChunk, Outcome, Kept
<1>2. CASE h.chunks # << >>
  <2> DEFINE last == Len(h.chunks) - 1
             idx  == IF ~h.forward_only /\ h.current_chunk_idx < last
                       THEN h.current_chunk_idx + 1 ELSE last
             c == h.chunks[idx + 1]
             g == [h EXCEPT !.current_chunk_idx = idx, !.current_chunk = c,
                            !.chunk_row = -1, !.prior_chunk_row = -1]
  <2>1. SetCurrentChunk(h).h = g
    BY <1>2 DEF SetCurrentChunk, Outcome
  <2> HIDE DEF idx, c
  <2>2. Kept(g, h)
    BY DEF HandleOK, HandleSet, Kept
  <2> QED BY <2>1, <2>2
<1> QED BY <1>1, <1>2

\* Holding one more chunk changes no attribute.
LEMMA KeepChunkKept ==
  ASSUME NEW h, HandleOK(h)
  PROVE  Kept(KeepChunk(h), h)
<1> DEFINE c == h.res.pos + 1
           cs == IF h.forward_only THEN << c >> ELSE Append(h.chunks, c)
           rs == [h.res EXCEPT !.pos = c]
           g == [h EXCEPT !.chunks = cs, !.res = rs]
<1>1. KeepChunk(h) = g
  BY DEF KeepChunk
<1> HIDE DEF cs, rs
<1>2. Kept(g, h)
  BY DEF HandleOK, HandleSet, Kept
<1> QED BY <1>1, <1>2

\* Fetching a chunk changes no attribute.
LEMMA FetchNextKept ==
  ASSUME NEW h, HandleOK(h), h.res.pos \in Nat, NEW fails \in BOOLEAN
  PROVE  Kept(FetchNext(h, fails).h, h)
<1> DEFINE g == ResetLastFetchedVariableVal(h)
           er == [g.res EXCEPT !.error = TRUE]
           e == [g EXCEPT !.open = FALSE, !.res = er]
           n == [g EXCEPT !.resultset_end = TRUE]
<1>1. HandleOK(g) /\ g.res = h.res
  BY ResetOK
<1>2. Kept(g, h)
  BY DEF HandleOK, HandleSet, Kept, ResetLastFetchedVariableVal
<1>3. CASE h.resultset_end
  BY <1>3, SetCurrentChunkKept DEF FetchNext
<1>4. CASE ~h.resultset_end /\ (fails \/ h.res.closed)
  <2>1. FetchNext(h, fails).h = e
    BY <1>4 DEF FetchNext, Outcome
  <2> HIDE DEF g, er
  <2>2. Kept(e, g)
    BY <1>1 DEF HandleOK, HandleSet, Kept
  <2> QED BY <1>2, <2>1, <2>2, KeptTwice
<1>5. CASE ~h.resultset_end /\ ~(fails \/ h.res.closed) /\ h.res.pos = Len(h.res.sizes)
  <2>1. FetchNext(h, fails).h = n
    BY <1>5 DEF FetchNext, Outcome
  <2> HIDE DEF g
  <2>2. Kept(n, g)
    BY <1>1 DEF HandleOK, HandleSet, Kept
  <2> QED BY <1>2, <2>1, <2>2, KeptTwice
<1>6. CASE ~h.resultset_end /\ ~(fails \/ h.res.closed) /\ h.res.pos # Len(h.res.sizes)
  <2> DEFINE k == KeepChunk(g)
  <2>1. FetchNext(h, fails).h = SetCurrentChunk(k).h
    BY <1>6 DEF FetchNext
  <2> HIDE DEF g
  <2>2. HandleOK(k) /\ Kept(k, g)
    BY <1>1, <1>6, KeepChunkOK, KeepChunkKept
  <2> HIDE DEF k
  <2>3. Kept(SetCurrentChunk(k).h, k)
    BY <2>2, SetCurrentChunkKept
  <2>4. Kept(k, h)
    BY <1>2, <2>2, KeptTwice
  <2> QED BY <2>1, <2>3, <2>4, KeptTwice
<1> QED BY <1>3, <1>4, <1>5, <1>6

\* BeforeStart changes no attribute, and stays in the one chunk.
LEMMA BeforeStartKept ==
  ASSUME NEW h, HandleOK(h)
  PROVE  /\ Kept(BeforeStart(h).h, h)
         /\ OneChunkHeld(h) => OneAt(BeforeStart(h).h, h, -1, -1)
<1> DEFINE c == IF h.chunks = << >> THEN h.current_chunk ELSE h.chunks[1]
           g == [h EXCEPT !.current_chunk = c, !.current_chunk_idx = 0,
                          !.chunk_row = -1, !.prior_chunk_row = -1]
<1>1. BeforeStart(h).h = g
  BY DEF BeforeStart, Outcome
<1>2. OneChunkHeld(h) => c = 1
  BY DEF OneChunkHeld
<1> HIDE DEF c
<1>3. Kept(g, h)
  BY DEF HandleOK, HandleSet, Kept
<1>4. /\ g.chunks = h.chunks /\ g.current_chunk = c /\ g.res = h.res /\ g.open = h.open
      /\ g.current_chunk_idx = 0 /\ g.chunk_row = -1 /\ g.prior_chunk_row = -1
  BY DEF HandleOK, HandleSet
<1> HIDE DEF g
<1>5. OneChunkHeld(h) => OneAt(g, h, -1, -1)
  BY <1>2, <1>4 DEF OneAt, OneChunkHeld
<1> QED BY <1>1, <1>3, <1>5

\* Asking for a chunk after the only one: once the end was seen the cursor goes back to
\* the start of the chunk, otherwise it stays, or fails and is closed.
LEMMA FetchNextOne ==
  ASSUME OneRowScroll, NEW h, HandleOK(h), OneChunkHeld(h), NEW fails \in BOOLEAN
  PROVE  LET o == FetchNext(h, fails)
         IN IF h.resultset_end
              THEN o.ret = "SUCCESS" /\ OneAt(o.h, h, -1, -1)
              ELSE \/ o.ret = "ERROR" /\ ~o.h.open
                   \/ o.ret = "NO_DATA" /\ OneAt(o.h, h, h.chunk_row, h.prior_chunk_row)
<1> DEFINE g == ResetLastFetchedVariableVal(h)
           er == [g.res EXCEPT !.error = TRUE]
           e == [g EXCEPT !.open = FALSE, !.res = er]
           n == [g EXCEPT !.resultset_end = TRUE]
<1>0. h \in HandleSet /\ HandleOK(g) /\ g \in HandleSet
  BY ResetOK DEF HandleOK
<1>1. CASE h.resultset_end
  <2> DEFINE k == [h EXCEPT !.current_chunk_idx = 0, !.current_chunk = 1,
                            !.chunk_row = -1, !.prior_chunk_row = -1]
  <2>0. h.chunks = << 1 >> /\ h.current_chunk_idx = 0
    BY DEF OneChunkHeld
  <2>1. SetCurrentChunk(h) = Outcome(k, "SUCCESS")
    <3> DEFINE last == Len(h.chunks) - 1
               idx  == IF ~h.forward_only /\ h.current_chunk_idx < last
                         THEN h.current_chunk_idx + 1 ELSE last
    <3>1. h.chunks # << >> /\ idx = 0
      BY <2>0
    <3>2. h.chunks[idx + 1] = 1
      BY <2>0, <3>1
    <3>3. SetCurrentChunk(h) =
            Outcome([h EXCEPT !.current_chunk_idx = idx, !.current_chunk = h.chunks[idx + 1],
                              !.chunk_row = -1, !.prior_chunk_row = -1], "SUCCESS")
      BY <3>1 DEF SetCurrentChunk
    <3> HIDE DEF idx
    <3> QED BY <3>1, <3>2, <3>3
  <2>2. /\ k.chunks = h.chunks /\ k.current_chunk = 1 /\ k.res = h.res /\ k.open = h.open
        /\ k.current_chunk_idx = 0 /\ k.chunk_row = -1 /\ k.prior_chunk_row = -1
    BY <1>0 DEF HandleSet
  <2> HIDE DEF k
  <2>3. OneAt(k, h, -1, -1)
    BY <2>2 DEF OneAt, OneChunkHeld
  <2> QED BY <1>1, <2>1, <2>3 DEF FetchNext, Outcome
<1>2. CASE ~h.resultset_end /\ (fails \/ h.res.closed)
  <2>1. FetchNext(h, fails) = Outcome(e, "ERROR")
    BY <1>2 DEF FetchNext
  <2> HIDE DEF g, er
  <2>2. ~e.open
    BY <1>0 DEF HandleSet
  <2> HIDE DEF e
  <2> QED BY <1>2, <2>1, <2>2 DEF Outcome
<1>3. CASE ~h.resultset_end /\ ~(fails \/ h.res.closed)
  <2>1. h.res.pos = Len(h.res.sizes)
    BY DEF OneChunkHeld, OneRowScroll
  <2>2. FetchNext(h, fails) = Outcome(n, "NO_DATA")
    BY <1>3, <2>1 DEF FetchNext
  <2>3. /\ g.chunks = h.chunks /\ g.current_chunk = h.current_chunk /\ g.res = h.res
        /\ g.open = h.open /\ g.current_chunk_idx = h.current_chunk_idx
        /\ g.chunk_row = h.chunk_row /\ g.prior_chunk_row = h.prior_chunk_row
    BY <1>0 DEF HandleSet, ResetLastFetchedVariableVal
  <2> HIDE DEF g
  <2>4. /\ n.chunks = g.chunks /\ n.current_chunk = g.current_chunk /\ n.res = g.res
        /\ n.open = g.open /\ n.current_chunk_idx = g.current_chunk_idx
        /\ n.chunk_row = g.chunk_row /\ n.prior_chunk_row = g.prior_chunk_row
    BY <1>0 DEF HandleSet
  <2> HIDE DEF n
  <2>5. OneAt(n, h, h.chunk_row, h.prior_chunk_row)
    BY <2>3, <2>4 DEF OneAt, OneChunkHeld
  <2> QED BY <1>3, <2>2, <2>5 DEF Outcome
<1> QED BY <1>1, <1>2, <1>3

\* The one chunk has rows, and is the current one.
LEMMA OneSize ==
  ASSUME OneRowScroll, NEW h, HandleOK(h), OneChunkHeld(h)
  PROVE  /\ h.res.sizes[1] \in Nat \ {0} /\ ChunkSize(h) = h.res.sizes[1]
         /\ Readable(h) /\ LastChunk(h) = 1 /\ h.chunks # << >> /\ Len(h.chunks) = 1
<1>1. h.chunks = << 1 >> /\ h.current_chunk = 1
  BY DEF OneChunkHeld
<1>2. Len(h.chunks) = 1 /\ h.chunks # << >> /\ h.chunks[1] = 1
  BY <1>1
<1>3. h.res.sizes \in Seq(Nat \ {0}) /\ Len(h.res.sizes) = 1
  BY ResultsAssumption DEF OneChunkHeld, OneRowScroll
<1>4. h.res.sizes[1] \in Nat \ {0}
  BY <1>3
<1>5. Readable(h)
  BY <1>1, <1>2 DEF Readable, Held
<1> QED BY <1>1, <1>2, <1>4, <1>5 DEF ChunkSize, LastChunk

\* At the same place twice.
LEMMA OneAtTwice ==
  ASSUME NEW g, NEW h, NEW k, NEW r, NEW q, NEW row, NEW prior,
         OneAt(g, h, r, q), OneAt(k, g, row, prior)
  PROVE  OneAt(k, h, row, prior)
BY DEF OneAt

\* SQL_FETCH_NEXT, up to the transfer: on to the next row, or at the end.
LEMMA NextOne ==
  ASSUME OneRowScroll, NEW h, HandleOK(h), OneChunkHeld(h), NEW fails \in BOOLEAN,
         h.chunk_row <= h.res.sizes[1] - 1
  PROVE  LET o == NextChunk(h, fails)
         IN /\ Kept(o.h, h)
            /\ IF h.chunk_row < h.res.sizes[1] - 1
                 THEN o.ret = "SUCCESS" /\ OneAt(o.h, h, h.chunk_row, h.chunk_row)
                 ELSE \/ o.ret = "ERROR" /\ ~o.h.open
                      \/ o.ret = "NO_DATA" /\ OneAt(o.h, h, h.chunk_row, h.chunk_row)
<1> DEFINE g == AtRow(h, h.chunk_row, h.chunk_row)
           f == FetchNext(g, fails)
           o == NextChunk(h, fails)
<1>0. h \in HandleSet /\ h.chunk_row \in Int /\ h.res.pos \in Nat
  BY Fields DEF HandleOK, OneChunkHeld
<1>1. [h EXCEPT !.prior_chunk_row = h.chunk_row] = g
  BY <1>0 DEF AtRow, HandleSet
<1>2. HandleOK(g) /\ g.res = h.res
  BY <1>0, AtRowOK
<1>3. Kept(g, h) /\ OneAt(g, h, h.chunk_row, h.chunk_row)
  BY <1>0, AtRowKept
<1>4. o = IF ~RequireFetch(g) THEN Outcome(g, "SUCCESS")
          ELSE IF g.resultset_end /\ g.current_chunk_idx = Len(g.chunks) - 1
            THEN Outcome(g, "NO_DATA")
          ELSE f
  BY <1>1 DEF NextChunk
<1> HIDE DEF g, o
<1>5. /\ OneChunkHeld(g) /\ g.res.sizes = h.res.sizes /\ g.chunk_row = h.chunk_row
      /\ g.prior_chunk_row = h.chunk_row /\ g.open = h.open
  BY <1>3 DEF OneAt
<1>6. /\ h.res.sizes[1] \in Nat \ {0} /\ LastChunk(g) = 1
      /\ g.chunks # << >> /\ Len(g.chunks) = 1 /\ g.current_chunk_idx = 0
  BY <1>2, <1>5, OneSize DEF OneChunkHeld
<1>7. RequireFetch(g) <=> ~(h.chunk_row < h.res.sizes[1] - 1)
  BY <1>0, <1>5, <1>6 DEF RequireFetch
<1>8. CASE ~RequireFetch(g)
  <2>1. o.h = g /\ o.ret = "SUCCESS"
    BY <1>4, <1>8 DEF Outcome
  <2> QED BY <1>3, <1>7, <1>8, <2>1 DEF o
<1>9. CASE RequireFetch(g) /\ g.resultset_end
  <2>1. o.h = g /\ o.ret = "NO_DATA"
    BY <1>4, <1>6, <1>9 DEF Outcome
  <2> QED BY <1>3, <1>7, <1>9, <2>1 DEF o
<1>10. CASE RequireFetch(g) /\ ~g.resultset_end
  <2>1. o = f
    BY <1>4, <1>10
  <2>2. Kept(f.h, g)
    BY <1>0, <1>2, FetchNextKept
  <2>3. \/ f.ret = "ERROR" /\ ~f.h.open
        \/ f.ret = "NO_DATA" /\ OneAt(f.h, g, g.chunk_row, g.prior_chunk_row)
    BY <1>2, <1>5, <1>10, FetchNextOne
  <2> HIDE DEF f
  <2>4. Kept(f.h, h)
    BY <1>3, <2>2, KeptTwice
  <2>5. \/ f.ret = "ERROR" /\ ~f.h.open
        \/ f.ret = "NO_DATA" /\ OneAt(f.h, h, h.chunk_row, h.chunk_row)
    BY <1>5, <2>3 DEF OneAt
  <2> QED BY <1>7, <1>10, <2>1, <2>4, <2>5 DEF o
<1> QED BY <1>8, <1>9, <1>10

\* SQL_FETCH_PRIOR, up to the transfer: back by one row, or before the first.
LEMMA PriorOne ==
  ASSUME NEW h, HandleOK(h), OneChunkHeld(h), h.array_size = 1
  PROVE  LET o == SetPriorCurrentChunk(h)
             q == h.prior_chunk_row - 1
         IN /\ Kept(o.h, h)
            /\ IF q < -1 THEN o.ret = "NO_DATA" /\ OneAt(o.h, h, -1, q)
                         ELSE o.ret = "SUCCESS" /\ OneAt(o.h, h, q, q)
<1> DEFINE q == h.prior_chunk_row - 1
           o == SetPriorCurrentChunk(h)
<1>0. h \in HandleSet /\ h.prior_chunk_row \in Int /\ h.current_chunk_idx = 0
  BY Fields DEF HandleOK, OneChunkHeld
<1>1. CASE q < -1
  <2>1. o = Outcome(AtRow(h, -1, q), "NO_DATA")
    BY <1>0, <1>1 DEF SetPriorCurrentChunk, AtRow, HandleSet
  <2>2. Kept(AtRow(h, -1, q), h) /\ OneAt(AtRow(h, -1, q), h, -1, q)
    <3> HIDE DEF q
    <3> QED BY <1>0, AtRowKept
  <2> QED BY <1>1, <2>1, <2>2 DEF Outcome
<1>2. CASE ~(q < -1)
  <2>1. o = Outcome(AtRow(h, q, q), "SUCCESS")
    BY <1>2 DEF SetPriorCurrentChunk, AtRow
  <2>2. Kept(AtRow(h, q, q), h) /\ OneAt(AtRow(h, q, q), h, q, q)
    <3> HIDE DEF q
    <3> QED BY <1>0, AtRowKept
  <2> QED BY <1>2, <2>1, <2>2 DEF Outcome
<1> QED BY <1>1, <1>2

\* SQL_FETCH_FIRST, up to the transfer: before the first row.
LEMMA FirstOne ==
  ASSUME NEW h, HandleOK(h), OneChunkHeld(h), NEW fails \in BOOLEAN
  PROVE  LET o == SetFirstCurrentChunk(h, fails)
         IN o.ret = "SUCCESS" /\ Kept(o.h, h) /\ OneAt(o.h, h, -1, -1)
<1> DEFINE g == BeforeStart(h).h
           o == SetFirstCurrentChunk(h, fails)
<1>1. Kept(g, h) /\ OneAt(g, h, -1, -1)
  BY BeforeStartKept
<1>2. o = IF g.current_chunk = NoChunk THEN FetchNext(g, fails) ELSE Outcome(g, "SUCCESS")
  BY DEF SetFirstCurrentChunk
<1> HIDE DEF g, o
<1>3. g.current_chunk # NoChunk
  BY <1>1 DEF OneAt, OneChunkHeld, NoChunk
<1>4. o.h = g /\ o.ret = "SUCCESS"
  BY <1>2, <1>3 DEF Outcome
<1> QED BY <1>1, <1>4 DEF o

\* SQL_FETCH_ABSOLUTE with an offset of offset + 1, up to the transfer: the start, a
\* row, or, past the end, where it was.
LEMMA AbsoluteOne ==
  ASSUME OneRowScroll, NEW h, HandleOK(h), OneChunkHeld(h), NEW fails \in BOOLEAN,
         NEW offset \in Int, offset + 1 \in Offsets
  PROVE  LET o == SetAbsoluteCurrentChunk(h, offset, fails)
             n == h.res.sizes[1]
         IN /\ Kept(o.h, h) /\ offset >= 0 /\ offset # n
            /\ offset = 0 => o.ret = "BEFORE_START" /\ OneAt(o.h, h, -1, -1)
            /\ offset > 0 /\ offset < n =>
                 o.ret = "SUCCESS" /\ OneAt(o.h, h, offset - 1, offset - 1)
            /\ offset > n =>
                 \/ o.ret = "ERROR" /\ ~o.h.open
                 \/ o.ret = "NO_DATA" /\ OneAt(o.h, h, h.chunk_row, h.prior_chunk_row)
<1> DEFINE n == h.res.sizes[1]
           o == SetAbsoluteCurrentChunk(h, offset, fails)
           f == FetchNext(h, fails)
           To(g, code) == [h |-> g, ret |-> code, offset |-> offset]
<1>0. /\ h \in HandleSet /\ h.chunk_row \in Int /\ h.prior_chunk_row \in Int
      /\ h.res.pos \in Nat /\ h.current_chunk_idx = 0
  BY Fields DEF HandleOK, OneChunkHeld
<1>1. n \in Nat \ {0} /\ ChunkSize(h) = n
  BY OneSize
<1>2. offset >= 0 /\ offset # n
  <2>1. offset + 1 > 0 /\ offset + 1 # n + 1
    BY DEF OneRowScroll, OneChunkHeld
  <2> QED BY <1>1, <2>1
<1> HIDE DEF n
<1>3. CASE offset = 0
  <2>1. o.h = BeforeStart(h).h /\ o.ret = "BEFORE_START"
    BY <1>1, <1>3 DEF SetAbsoluteCurrentChunk
  <2>2. Kept(o.h, h) /\ OneAt(o.h, h, -1, -1)
    BY <2>1, BeforeStartKept
  <2> HIDE DEF o
  <2> QED BY <1>1, <1>2, <1>3, <2>1, <2>2 DEF o, n
<1>4. CASE offset > 0 /\ offset < n
  <2> DEFINE r == offset - 1
  <2>1. o.h = AtRow(h, r, r) /\ o.ret = "SUCCESS"
    BY <1>1, <1>4 DEF SetAbsoluteCurrentChunk, AtRow
  <2>2. Kept(o.h, h) /\ OneAt(o.h, h, r, r)
    <3> HIDE DEF r
    <3> QED BY <1>0, <2>1, AtRowKept
  <2> HIDE DEF o
  <2> QED BY <1>1, <1>2, <1>4, <2>1, <2>2 DEF o, n
<1>5. CASE offset > n /\ h.resultset_end
  <2>1. o.h = h /\ o.ret = "NO_DATA"
    BY <1>1, <1>5 DEF SetAbsoluteCurrentChunk
  <2>2. Kept(h, h) /\ OneAt(h, h, h.chunk_row, h.prior_chunk_row)
    BY DEF Kept, OneAt
  <2> HIDE DEF o
  <2> QED BY <1>1, <1>2, <1>5, <2>1, <2>2 DEF o, n
<1>6. CASE offset > n /\ ~h.resultset_end
  <2>1. Kept(f.h, h) /\ HandleOK(f.h)
    BY <1>0, FetchNextKept, FetchNextOK
  <2>2. \/ f.ret = "ERROR" /\ ~f.h.open
        \/ f.ret = "NO_DATA" /\ OneAt(f.h, h, h.chunk_row, h.prior_chunk_row)
    BY <1>6, FetchNextOne
  <2>3. o.h = SetIdx(f.h, 0) /\ o.ret = f.ret
    <3>1. f.ret # "SUCCESS"
      BY <2>2
    <3> HIDE DEF f
    <3>2. o = To([f.h EXCEPT !.current_chunk_idx = 0], f.ret)
      BY <1>1, <1>6, <3>1 DEF SetAbsoluteCurrentChunk, f
    <3> QED BY <3>2 DEF SetIdx
  <2> HIDE DEF o, f
  <2>4. /\ Kept(SetIdx(f.h, 0), f.h) /\ SetIdx(f.h, 0).open = f.h.open
        /\ OneAt(f.h, h, h.chunk_row, h.prior_chunk_row) =>
             OneAt(SetIdx(f.h, 0), h, h.chunk_row, h.prior_chunk_row)
    <3>0. f.h \in HandleSet
      BY <2>1 DEF HandleOK
    <3> DEFINE k == f.h
               g == SetIdx(k, 0)
    <3> HIDE DEF k
    <3>1. /\ g.forward_only = k.forward_only /\ g.array_size = k.array_size
          /\ g.cols = k.cols /\ g.retrieve_data = k.retrieve_data /\ g.open = k.open
          /\ g.chunks = k.chunks /\ g.current_chunk = k.current_chunk /\ g.res = k.res
          /\ g.current_chunk_idx = 0 /\ g.chunk_row = k.chunk_row
          /\ g.prior_chunk_row = k.prior_chunk_row
      BY <3>0 DEF HandleSet, SetIdx, k
    <3> HIDE DEF g
    <3>2. /\ Kept(g, k) /\ g.open = k.open
          /\ OneAt(k, h, h.chunk_row, h.prior_chunk_row) =>
               OneAt(g, h, h.chunk_row, h.prior_chunk_row)
      BY <3>1 DEF Kept, OneAt, OneChunkHeld
    <3> QED BY <3>2 DEF g, k
  <2>5. Kept(o.h, h)
    BY <2>1, <2>3, <2>4, KeptTwice
  <2>6. \/ o.ret = "ERROR" /\ ~o.h.open
        \/ o.ret = "NO_DATA" /\ OneAt(o.h, h, h.chunk_row, h.prior_chunk_row)
    BY <2>2, <2>3, <2>4
  <2> QED BY <1>1, <1>2, <1>6, <2>5, <2>6 DEF o, n
<1> QED BY <1>1, <1>2, <1>3, <1>4, <1>5, <1>6

\* g is h on another row, with what was counted or remembered of a value changed.
Rowed(g, h) ==
  /\ g.forward_only = h.forward_only /\ g.array_size = h.array_size
  /\ g.cols = h.cols /\ g.retrieve_data = h.retrieve_data /\ g.open = h.open
  /\ g.chunks = h.chunks /\ g.current_chunk = h.current_chunk /\ g.res = h.res
  /\ g.current_chunk_idx = h.current_chunk_idx /\ g.prior_chunk_row = h.prior_chunk_row

\* A handle on another row of its one chunk.
LEMMA RowedOne ==
  ASSUME NEW g, NEW h, Rowed(g, h)
  PROVE  /\ Kept(g, h)
         /\ OneChunkHeld(h) => OneAt(g, h, g.chunk_row, h.prior_chunk_row)
BY DEF Rowed, Kept, OneAt, OneChunkHeld

\* Moved by rows twice.
LEMMA RowedTwice ==
  ASSUME NEW g, NEW h, NEW k, Rowed(g, h), Rowed(k, g)
  PROVE  Rowed(k, h)
BY DEF Rowed

\* Counting rows and moving to one.
LEMMA Rowing ==
  ASSUME NEW h, HandleOK(h), NEW r
  PROVE  /\ Rowed(IncreaseRowCount(h), h) /\ IncreaseRowCount(h).chunk_row = h.chunk_row
         /\ Rowed([h EXCEPT !.chunk_row = r], h) /\ [h EXCEPT !.chunk_row = r].chunk_row = r
<1> DEFINE n == h.row_count + (IF h.chunk_row + h.array_size < ChunkSize(h)
                                 THEN h.array_size ELSE ChunkSize(h) - h.chunk_row)
<1>0. h \in HandleSet
  BY DEF HandleOK
<1>1. IncreaseRowCount(h) = SetRowCount(h, n)
  BY DEF IncreaseRowCount, SetRowCount
<1> HIDE DEF n
<1>2. Rowed(SetRowCount(h, n), h) /\ SetRowCount(h, n).chunk_row = h.chunk_row
  BY <1>0 DEF HandleSet, SetRowCount, Rowed
<1>3. Rowed([h EXCEPT !.chunk_row = r], h) /\ [h EXCEPT !.chunk_row = r].chunk_row = r
  BY <1>0 DEF HandleSet, Rowed
<1> QED BY <1>1, <1>2, <1>3

\* Reading a part of a value moves nothing.
LEMMA ValueRowed ==
  ASSUME NEW h, HandleOK(h), NEW col \in Nat, NEW buf \in Buffers
  PROVE  LET v == GetVariableValue(h, col, ValLen, buf)
         IN Rowed(v.h, h) /\ v.h.chunk_row = h.chunk_row
<1> DEFINE len  == IF h.last.col = col /\ h.last.row = h.chunk_row THEN h.last.length ELSE 0
           seen == [col |-> col, row |-> h.chunk_row, length |-> len]
           g    == SetLast(h, seen)
           out  == IF ValLen - g.last.length > buf THEN buf ELSE ValLen - g.last.length
           read == [g.last EXCEPT !.length = g.last.length + out]
           k    == SetLast(g, read)
           v    == GetVariableValue(h, col, ValLen, buf)
<1>0. ASSUME NEW a \in HandleSet, NEW w
      PROVE  Rowed(SetLast(a, w), a) /\ SetLast(a, w).chunk_row = a.chunk_row
  BY <1>0 DEF HandleSet, SetLast, Rowed
<1>1. h \in HandleSet /\ h.last \in LastVals /\ h.chunk_row \in Int
  BY Fields DEF HandleOK
<1>2. Rowed(g, h) /\ g.chunk_row = h.chunk_row
  BY <1>0, <1>1
<1>3. g \in HandleSet
  <2>1. seen \in LastVals
    BY <1>1 DEF LastVals
  <2>2. 0 \in Nat /\ 0 \in Int
    OBVIOUS
  <2> HIDE DEF seen
  <2> QED BY <2>1, <2>2, FieldChangesOK DEF HandleOK
<1>4. SetLastFetchedVariableVal(h, col) = g
  BY DEF SetLastFetchedVariableVal, SetLast
<1> HIDE DEF g, seen
<1>5. Rowed(k, g) /\ k.chunk_row = g.chunk_row
  <2> HIDE DEF read
  <2> QED BY <1>0, <1>3
<1>6. [g EXCEPT !.last.length = g.last.length + out] = k
  <2> HIDE DEF out
  <2> QED BY DEF SetLast
<1>7. v.h \in {g, k}
  BY <1>4, <1>6 DEF GetVariableValue
<1> HIDE DEF v, k
<1>8. Rowed(v.h, h) /\ v.h.chunk_row = h.chunk_row
  BY <1>2, <1>5, <1>7, RowedTwice
<1> QED BY <1>8 DEF v

\* The transfer, before the last row: it returns the next row.
LEMMA RowsOne ==
  ASSUME OneRowScroll, NEW h, HandleOK(h), OneChunkHeld(h), Scrollable(h), NEW buf,
         h.chunk_row >= -1, h.chunk_row < h.res.sizes[1] - 1
  PROVE  LET t == FetchRows(h, ValLen, buf)
         IN /\ t.ret = "SUCCESS" /\ Kept(t.h, h)
            /\ OneAt(t.h, h, h.chunk_row + 1, h.prior_chunk_row)
            /\ t.rowset.first = h.chunk_row + 1 /\ t.rowset.last = h.chunk_row + 1
<1> DEFINE r == h.chunk_row + 1
           g == [h EXCEPT !.chunk_row = r]
           k == IncreaseRowCount(g)
           rs == [chunk |-> h.current_chunk, first |-> r, last |-> r, from |-> 0]
           t == FetchRows(h, ValLen, buf)
<1>0. /\ h \in HandleSet /\ h.chunk_row \in Int /\ h.prior_chunk_row \in Int
      /\ h.array_size = 1 /\ h.cols # "variable"
  BY Fields DEF HandleOK, Scrollable
<1>1. h.res.sizes[1] \in Nat \ {0} /\ ChunkSize(h) = h.res.sizes[1]
  BY OneSize
<1>2. r \in Int /\ h.chunk_row + h.array_size = r
  BY <1>0
<1>3. LastRowToFetch(h) = r
  BY <1>0, <1>1 DEF LastRowToFetch
<1>4. Rowed(g, h) /\ g.chunk_row = r
  <2> HIDE DEF r
  <2> QED BY Rowing
<1>5. HandleOK(g)
  <2> HIDE DEF r
  <2>1. g = AtRow(h, r, h.prior_chunk_row)
    BY <1>0 DEF AtRow, HandleSet
  <2> QED BY <1>0, <1>2, <2>1, AtRowOK
<1>6. Kept(k, h) /\ OneAt(k, h, r, h.prior_chunk_row)
  <2> HIDE DEF g, r
  <2>1. Rowed(k, g) /\ k.chunk_row = g.chunk_row
    BY <1>5, Rowing
  <2> HIDE DEF k
  <2>2. Rowed(k, h) /\ k.chunk_row = r
    BY <1>4, <2>1, RowedTwice
  <2> QED BY <2>2, RowedOne
<1>7. CASE h.bound_size = 0
  <2>1. t = PositionOnly(h)
    BY <1>7 DEF FetchRows
  <2>2. PositionOnly(h) = Transfer(k, "SUCCESS", [chunk |-> g.current_chunk,
                            first |-> g.chunk_row, last |-> g.chunk_row, from |-> 0])
    BY <1>2 DEF PositionOnly
  <2>3. g.current_chunk = h.current_chunk
    BY <1>4 DEF Rowed
  <2> HIDE DEF t, g, k, r
  <2>4. t.h = k /\ t.ret = "SUCCESS" /\ t.rowset.first = r /\ t.rowset.last = r
    BY <1>4, <2>1, <2>2 DEF Transfer
  <2> QED BY <1>6, <2>4 DEF t, r
<1>8. CASE h.bound_size # 0
  <2>1. t = FetchBound(h, ValLen, buf)
    BY <1>8 DEF FetchRows
  <2>2. ~(r < r)
    BY <1>2
  <2>3. FetchBound(h, ValLen, buf) = Transfer(k, "SUCCESS", rs)
    BY <1>0, <1>3, <2>2 DEF FetchBound
  <2> HIDE DEF t, g, k, r
  <2>4. t.h = k /\ t.ret = "SUCCESS" /\ t.rowset.first = r /\ t.rowset.last = r
    BY <2>1, <2>3 DEF Transfer
  <2> QED BY <1>6, <2>4 DEF t, r
<1> QED BY <1>7, <1>8

\* The first chunk of a result: it is the only one, and no row of it was fetched yet.
LEMMA FirstChunkOne ==
  ASSUME OneRowScroll, NEW h, HandleOK(h), NEW fails \in BOOLEAN,
         h.chunks = << >>, ~h.resultset_end,
         h.res.sizes \in Results, h.res.pos = 0, ~h.res.error
  PROVE  LET o == FetchNext(h, fails)
         IN \/ o.ret = "ERROR"
            \/ o.ret = "SUCCESS" /\ OneAt(o.h, h, -1, -1)
<1> DEFINE g  == ResetLastFetchedVariableVal(h)
           rs == [g.res EXCEPT !.pos = 1]
           k  == [g EXCEPT !.chunks = << 1 >>, !.res = rs]
           m  == [k EXCEPT !.current_chunk_idx = 0, !.current_chunk = 1,
                           !.chunk_row = -1, !.prior_chunk_row = -1]
           o  == FetchNext(h, fails)
<1>1. CASE fails \/ h.res.closed
  BY <1>1 DEF FetchNext, Outcome
<1>2. CASE ~(fails \/ h.res.closed)
  <2>0. h \in HandleSet /\ g \in HandleSet /\ g.res = h.res /\ h.res \in ResultSet
    BY ResetOK, Fields DEF HandleOK
  <2>1. /\ g.chunks = << >> /\ g.open = h.open /\ g.forward_only = h.forward_only
        /\ g.current_chunk_idx = h.current_chunk_idx
    BY <2>0 DEF HandleSet, ResetLastFetchedVariableVal
  <2>2. h.res.pos # Len(h.res.sizes)
    BY DEF OneRowScroll
  <2>3. o = SetCurrentChunk(KeepChunk(g))
    BY <1>2, <2>2 DEF FetchNext
  <2> HIDE DEF g, o
  <2>4. KeepChunk(g) = k
    <3>1. g.res.pos + 1 = 1
      BY <2>0
    <3>2. (IF g.forward_only THEN << 1 >> ELSE Append(g.chunks, 1)) = << 1 >>
      BY <2>1
    <3> QED BY <3>1, <3>2 DEF KeepChunk
  <2>5. rs.sizes = h.res.sizes /\ rs.pos = 1 /\ rs.error = h.res.error
    BY <2>0 DEF ResultSet
  <2>6. rs \in ResultSet /\ << 1 >> \in ChunkSeqs
    BY <2>0 DEF ResultSet, ChunkSeqs
  <2> HIDE DEF rs
  <2>7. /\ k \in HandleSet /\ k.chunks = << 1 >> /\ k.res = rs /\ k.open = g.open
        /\ k.current_chunk_idx = g.current_chunk_idx
    BY <2>0, <2>6 DEF HandleSet
  <2>8. k.current_chunk_idx \in Nat
    BY <2>7, Fields
  <2> HIDE DEF k
  <2>9. SetCurrentChunk(k) = Outcome(m, "SUCCESS")
    <3> DEFINE last == Len(k.chunks) - 1
               idx  == IF ~k.forward_only /\ k.current_chunk_idx < last
                         THEN k.current_chunk_idx + 1 ELSE last
    <3>1. k.chunks # << >> /\ idx = 0
      BY <2>7, <2>8
    <3>2. k.chunks[idx + 1] = 1
      BY <2>7, <3>1
    <3>3. SetCurrentChunk(k) =
            Outcome([k EXCEPT !.current_chunk_idx = idx, !.current_chunk = k.chunks[idx + 1],
                              !.chunk_row = -1, !.prior_chunk_row = -1], "SUCCESS")
      BY <3>1 DEF SetCurrentChunk
    <3> HIDE DEF idx
    <3> QED BY <3>1, <3>2, <3>3
  <2>10. /\ m.chunks = k.chunks /\ m.current_chunk = 1 /\ m.res = k.res /\ m.open = k.open
         /\ m.current_chunk_idx = 0 /\ m.chunk_row = -1 /\ m.prior_chunk_row = -1
    BY <2>7 DEF HandleSet
  <2> HIDE DEF m
  <2>11. OneAt(m, h, -1, -1)
    BY <2>1, <2>5, <2>7, <2>10 DEF OneAt, OneChunkHeld
  <2>12. o.h = m /\ o.ret = "SUCCESS"
    BY <2>3, <2>4, <2>9 DEF Outcome
  <2> QED BY <2>11, <2>12 DEF o
<1> QED BY <1>1, <1>2

\* An execution that succeeds is at the start of its one chunk; none changes an
\* attribute.
LEMMA ExecuteOne ==
  ASSUME OneRowScroll, NEW h, HandleOK(h), Scrollable(h), NEW sizes \in Results,
         NEW fails \in BOOLEAN, NEW fetchFails \in BOOLEAN
  PROVE  LET o == BatchExecuteStmt(h, sizes, fails, fetchFails)
         IN /\ Scrollable(o.h)
            /\ o.ret = "SUCCESS" =>
                 /\ o.h.open /\ OneChunkHeld(o.h) /\ o.h.res.sizes = sizes
                 /\ o.h.chunk_row = -1 /\ o.h.prior_chunk_row = -1
<1> DEFINE c == ClearChunks(h)
           r == [NewResult(sizes) EXCEPT !.error = fails]
           b == ~fails
           g == [c EXCEPT !.open = b, !.res = r]
           d == [g EXCEPT !.forward_only = FALSE]
           s == BeforeStart(d).h
           f == FetchNext(s, fetchFails)
           e == [f.h EXCEPT !.forward_only = g.forward_only]
           o == BatchExecuteStmt(h, sizes, fails, fetchFails)
<1>0. h \in HandleSet
  BY DEF HandleOK
<1>1. /\ c \in HandleSet /\ Blank(c) /\ c.resultset_end = FALSE
      /\ c.forward_only = h.forward_only
  BY <1>0, ClearChunksPointed DEF Blank
<1>2. /\ c.array_size = h.array_size /\ c.cols = h.cols /\ c.retrieve_data = h.retrieve_data
  BY <1>0 DEF ClearChunks, HandleSet
<1>3. r \in ResultSet /\ r.pos = 0 /\ r.sizes = sizes /\ r.error = fails
  <2> DEFINE n == NewResult(sizes)
  <2>1. n \in ResultSet /\ n.pos = 0 /\ n.sizes = sizes
    BY DEF NewResult, ResultSet
  <2> HIDE DEF n
  <2>2. LET m == [n EXCEPT !.error = fails]
        IN m \in ResultSet /\ m.pos = 0 /\ m.sizes = sizes /\ m.error = fails
    BY <2>1 DEF ResultSet
  <2> QED BY <2>2 DEF n
<1>4. b \in Flags /\ sizes \in Seq(Nat \ {0}) /\ FALSE \in Flags
  BY ResultsAssumption DEF Flags
<1>5. SingleExecuteStmt(h, sizes, fails) = g
  BY DEF SingleExecuteStmt
<1> HIDE DEF c, r
<1>6. /\ g \in HandleSet /\ g.res = r /\ g.open = b /\ g.resultset_end = FALSE
      /\ g.forward_only = c.forward_only /\ g.array_size = c.array_size
      /\ g.cols = c.cols /\ g.retrieve_data = c.retrieve_data
  BY <1>1, <1>3, <1>4 DEF HandleSet
<1>7. g.chunks = << >> /\ g.current_chunk = NoChunk
  BY <1>1 DEF HandleSet, Blank
<1> HIDE DEF g, b
<1>8. Scrollable(g)
  BY <1>1, <1>2, <1>6 DEF Scrollable
<1>9. CASE fails
  <2>1. o.h = g /\ o.ret = "ERROR"
    BY <1>5, <1>9 DEF BatchExecuteStmt, Outcome
  <2> HIDE DEF o
  <2> QED BY <1>8, <2>1 DEF o
<1>10. CASE ~fails
  <2>1. /\ d \in HandleSet /\ d.res = r /\ d.open = b /\ d.resultset_end = FALSE
        /\ d.forward_only = FALSE /\ d.array_size = g.array_size /\ d.cols = g.cols
        /\ d.retrieve_data = g.retrieve_data /\ d.chunks = << >> /\ d.current_chunk = NoChunk
    BY <1>4, <1>6, <1>7 DEF HandleSet
  <2> HIDE DEF d
  <2>2. HandleOK(d)
    BY <1>3, <1>4, <2>1 DEF HandleOK
  <2>3. HandleOK(s) /\ s.res = r /\ Kept(s, d)
    BY <2>1, <2>2, BeforeStartOK, BeforeStartKept
  <2>4. s.chunks = << >> /\ s.current_chunk = NoChunk /\ s.open = b /\ s.resultset_end = FALSE
    <3>1. s = [d EXCEPT !.current_chunk = NoChunk, !.current_chunk_idx = 0,
                        !.chunk_row = -1, !.prior_chunk_row = -1]
      BY <2>1 DEF BeforeStart, Outcome
    <3> QED BY <2>1, <3>1 DEF HandleSet
  <2>5. SetFirstCurrentChunk(d, fetchFails) = f
    BY <2>4 DEF SetFirstCurrentChunk
  <2> HIDE DEF s
  <2>6. HandleOK(f.h) /\ Kept(f.h, s)
    BY <1>3, <2>3, FetchNextOK, FetchNextKept
  <2>7. \/ f.ret = "ERROR"
        \/ f.ret = "SUCCESS" /\ OneAt(f.h, s, -1, -1)
    BY <1>3, <1>10, <2>3, <2>4, FirstChunkOne
  <2>8. o = Outcome(e, IF f.ret = "ERROR" THEN "ERROR" ELSE "SUCCESS")
    <3>1. FetchFirst(g, fetchFails) = Outcome(e, f.ret)
      BY <2>5 DEF FetchFirst, d
    <3> HIDE DEF e, f
    <3> QED BY <1>5, <1>10, <3>1 DEF BatchExecuteStmt, Outcome
  <2> HIDE DEF f, o
  <2>9. /\ e.forward_only = g.forward_only /\ e.array_size = f.h.array_size
        /\ e.cols = f.h.cols /\ e.retrieve_data = f.h.retrieve_data /\ e.open = f.h.open
        /\ e.chunks = f.h.chunks /\ e.current_chunk = f.h.current_chunk /\ e.res = f.h.res
        /\ e.current_chunk_idx = f.h.current_chunk_idx /\ e.chunk_row = f.h.chunk_row
        /\ e.prior_chunk_row = f.h.prior_chunk_row
    BY <2>6 DEF HandleOK, HandleSet
  <2> HIDE DEF e
  <2>10. Scrollable(e)
    BY <1>8, <2>1, <2>3, <2>6, <2>9 DEF Scrollable, Kept
  <2>11. OneAt(f.h, s, -1, -1) =>
           /\ e.open = b /\ OneChunkHeld(e) /\ e.res.sizes = sizes
           /\ e.chunk_row = -1 /\ e.prior_chunk_row = -1
    BY <1>3, <2>3, <2>4, <2>9 DEF OneAt, OneChunkHeld
  <2>12. o.h = e /\ (o.ret = "SUCCESS" => f.ret # "ERROR")
    BY <2>8 DEF Outcome
  <2>13. b = TRUE
    BY <1>10 DEF b
  <2> QED BY <2>7, <2>10, <2>11, <2>12, <2>13 DEF o
<1> QED BY <1>9, <1>10

\* The other calls that prepare or close change no attribute.
LEMMA OthersScrollable ==
  ASSUME NEW h, HandleOK(h), Scrollable(h)
  PROVE  /\ Scrollable(PrepareQuery(h)) /\ Scrollable(FinalizeStmt(h))
         /\ Scrollable([ClearChunks(h) EXCEPT !.open = FALSE, !.res = NoResult])
         /\ Scrollable([h EXCEPT !.prepared = FALSE])
<1> DEFINE c == ClearChunks(h)
<1>0. h \in HandleSet
  BY DEF HandleOK
<1>1. c \in HandleSet /\ c.forward_only = h.forward_only
  BY <1>0, ClearChunksPointed
<1>2. c.array_size = h.array_size /\ c.cols = h.cols /\ c.retrieve_data = h.retrieve_data
  BY <1>0 DEF ClearChunks, HandleSet
<1> HIDE DEF c
<1>3. Scrollable([c EXCEPT !.res = NoResult, !.prepared = FALSE])
  BY <1>1, <1>2 DEF Scrollable, HandleSet
<1>4. Scrollable([c EXCEPT !.open = FALSE, !.res = NoResult])
  BY <1>1, <1>2 DEF Scrollable, HandleSet
<1>5. Scrollable(FinalizeStmt(h)) /\ Scrollable([h EXCEPT !.prepared = FALSE])
  BY <1>0 DEF Scrollable, HandleSet, FinalizeStmt
<1> QED BY <1>3, <1>4, <1>5 DEF PrepareQuery, c

\* Closing the stream moves nothing and keeps the sizes.
LEMMA CloseStreamOne ==
  ASSUME NEW h, HandleOK(h)
  PROVE  LET g == CloseStream(h)
         IN /\ Kept(g, h) /\ g.open = h.open /\ g.res.sizes = h.res.sizes
            /\ g.chunk_row = h.chunk_row /\ g.prior_chunk_row = h.prior_chunk_row
            /\ OneChunkHeld(h) => OneChunkHeld(g)
<1> DEFINE r == [h.res EXCEPT !.closed = TRUE]
           k == [h EXCEPT !.res = r]
           g == CloseStream(h)
<1>0. h \in HandleSet /\ h.res \in ResultSet
  BY Fields DEF HandleOK
<1>1. r.sizes = h.res.sizes /\ r.pos = h.res.pos /\ r.error = h.res.error
  BY <1>0 DEF ResultSet
<1>2. g \in {h, k}
  <2>1. [h EXCEPT !.res.closed = TRUE] = k
    BY <1>0 DEF HandleSet
  <2> QED BY <2>1 DEF CloseStream
<1> HIDE DEF r
<1>3. /\ k.forward_only = h.forward_only /\ k.array_size = h.array_size
      /\ k.cols = h.cols /\ k.retrieve_data = h.retrieve_data /\ k.open = h.open
      /\ k.chunks = h.chunks /\ k.current_chunk = h.current_chunk /\ k.res = r
      /\ k.current_chunk_idx = h.current_chunk_idx /\ k.chunk_row = h.chunk_row
      /\ k.prior_chunk_row = h.prior_chunk_row
  BY <1>0 DEF HandleSet
<1> HIDE DEF k, g
<1>4. /\ Kept(g, h) /\ g.open = h.open /\ g.res.sizes = h.res.sizes
      /\ g.chunk_row = h.chunk_row /\ g.prior_chunk_row = h.prior_chunk_row
      /\ OneChunkHeld(h) => OneChunkHeld(g)
  BY <1>1, <1>2, <1>3 DEF Kept, OneChunkHeld
<1> QED BY <1>4 DEF g
----------------------------------------------------------------------------
(***************************************************************************)
(* The steps of ScrollCursor, in terms of the handle.                      *)
(***************************************************************************)
\* A step of ScrollCursor, or none.
Simulated == [Scroll!Next]_(Scroll!vars)

\* A step that leaves the position and the row alone is none of the abstract cursor.
LEMMA SimulatesNone ==
  ASSUME RowsBar' = RowsBar, PosBar' = PosBar, RowBar' = RowBar, ret' = ret
  PROVE  Simulated
BY DEF Simulated, Scroll!vars, RowsBar, PosBar, RowBar

\* A step that closes the result is Shut.
LEMMA SimulatesShut ==
  ASSUME RowsBar' = -1, PosBar' = 0, RowBar' \in {RowBar, 0},
         ret' \in {ret, "SUCCESS", "ERROR"}
  PROVE  Simulated
<1>1. Scroll!Shut
  BY DEF Scroll!Shut, RowsBar, PosBar, RowBar
<1> QED BY <1>1 DEF Simulated, Scroll!Next

\* A step that opens a result at its start is Open.
LEMMA SimulatesOpen ==
  ASSUME RowsBar = -1, NEW sizes \in Results, RowsBar' = sizes[1], PosBar' = 0,
         RowBar' = 0, ret' = "SUCCESS"
  PROVE  Simulated
<1>1. Scroll!Open(sizes[1])
  BY DEF Scroll!Open, Scroll!IsOpen, RowsBar, PosBar, RowBar
<1>2. sizes[1] \in {s[1] : s \in Results}
  OBVIOUS
<1> QED BY <1>1, <1>2 DEF Simulated, Scroll!Next

\* A step that finds no open result is Idle.
LEMMA SimulatesIdle ==
  ASSUME RowsBar = -1, RowsBar' = -1, PosBar' = PosBar, RowBar' = 0,
         ret' \in {"ERROR", "NO_DATA"}
  PROVE  Simulated
<1>1. Scroll!Idle
  BY DEF Scroll!Idle, Scroll!IsOpen, RowsBar, PosBar, RowBar
<1> QED BY <1>1 DEF Simulated, Scroll!Next

\* The cursor gives row p, or none and stands at p.
Gives(p)   == RowsBar' = RowsBar /\ PosBar' = p /\ RowBar' = p /\ ret' = "SUCCESS"
None(p, r) == RowsBar' = RowsBar /\ PosBar' = p /\ RowBar' = 0 /\ ret' = r

\* A step by one row forward is FetchNext.
LEMMA SimulatesNext ==
  ASSUME RowsBar \in Nat,
         IF PosBar < RowsBar THEN Gives(PosBar + 1) ELSE None(RowsBar + 1, "NO_DATA")
  PROVE  Simulated
<1>1. Scroll!FetchNext
  BY DEF Scroll!FetchNext, Scroll!IsOpen, Scroll!GiveRow, Scroll!GiveNone, Gives, None,
         RowsBar, PosBar, RowBar
<1> QED BY <1>1 DEF Simulated, Scroll!Next

\* A step by one row back is FetchPrior.
LEMMA SimulatesPrior ==
  ASSUME RowsBar \in Nat, IF PosBar > 1 THEN Gives(PosBar - 1) ELSE None(0, "NO_DATA")
  PROVE  Simulated
<1>1. Scroll!FetchPrior
  BY DEF Scroll!FetchPrior, Scroll!IsOpen, Scroll!GiveRow, Scroll!GiveNone, Gives, None,
         RowsBar, PosBar, RowBar
<1> QED BY <1>1 DEF Simulated, Scroll!Next

\* A step to the first row is FetchFirst.
LEMMA SimulatesFirst ==
  ASSUME RowsBar \in Nat, Gives(1)
  PROVE  Simulated
<1>1. Scroll!FetchFirst
  BY DEF Scroll!FetchFirst, Scroll!IsOpen, Scroll!GiveRow, Gives, RowsBar, PosBar, RowBar
<1> QED BY <1>1 DEF Simulated, Scroll!Next

\* A step to the row of an offset is FetchAbsolute.
LEMMA SimulatesAbsolute ==
  ASSUME RowsBar \in Nat \ {0}, NEW k \in Offsets, k \in Nat \ {0},
         k = 1 => None(0, "SUCCESS"),
         k > 1 /\ k <= RowsBar => Gives(k),
         k > 1 /\ k > RowsBar => None(PosBar, "NO_DATA")
  PROVE  Simulated
<1>0. Scroll!IsOpen
  BY DEF Scroll!IsOpen, RowsBar
<1>1. CASE k = 1
  <2>1. Scroll!GiveNone(0, "SUCCESS")
    BY <1>1 DEF Scroll!GiveNone, None, RowsBar, PosBar, RowBar
  <2>2. ~(k \in 2..RowsBar) /\ ~(k > RowsBar)
    BY <1>1
  <2>3. Scroll!FetchAbsolute(k)
    BY <1>0, <1>1, <2>1, <2>2 DEF Scroll!FetchAbsolute, RowsBar
  <2> QED BY <2>3 DEF Simulated, Scroll!Next
<1>2. CASE k > 1 /\ k <= RowsBar
  <2>1. Scroll!GiveRow(k)
    BY <1>2 DEF Scroll!GiveRow, Gives, RowsBar, PosBar, RowBar
  <2>2. k \in 2..RowsBar /\ ~(k > RowsBar) /\ k # 1
    BY <1>2
  <2>3. Scroll!FetchAbsolute(k)
    BY <1>0, <2>1, <2>2 DEF Scroll!FetchAbsolute, RowsBar
  <2> QED BY <2>3 DEF Simulated, Scroll!Next
<1>3. CASE k > 1 /\ k > RowsBar
  <2>1. Scroll!GiveNone(PosBar, "NO_DATA")
    BY <1>3 DEF Scroll!GiveNone, None, RowsBar, PosBar, RowBar
  <2>2. ~(k \in 2..RowsBar) /\ k > RowsBar /\ k # 1
    BY <1>3
  <2>3. Scroll!FetchAbsolute(k)
    BY <1>0, <2>1, <2>2 DEF Scroll!FetchAbsolute, RowsBar, PosBar
  <2> QED BY <2>3 DEF Simulated, Scroll!Next
<1> QED BY <1>1, <1>2, <1>3
----------------------------------------------------------------------------
(***************************************************************************)
(* The calls.                                                              *)
(***************************************************************************)
ScrollsOne == OneRowScroll /\ TypeInv /\ PlaceInv

\* What the fetches below start from: an open result, between two levels of a loop.
Fetching == ScrollsOne /\ cursor /\ hstmt.open /\ call # "materialize"

\* The position of the cursor on a row and the row before.
PosAt(row, prior) == IF row = -1 THEN 0 ELSE prior + 2

\* The position mapped from a closed result.
LEMMA ClosedBars ==
  ASSUME ~(cursor /\ hstmt.open)
  PROVE  RowsBar = -1 /\ PosBar = 0
BY DEF RowsBar, PosBar, ScrollPos

\* The position mapped from an open one.
LEMMA OpenBars ==
  ASSUME Fetching
  PROVE  /\ RowsBar = hstmt.res.sizes[1] /\ RowsBar \in Nat \ {0}
         /\ PosBar = PosAt(hstmt.chunk_row, hstmt.prior_chunk_row)
         /\ OneChunkHeld(hstmt) /\ HandleOK(hstmt) /\ Scrollable(hstmt)
         /\ Placed(hstmt.chunk_row, hstmt.prior_chunk_row, hstmt.res.sizes[1])
         /\ hstmt.chunk_row \in Int /\ hstmt.prior_chunk_row \in Int
<1>1. /\ OneChunkHeld(hstmt) /\ HandleOK(hstmt) /\ Scrollable(hstmt)
      /\ Placed(hstmt.chunk_row, hstmt.prior_chunk_row, hstmt.res.sizes[1])
  BY DEF Fetching, ScrollsOne, PlaceInv, TypeInv
<1>2. hstmt.res.sizes[1] \in Nat \ {0}
  BY <1>1, OneSize DEF Fetching, ScrollsOne
<1>3. hstmt.chunk_row \in Int /\ hstmt.prior_chunk_row \in Int
  BY <1>1, Fields DEF HandleOK
<1>4. RowsBar = hstmt.res.sizes[1] /\ PosBar = PosAt(hstmt.chunk_row, hstmt.prior_chunk_row)
  BY DEF Fetching, RowsBar, PosBar, ScrollPos, PosAt
<1> QED BY <1>1, <1>2, <1>3, <1>4

\* A fetch that returns.
LEMMA ReturnOne ==
  ASSUME cursor, NEW h, NEW r, NEW rs, Return(h, r, rs), Scrollable(h),
         h.open => OneChunkHeld(h) /\ Placed(h.chunk_row, h.prior_chunk_row, h.res.sizes[1])
  PROVE  /\ PlaceInv' /\ ret' = r
         /\ RowsBar' = (IF h.open THEN h.res.sizes[1] ELSE -1)
         /\ PosBar' = (IF h.open THEN PosAt(h.chunk_row, h.prior_chunk_row) ELSE 0)
         /\ RowBar' = (IF HasRows(rs) THEN rs.first + 1 ELSE 0)
<1>1. hstmt' = h /\ cursor' /\ rowset' = rs /\ call' = "idle" /\ ret' = r
  BY DEF Return
<1>2. PlaceInv'
  BY <1>1 DEF PlaceInv, Scrollable, OneChunkHeld, Placed
<1>3. /\ RowsBar' = (IF h.open THEN h.res.sizes[1] ELSE -1)
      /\ PosBar' = (IF h.open THEN PosAt(h.chunk_row, h.prior_chunk_row) ELSE 0)
      /\ RowBar' = (IF HasRows(rs) THEN rs.first + 1 ELSE 0)
  BY <1>1 DEF RowsBar, PosBar, RowBar, ScrollPos, PosAt, HasRows
<1> QED BY <1>1, <1>2, <1>3

\* A stray read leaves the cursor where it is.
LEMMA UndefinedOne ==
  ASSUME PlaceInv, call # "materialize", Undefined
  PROVE  PlaceInv' /\ Simulated
<1>1. /\ call' = "undefined"
      /\ UNCHANGED <<hstmt, cursor, loop, ret, tran, rowset, delivered, parts>>
  BY DEF Undefined
<1>2. PlaceInv'
  BY <1>1 DEF PlaceInv, Scrollable, OneChunkHeld, Placed
<1>3. RowsBar' = RowsBar /\ PosBar' = PosBar /\ RowBar' = RowBar
  BY <1>1 DEF RowsBar, PosBar, RowBar, ScrollPos, HasRows
<1> QED BY <1>1, <1>2, <1>3, SimulatesNone

\* A fetch that fails closes the result.
LEMMA FinishError ==
  ASSUME Fetching, NEW h, Kept(h, hstmt), ~h.open, FinishFetch(h, "ERROR")
  PROVE  PlaceInv' /\ Simulated
<1>1. Return(h, "ERROR", NoRows) /\ ~HasRows(NoRows)
  BY DEF FinishFetch, NoRows, HasRows
<1>2. Scrollable(h) /\ cursor
  BY KeptScrollable DEF Fetching, ScrollsOne, PlaceInv
<1>3. PlaceInv' /\ ret' = "ERROR" /\ RowsBar' = -1 /\ PosBar' = 0 /\ RowBar' = 0
  BY <1>1, <1>2, ReturnOne
<1> QED BY <1>3, SimulatesShut

\* A fetch that finds no row says where the cursor stands.
LEMMA FinishNoData ==
  ASSUME Fetching, NEW h, NEW row, NEW prior, Kept(h, hstmt), OneAt(h, hstmt, row, prior),
         Placed(row, prior, hstmt.res.sizes[1]), FinishFetch(h, "NO_DATA")
  PROVE  PlaceInv' /\ None(PosAt(row, prior), "NO_DATA")
<1>1. Return(h, "NO_DATA", NoRows) /\ ~HasRows(NoRows)
  BY DEF FinishFetch, NoRows, HasRows
<1>2. Scrollable(h) /\ cursor /\ hstmt.open
  BY KeptScrollable DEF Fetching, ScrollsOne, PlaceInv
<1>3. /\ OneChunkHeld(h) /\ h.open /\ h.res.sizes = hstmt.res.sizes
      /\ h.chunk_row = row /\ h.prior_chunk_row = prior
  BY <1>2 DEF OneAt
<1>4. /\ PlaceInv' /\ ret' = "NO_DATA" /\ RowsBar' = hstmt.res.sizes[1]
      /\ PosBar' = PosAt(row, prior) /\ RowBar' = 0
  BY <1>1, <1>2, <1>3, ReturnOne
<1> QED BY <1>4, OpenBars DEF None

\* A fetch that stops before the first row.
LEMMA FinishStart ==
  ASSUME Fetching, NEW h, Kept(h, hstmt), OneAt(h, hstmt, -1, -1),
         FinishFetch(h, "BEFORE_START")
  PROVE  PlaceInv' /\ None(0, "SUCCESS")
<1> DEFINE rs == [NoRows EXCEPT !.chunk = h.current_chunk]
<1>1. Return(h, "SUCCESS", rs)
  BY DEF FinishFetch
<1>2. ~HasRows(rs)
  BY DEF NoRows, HasRows
<1>3. Scrollable(h) /\ cursor /\ hstmt.open
  BY KeptScrollable DEF Fetching, ScrollsOne, PlaceInv
<1>4. /\ OneChunkHeld(h) /\ h.open /\ h.res.sizes = hstmt.res.sizes
      /\ h.chunk_row = -1 /\ h.prior_chunk_row = -1
  BY <1>3 DEF OneAt
<1>5. Placed(-1, -1, hstmt.res.sizes[1]) /\ PosAt(-1, -1) = 0
  BY DEF Placed, PosAt
<1> HIDE DEF rs
<1>6. /\ PlaceInv' /\ ret' = "SUCCESS" /\ RowsBar' = hstmt.res.sizes[1]
      /\ PosBar' = 0 /\ RowBar' = 0
  BY <1>1, <1>2, <1>3, <1>4, <1>5, ReturnOne
<1> QED BY <1>6, OpenBars DEF None

\* A fetch that finds a row behind q gives it, or is a stray read.
LEMMA FinishRow ==
  ASSUME Fetching, NEW h, HandleOK(h), NEW q \in Int, Kept(h, hstmt), OneAt(h, hstmt, q, q),
         q >= -1, q < hstmt.res.sizes[1] - 1, FinishFetch(h, "SUCCESS")
  PROVE  PlaceInv' /\ (Gives(q + 2) \/ Simulated)
<1>1. CASE ~CanFetchRows(h)
  <2>1. Undefined
    BY <1>1 DEF FinishFetch
  <2> QED BY <2>1, UndefinedOne DEF Fetching, ScrollsOne
<1>2. CASE CanFetchRows(h)
  <2>1. PICK buf \in BufLens : LET t == FetchRows(h, ValLen, buf)
                                IN Return(t.h, t.ret, t.rowset)
    BY <1>2 DEF FinishFetch
  <2> DEFINE t == FetchRows(h, ValLen, buf)
  <2>2. Return(t.h, t.ret, t.rowset)
    BY <2>1
  <2>3. Scrollable(h) /\ cursor /\ hstmt.open /\ OneRowScroll
    BY KeptScrollable DEF Fetching, ScrollsOne, PlaceInv
  <2>4. /\ OneChunkHeld(h) /\ h.open /\ h.res.sizes = hstmt.res.sizes
        /\ h.chunk_row = q /\ h.prior_chunk_row = q
    BY <2>3 DEF OneAt
  <2>5. /\ t.ret = "SUCCESS" /\ Kept(t.h, h) /\ OneAt(t.h, h, q + 1, q)
        /\ t.rowset.first = q + 1 /\ t.rowset.last = q + 1
    BY <2>3, <2>4, RowsOne
  <2> HIDE DEF t
  <2>6. Scrollable(t.h)
    BY <2>3, <2>5, KeptScrollable
  <2>7. /\ OneChunkHeld(t.h) /\ t.h.open /\ t.h.res.sizes = hstmt.res.sizes
        /\ t.h.chunk_row = q + 1 /\ t.h.prior_chunk_row = q
    BY <2>4, <2>5 DEF OneAt
  <2>8. hstmt.res.sizes[1] \in Nat \ {0} /\ RowsBar = hstmt.res.sizes[1]
    BY OpenBars
  <2>9. Placed(q + 1, q, hstmt.res.sizes[1])
    BY <2>8 DEF Placed
  <2>10. PosAt(q + 1, q) = q + 2 /\ (q + 1) + 1 = q + 2 /\ HasRows(t.rowset)
    BY <2>5 DEF PosAt, HasRows
  <2>11. /\ PlaceInv' /\ ret' = "SUCCESS" /\ RowsBar' = hstmt.res.sizes[1]
         /\ PosBar' = q + 2 /\ RowBar' = q + 2
    BY <2>2, <2>3, <2>5, <2>6, <2>7, <2>9, <2>10, ReturnOne
  <2> QED BY <2>8, <2>11 DEF Gives
<1> QED BY <1>1, <1>2

\* SQL_FETCH_NEXT and SQLFetch, on an open result.
LEMMA FetchNextSimulated ==
  ASSUME Fetching, FetchWith("NEXT")
  PROVE  PlaceInv' /\ Simulated
<1>1. PICK fails \in BOOLEAN :
        LET o == FetchNextChunk(hstmt, "NEXT", fails)
        IN IF "NEXT" = "PRIOR" /\ ~hstmt.forward_only /\ ~PriorInRange(hstmt)
             THEN Undefined
             ELSE FinishFetch(o.h, o.ret)
  BY DEF FetchWith
<1> DEFINE o == NextChunk(hstmt, fails)
           row == hstmt.chunk_row
           n == hstmt.res.sizes[1]
<1>2. FinishFetch(o.h, o.ret)
  BY <1>1 DEF FetchNextChunk
<1>3. /\ RowsBar = n /\ n \in Nat \ {0} /\ PosBar = PosAt(row, hstmt.prior_chunk_row)
      /\ OneChunkHeld(hstmt) /\ HandleOK(hstmt) /\ Scrollable(hstmt)
      /\ Placed(row, hstmt.prior_chunk_row, n)
      /\ row \in Int /\ hstmt.prior_chunk_row \in Int
  BY OpenBars
<1>4. row <= n - 1 /\ row >= -1
  BY <1>3 DEF Placed
<1>5. /\ Kept(o.h, hstmt)
      /\ IF row < n - 1
           THEN o.ret = "SUCCESS" /\ OneAt(o.h, hstmt, row, row)
           ELSE \/ o.ret = "ERROR" /\ ~o.h.open
                \/ o.ret = "NO_DATA" /\ OneAt(o.h, hstmt, row, row)
  BY <1>3, <1>4, NextOne DEF Fetching, ScrollsOne
<1>6. HandleOK(o.h)
  BY <1>3, NextChunkOK DEF OneChunkHeld
<1> HIDE DEF o, row, n
<1>7. CASE row < n - 1
  <2>1. PlaceInv' /\ (Gives(row + 2) \/ Simulated)
    BY <1>2, <1>3, <1>4, <1>5, <1>6, <1>7, FinishRow DEF n
  <2>2. PosBar < RowsBar /\ PosBar + 1 = row + 2
    BY <1>3, <1>4, <1>7 DEF Placed, PosAt
  <2> QED BY <1>3, <2>1, <2>2, SimulatesNext
<1>8. CASE ~(row < n - 1) /\ o.ret = "ERROR"
  BY <1>2, <1>5, <1>8, FinishError
<1>9. CASE ~(row < n - 1) /\ o.ret = "NO_DATA"
  <2>1. Placed(row, row, n) /\ PosAt(row, row) = n + 1
    BY <1>3, <1>4, <1>9 DEF Placed, PosAt
  <2>2. PlaceInv' /\ None(PosAt(row, row), "NO_DATA")
    BY <1>2, <1>5, <1>9, <2>1, FinishNoData DEF n
  <2>3. ~(PosBar < RowsBar)
    BY <1>3, <1>4, <1>9 DEF Placed, PosAt
  <2> QED BY <1>3, <2>1, <2>2, <2>3, SimulatesNext
<1> QED BY <1>5, <1>7, <1>8, <1>9

\* SQL_FETCH_PRIOR, on an open result.
LEMMA FetchPriorSimulated ==
  ASSUME Fetching, FetchWith("PRIOR")
  PROVE  PlaceInv' /\ Simulated
<1>1. PICK fails \in BOOLEAN :
        LET o == FetchNextChunk(hstmt, "PRIOR", fails)
        IN IF "PRIOR" = "PRIOR" /\ ~hstmt.forward_only /\ ~PriorInRange(hstmt)
             THEN Undefined
             ELSE FinishFetch(o.h, o.ret)
  BY DEF FetchWith
<1> DEFINE o == SetPriorCurrentChunk(hstmt)
           q == hstmt.prior_chunk_row - 1
           n == hstmt.res.sizes[1]
<1>2. /\ RowsBar = n /\ n \in Nat \ {0}
      /\ PosBar = PosAt(hstmt.chunk_row, hstmt.prior_chunk_row)
      /\ OneChunkHeld(hstmt) /\ HandleOK(hstmt) /\ Scrollable(hstmt)
      /\ Placed(hstmt.chunk_row, hstmt.prior_chunk_row, n)
      /\ hstmt.chunk_row \in Int /\ hstmt.prior_chunk_row \in Int
  BY OpenBars
<1>3. ~hstmt.forward_only /\ hstmt.array_size = 1
  BY <1>2 DEF Scrollable
<1>4. CASE ~PriorInRange(hstmt)
  BY <1>1, <1>3, <1>4, UndefinedOne DEF Fetching, ScrollsOne
<1>5. CASE PriorInRange(hstmt)
  <2>1. FinishFetch(o.h, o.ret)
    BY <1>1, <1>3, <1>5 DEF FetchNextChunk
  <2>2. /\ Kept(o.h, hstmt)
        /\ IF q < -1 THEN o.ret = "NO_DATA" /\ OneAt(o.h, hstmt, -1, q)
                     ELSE o.ret = "SUCCESS" /\ OneAt(o.h, hstmt, q, q)
    BY <1>2, <1>3, PriorOne
  <2>3. HandleOK(o.h) /\ q \in Int
    BY <1>2, <1>5, SetPriorCurrentChunkOK
  <2>4. q < n - 1
    BY <1>2 DEF Placed
  <2>5. PosBar > 1 <=> ~(q < -1)
    BY <1>2 DEF Placed, PosAt
  <2>6. ~(q < -1) => PosBar - 1 = q + 2
    BY <1>2 DEF Placed, PosAt
  <2> HIDE DEF o, q, n
  <2>7. CASE q < -1
    <3>1. Placed(-1, q, n) /\ PosAt(-1, q) = 0
      BY <2>3, <2>7 DEF Placed, PosAt
    <3>2. PlaceInv' /\ None(PosAt(-1, q), "NO_DATA")
      BY <2>1, <2>2, <2>7, <3>1, FinishNoData DEF n
    <3> QED BY <1>2, <2>5, <2>7, <3>1, <3>2, SimulatesPrior
  <2>8. CASE ~(q < -1)
    <3>1. q >= -1
      BY <2>3, <2>8
    <3>2. PlaceInv' /\ (Gives(q + 2) \/ Simulated)
      BY <2>1, <2>2, <2>3, <2>4, <2>8, <3>1, FinishRow DEF n
    <3> QED BY <1>2, <2>5, <2>6, <2>8, <3>2, SimulatesPrior
  <2> QED BY <2>7, <2>8
<1> QED BY <1>4, <1>5

\* SQL_FETCH_FIRST, on an open result.
LEMMA FetchFirstSimulated ==
  ASSUME Fetching, FetchWith("FIRST")
  PROVE  PlaceInv' /\ Simulated
<1>1. PICK fails \in BOOLEAN :
        LET o == FetchNextChunk(hstmt, "FIRST", fails)
        IN IF "FIRST" = "PRIOR" /\ ~hstmt.forward_only /\ ~PriorInRange(hstmt)
             THEN Undefined
             ELSE FinishFetch(o.h, o.ret)
  BY DEF FetchWith
<1> DEFINE o == SetFirstCurrentChunk(hstmt, fails)
           q == -1
<1>2. /\ RowsBar = hstmt.res.sizes[1] /\ RowsBar \in Nat \ {0}
      /\ OneChunkHeld(hstmt) /\ HandleOK(hstmt) /\ ~hstmt.forward_only
  BY OpenBars DEF Scrollable
<1>3. FinishFetch(o.h, o.ret)
  BY <1>1, <1>2 DEF FetchNextChunk
<1>4. o.ret = "SUCCESS" /\ Kept(o.h, hstmt) /\ OneAt(o.h, hstmt, -1, -1)
  BY <1>2, FirstOne
<1>5. HandleOK(o.h)
  BY <1>2, SetFirstCurrentChunkOK DEF OneChunkHeld
<1> HIDE DEF o
<1>6. q \in Int /\ q >= -1 /\ q < hstmt.res.sizes[1] - 1 /\ q + 2 = 1
  BY <1>2
<1>7. OneAt(o.h, hstmt, q, q)
  BY <1>4
<1> HIDE DEF q
<1>8. PlaceInv' /\ (Gives(q + 2) \/ Simulated)
  BY <1>3, <1>4, <1>5, <1>6, <1>7, FinishRow
<1> QED BY <1>2, <1>6, <1>8, SimulatesFirst

\* A fetch on a result that is no longer open changes nothing.
LEMMA ClosedFetch ==
  ASSUME PlaceInv, cursor, ~hstmt.open, NEW r \in {"ERROR", "NO_DATA"}, Return(hstmt, r, NoRows)
  PROVE  PlaceInv' /\ Simulated
<1>1. ~HasRows(NoRows)
  BY DEF NoRows, HasRows
<1>2. PlaceInv' /\ ret' = r /\ RowsBar' = -1 /\ PosBar' = 0 /\ RowBar' = 0
  BY <1>1, ReturnOne DEF PlaceInv
<1> QED BY <1>2, ClosedBars, SimulatesIdle

\* SQLFetch and SQLFetchScroll but for SQL_FETCH_ABSOLUTE.
LEMMA FetchesSimulated ==
  ASSUME ScrollsOne, SQLFetch \/ SQLFetchNext \/ SQLFetchPrior \/ SQLFetchFirst
  PROVE  PlaceInv' /\ Simulated
<1>1. cursor /\ call = "idle" /\ PlaceInv
  BY DEF SQLFetch, SQLFetchNext, SQLFetchPrior, SQLFetchFirst, SQLFetchScroll, Calling,
         ScrollsOne
<1>2. hstmt.open => Fetching /\ ~HasError(hstmt)
  BY <1>1 DEF Fetching, PlaceInv, OneChunkHeld, HasError
<1>3. CASE SQLFetch
  <2>1. hstmt.retrieve_data
    BY <1>1, <1>3 DEF SQLFetch, Calling, PlaceInv, Scrollable
  <2>2. CASE hstmt.open
    BY <1>2, <1>3, <2>1, <2>2, FetchNextSimulated DEF SQLFetch
  <2>3. CASE ~hstmt.open
    <3>1. Return(hstmt, "NO_DATA", NoRows)
      BY <1>3, <2>1, <2>3 DEF SQLFetch
    <3> QED BY <1>1, <2>3, <3>1, ClosedFetch
  <2> QED BY <2>2, <2>3
<1>4. CASE (SQLFetchNext \/ SQLFetchPrior \/ SQLFetchFirst) /\ hstmt.open
  <2>1. FetchWith("NEXT") \/ FetchWith("PRIOR") \/ FetchWith("FIRST")
    BY <1>2, <1>4 DEF SQLFetchNext, SQLFetchPrior, SQLFetchFirst, SQLFetchScroll
  <2> QED BY <1>2, <1>4, <2>1, FetchNextSimulated, FetchPriorSimulated, FetchFirstSimulated
<1>5. CASE (SQLFetchNext \/ SQLFetchPrior \/ SQLFetchFirst) /\ ~hstmt.open
  <2>1. Return(hstmt, IF HasError(hstmt) THEN "ERROR" ELSE "NO_DATA", NoRows)
    BY <1>5 DEF SQLFetchNext, SQLFetchPrior, SQLFetchFirst, SQLFetchScroll
  <2> QED BY <1>1, <1>5, <2>1, ClosedFetch
<1> QED BY <1>3, <1>4, <1>5

\* SQL_FETCH_ABSOLUTE: entering its recursion moves nothing.
LEMMA SQLFetchAbsoluteSimulated ==
  ASSUME ScrollsOne, NEW offset \in Offsets, SQLFetchAbsolute(offset)
  PROVE  PlaceInv' /\ Simulated
<1>1. cursor /\ call = "idle" /\ PlaceInv /\ ~hstmt.forward_only /\ offset \in Int
  BY OffsetsAssumption DEF SQLFetchAbsolute, SQLFetchScroll, Calling, ScrollsOne, PlaceInv,
                           Scrollable
<1>2. hstmt.open => ~HasError(hstmt)
  BY <1>1 DEF PlaceInv, OneChunkHeld, HasError
<1>3. CASE hstmt.open
  <2>1. /\ call' = "absolute" /\ loop' = [NoLoop EXCEPT !.offset = offset - 1]
        /\ UNCHANGED <<hstmt, cursor, ret, tran, rowset, delivered, parts>>
    BY <1>1, <1>2, <1>3 DEF SQLFetchAbsolute, SQLFetchScroll, EnterAbsolute
  <2>2. loop'.offset + 1 = offset
    <3>1. loop'.offset = offset - 1
      BY <2>1 DEF NoLoop
    <3> QED BY <1>1, <3>1
  <2>3. PlaceInv'
    BY <1>1, <1>3, <2>1, <2>2 DEF PlaceInv, Scrollable, OneChunkHeld, Placed
  <2>4. RowsBar' = RowsBar /\ PosBar' = PosBar /\ RowBar' = RowBar
    BY <1>1, <2>1 DEF RowsBar, PosBar, RowBar, ScrollPos, HasRows
  <2> QED BY <2>1, <2>3, <2>4, SimulatesNone
<1>4. CASE ~hstmt.open
  <2>1. Return(hstmt, IF HasError(hstmt) THEN "ERROR" ELSE "NO_DATA", NoRows)
    BY <1>4 DEF SQLFetchAbsolute, SQLFetchScroll
  <2> QED BY <1>1, <1>4, <2>1, ClosedFetch
<1> QED BY <1>3, <1>4

\* Its one level: the recursion is not entered again.
LEMMA AbsoluteStepSimulated ==
  ASSUME ScrollsOne, AbsoluteStep
  PROVE  PlaceInv' /\ Simulated
<1>1. /\ Fetching /\ loop.offset + 1 \in Offsets /\ loop.offset \in Int
  BY DEF AbsoluteStep, Fetching, ScrollsOne, PlaceInv, TypeInv, TypeOK
<1>2. PICK fails \in BOOLEAN, fails2 \in BOOLEAN :
       LET g == AbsoluteChunk(hstmt, fails)
           o == SetAbsoluteCurrentChunk(g, loop.offset, fails2)
       IN IF ~Readable(g) THEN Undefined
          ELSE IF o.ret = "AGAIN"
            THEN /\ hstmt' = o.h /\ loop' = [loop EXCEPT !.offset = o.offset]
                 /\ UNCHANGED <<cursor, call, ret, tran, rowset, delivered, parts>>
          ELSE FinishFetch(o.h, o.ret)
  BY DEF AbsoluteStep
<1> DEFINE offset == loop.offset
           o == SetAbsoluteCurrentChunk(hstmt, offset, fails2)
           n == hstmt.res.sizes[1]
           q == offset - 1
<1>3. /\ RowsBar = n /\ n \in Nat \ {0}
      /\ PosBar = PosAt(hstmt.chunk_row, hstmt.prior_chunk_row)
      /\ OneChunkHeld(hstmt) /\ HandleOK(hstmt)
      /\ Placed(hstmt.chunk_row, hstmt.prior_chunk_row, n)
  BY <1>1, OpenBars
<1>4. AbsoluteChunk(hstmt, fails) = hstmt /\ Readable(hstmt)
  <2>1. Readable(hstmt) /\ hstmt.chunks # << >> /\ hstmt.current_chunk # NoChunk
    BY <1>1, <1>3, OneSize DEF OneChunkHeld, NoChunk, Fetching, ScrollsOne
  <2> QED BY <2>1 DEF AbsoluteChunk
<1>5. IF o.ret = "AGAIN"
        THEN /\ hstmt' = o.h /\ loop' = [loop EXCEPT !.offset = o.offset]
             /\ UNCHANGED <<cursor, call, ret, tran, rowset, delivered, parts>>
        ELSE FinishFetch(o.h, o.ret)
  BY <1>2, <1>4
<1>6. /\ Kept(o.h, hstmt) /\ offset >= 0 /\ offset # n
      /\ offset = 0 => o.ret = "BEFORE_START" /\ OneAt(o.h, hstmt, -1, -1)
      /\ offset > 0 /\ offset < n => o.ret = "SUCCESS" /\ OneAt(o.h, hstmt, q, q)
      /\ offset > n =>
           \/ o.ret = "ERROR" /\ ~o.h.open
           \/ /\ o.ret = "NO_DATA"
              /\ OneAt(o.h, hstmt, hstmt.chunk_row, hstmt.prior_chunk_row)
  BY <1>1, <1>3, AbsoluteOne DEF Fetching, ScrollsOne
<1>7. HandleOK(o.h)
  BY <1>1, <1>3, <1>4, SetAbsoluteCurrentChunkOK DEF OneChunkHeld
<1>8. offset \in Int /\ offset + 1 \in Offsets /\ q \in Int
  BY <1>1
<1>9. q + 2 = offset + 1 /\ (offset > 0 => q >= -1) /\ (offset < n => q < n - 1)
  BY <1>3, <1>8
<1> HIDE DEF o, n, q, offset
<1>10. offset + 1 \in Nat \ {0}
  BY <1>6, <1>8
<1>11. CASE offset = 0
  <2>1. PlaceInv' /\ None(0, "SUCCESS")
    BY <1>1, <1>5, <1>6, <1>11, FinishStart
  <2>2. offset + 1 = 1 /\ ~(offset + 1 > 1)
    BY <1>11
  <2> QED BY <1>3, <1>8, <1>10, <2>1, <2>2, SimulatesAbsolute
<1>12. CASE offset > 0 /\ offset < n
  <2>1. PlaceInv' /\ (Gives(offset + 1) \/ Simulated)
    BY <1>1, <1>5, <1>6, <1>7, <1>8, <1>9, <1>12, FinishRow DEF n
  <2>2. offset + 1 # 1 /\ offset + 1 <= RowsBar /\ ~(offset + 1 > RowsBar)
    BY <1>3, <1>8, <1>12
  <2> QED BY <1>3, <1>8, <1>10, <2>1, <2>2, SimulatesAbsolute
<1>13. CASE offset > n /\ o.ret = "ERROR"
  BY <1>1, <1>5, <1>6, <1>13, FinishError
<1>14. CASE offset > n /\ o.ret = "NO_DATA"
  <2>1. PlaceInv' /\ None(PosBar, "NO_DATA")
    <3>1. OneAt(o.h, hstmt, hstmt.chunk_row, hstmt.prior_chunk_row)
      BY <1>6, <1>14
    <3> QED BY <1>1, <1>3, <1>5, <1>6, <1>14, <3>1, FinishNoData DEF n
  <2>2. offset + 1 # 1 /\ ~(offset + 1 <= RowsBar)
    BY <1>3, <1>8, <1>14
  <2> QED BY <1>3, <1>8, <1>10, <2>1, <2>2, SimulatesAbsolute
<1> QED BY <1>3, <1>6, <1>8, <1>11, <1>12, <1>13, <1>14

\* A call that changes the handle, but not where the cursor is.
LEMMA UnmovedSimulated ==
  ASSUME PlaceInv, NEW h, hstmt' = h, UNCHANGED <<cursor, call, loop, ret, rowset>>,
         Scrollable(h), h.open = hstmt.open, h.res.sizes = hstmt.res.sizes,
         h.chunk_row = hstmt.chunk_row, h.prior_chunk_row = hstmt.prior_chunk_row,
         OneChunkHeld(hstmt) => OneChunkHeld(h)
  PROVE  PlaceInv' /\ Simulated
<1>1. Scrollable(hstmt') /\ (cursor' /\ hstmt'.open => OneChunkHeld(hstmt'))
  BY DEF PlaceInv
<1>2. PlaceInv'
  BY <1>1 DEF PlaceInv, Scrollable, OneChunkHeld, Placed
<1>3. RowsBar' = RowsBar /\ PosBar' = PosBar /\ RowBar' = RowBar
  BY DEF RowsBar, PosBar, RowBar, ScrollPos, HasRows
<1> QED BY <1>2, <1>3, SimulatesNone

\* SQLGetData does not move the cursor.
LEMMA SQLGetDataSimulated ==
  ASSUME ScrollsOne, NEW col \in {2, 3}, NEW buf \in BufLens, SQLGetData(col, buf)
  PROVE  PlaceInv' /\ Simulated
<1> DEFINE stray == ~(Readable(hstmt) /\ hstmt.chunk_row \in 0 .. ChunkSize(hstmt) - 1)
           v == GetVariableValue(hstmt, col, ValLen, buf)
<1>0. call = "idle" /\ PlaceInv /\ HandleOK(hstmt) /\ Scrollable(hstmt)
  BY DEF SQLGetData, Calling, ScrollsOne, TypeInv, PlaceInv
<1>1. CASE stray
  <2>1. Undefined
    BY <1>1 DEF SQLGetData
  <2> QED BY <1>0, <2>1, UndefinedOne
<1>2. CASE ~stray
  <2>1. hstmt' = v.h /\ UNCHANGED <<cursor, call, loop, ret, rowset>>
    BY <1>2 DEF SQLGetData
  <2>2. Rowed(v.h, hstmt) /\ v.h.chunk_row = hstmt.chunk_row
    <3>1. buf \in Buffers /\ col \in Nat
      BY LengthsAssumption DEF Buffers
    <3> QED BY <1>0, <3>1, ValueRowed
  <2> DEFINE h == v.h
  <2> HIDE DEF v
  <2>3. /\ Scrollable(h) /\ h.open = hstmt.open /\ h.res.sizes = hstmt.res.sizes
        /\ h.prior_chunk_row = hstmt.prior_chunk_row
        /\ OneChunkHeld(hstmt) => OneChunkHeld(h)
    BY <1>0, <2>2 DEF Rowed, Scrollable, OneChunkHeld
  <2> QED BY <1>0, <2>1, <2>2, <2>3, UnmovedSimulated
<1> QED BY <1>1, <1>2

\* A call that prepares, executes or closes.
LEMMA RestartSimulated ==
  ASSUME call = "idle", NEW h, NEW r \in {"SUCCESS", "ERROR"}, NEW open \in BOOLEAN,
         Scrollable(h), Restart(h, r, open),
         open => /\ r = "SUCCESS" /\ ~cursor /\ h.open /\ OneChunkHeld(h)
                 /\ h.chunk_row = -1 /\ h.prior_chunk_row = -1
  PROVE  PlaceInv' /\ Simulated
<1>1. /\ hstmt' = h /\ cursor' = open /\ rowset' = NoRows /\ ret' = r /\ call' = "idle"
  BY DEF Restart
<1>2. Placed(-1, -1, h.res.sizes[1])
  BY DEF Placed
<1>3. PlaceInv'
  BY <1>1, <1>2 DEF PlaceInv, Scrollable, OneChunkHeld, Placed
<1>4. RowBar' = 0
  BY <1>1 DEF RowBar, HasRows, NoRows
<1>5. CASE open
  <2>1. RowsBar = -1
    BY <1>5, ClosedBars
  <2>2. RowsBar' = h.res.sizes[1] /\ PosBar' = 0 /\ h.res.sizes \in Results
    BY <1>1, <1>5 DEF RowsBar, PosBar, ScrollPos, OneChunkHeld
  <2> QED BY <1>1, <1>3, <1>4, <1>5, <2>1, <2>2, SimulatesOpen
<1>6. CASE ~open
  <2>1. RowsBar' = -1 /\ PosBar' = 0
    BY <1>1, <1>6 DEF RowsBar, PosBar
  <2> QED BY <1>1, <1>3, <1>4, <2>1, SimulatesShut
<1> QED BY <1>5, <1>6

\* An execution of handle k.
LEMMA ExecuteSimulated ==
  ASSUME OneRowScroll, call = "idle", ~cursor, NEW k, HandleOK(k), Scrollable(k),
         NEW sizes \in Results, NEW fails \in BOOLEAN, NEW fetchFails \in BOOLEAN,
         LET o == BatchExecuteStmt(k, sizes, fails, fetchFails)
         IN Restart(o.h, o.ret, o.ret = "SUCCESS")
  PROVE  PlaceInv' /\ Simulated
<1> DEFINE o == BatchExecuteStmt(k, sizes, fails, fetchFails)
           open == o.ret = "SUCCESS"
<1>1. Restart(o.h, o.ret, open)
  OBVIOUS
<1>2. o.ret \in {"SUCCESS", "ERROR"}
  BY BatchExecuteStmtOK
<1>3. /\ Scrollable(o.h)
      /\ open => /\ o.h.open /\ OneChunkHeld(o.h)
                 /\ o.h.chunk_row = -1 /\ o.h.prior_chunk_row = -1
  BY ExecuteOne
<1>4. open \in BOOLEAN /\ (open => o.ret = "SUCCESS")
  OBVIOUS
<1> HIDE DEF o, open
<1> QED BY <1>1, <1>2, <1>3, <1>4, RestartSimulated

\* SQLPrepare, SQLExecute, SQLExecDirect and SQL_CLOSE.
LEMMA RestartActionsSimulated ==
  ASSUME ScrollsOne,
         \/ SQLPrepare \/ CloseStmt
         \/ \E sizes \in Results : SQLExecute(sizes) \/ SQLExecDirect(sizes)
  PROVE  PlaceInv' /\ Simulated
<1>0. HandleOK(hstmt) /\ Scrollable(hstmt) /\ call = "idle" /\ OneRowScroll
  BY DEF ScrollsOne, TypeInv, PlaceInv, SQLPrepare, CloseStmt, SQLExecute, SQLExecDirect,
         Calling
<1> DEFINE p == PrepareQuery(hstmt)
           f == FinalizeStmt(p)
<1>1. HandleOK(p) /\ Scrollable(p)
  BY <1>0, PrepareOK, OthersScrollable
<1>2. HandleOK(f) /\ Scrollable(f)
  <2> HIDE DEF p
  <2> QED BY <1>1, PrepareOK, OthersScrollable
<1>3. ASSUME NEW h, Scrollable(h), NEW r \in {"SUCCESS", "ERROR"}, Restart(h, r, FALSE)
      PROVE  PlaceInv' /\ Simulated
  BY <1>0, <1>3, RestartSimulated
<1> HIDE DEF p, f
<1>4. ASSUME SQLPrepare PROVE PlaceInv' /\ Simulated
  <2>1. Restart(f, "SUCCESS", FALSE) \/ Restart(p, "ERROR", FALSE)
    BY <1>4 DEF SQLPrepare, p, f
  <2> QED BY <1>1, <1>2, <1>3, <2>1
<1>5. ASSUME CloseStmt PROVE PlaceInv' /\ Simulated
  <2> DEFINE g == [ClearChunks(hstmt) EXCEPT !.open = FALSE, !.res = NoResult]
  <2>1. Restart(g, "SUCCESS", FALSE)
    BY <1>5 DEF CloseStmt
  <2>2. Scrollable(g)
    BY <1>0, OthersScrollable
  <2> HIDE DEF g
  <2> QED BY <1>3, <2>1, <2>2
<1>6. ASSUME NEW sizes \in Results, SQLExecute(sizes) PROVE PlaceInv' /\ Simulated
  <2>1. PICK fails \in BOOLEAN, fetchFails \in BOOLEAN :
          LET o == BatchExecuteStmt(hstmt, sizes, fails, fetchFails)
          IN Restart(o.h, o.ret, o.ret = "SUCCESS")
    BY <1>6 DEF SQLExecute
  <2>2. ~cursor
    BY <1>6 DEF SQLExecute
  <2> QED BY <1>0, <2>1, <2>2, ExecuteSimulated
<1>7. ASSUME NEW sizes \in Results, SQLExecDirect(sizes) PROVE PlaceInv' /\ Simulated
  <2>1. PICK earlier \in BOOLEAN, unprepared \in BOOLEAN, fails \in BOOLEAN,
             fetchFails \in BOOLEAN :
       LET k == IF earlier
                  THEN CloseStream(BatchExecuteStmt(f, sizes, FALSE, FALSE).h)
                  ELSE p
           o == BatchExecuteStmt(FinalizeStmt(k), sizes, fails, fetchFails)
       IN IF unprepared
            THEN Restart([k EXCEPT !.prepared = FALSE], "ERROR", FALSE)
            ELSE Restart(o.h, o.ret, o.ret = "SUCCESS")
    BY <1>7 DEF SQLExecDirect, p, f
  <2> DEFINE e == BatchExecuteStmt(f, sizes, FALSE, FALSE).h
             s == CloseStream(e)
             k == IF earlier THEN s ELSE p
             m == FinalizeStmt(k)
             u == [k EXCEPT !.prepared = FALSE]
  <2>2. HandleOK(e) /\ Scrollable(e)
    <3>1. FALSE \in BOOLEAN
      OBVIOUS
    <3> QED BY <1>0, <1>2, <3>1, BatchExecuteStmtOK, ExecuteOne
  <2>3. HandleOK(s) /\ Scrollable(s)
    <3> HIDE DEF e
    <3>1. Kept(s, e) /\ HandleOK(s)
      BY <2>2, CloseStreamOne, CloseStreamOK
    <3> HIDE DEF s
    <3> QED BY <2>2, <3>1, KeptScrollable
  <2>4. IF unprepared THEN Restart(u, "ERROR", FALSE)
        ELSE LET o == BatchExecuteStmt(m, sizes, fails, fetchFails)
             IN Restart(o.h, o.ret, o.ret = "SUCCESS")
    BY <2>1
  <2> HIDE DEF s
  <2>5. HandleOK(k) /\ Scrollable(k)
    BY <1>1, <2>3
  <2> HIDE DEF k
  <2>6. HandleOK(m) /\ Scrollable(m) /\ Scrollable(u)
    BY <2>5, PrepareOK, OthersScrollable
  <2>7. ~cursor
    BY <1>7 DEF SQLExecDirect
  <2> HIDE DEF m, u
  <2>8. CASE unprepared
    BY <1>3, <2>4, <2>6, <2>8
  <2>9. CASE ~unprepared
    BY <1>0, <2>4, <2>6, <2>7, <2>9, ExecuteSimulated
  <2> QED BY <2>8, <2>9
<1> QED BY <1>4, <1>5, <1>6, <1>7

\* Attributes, a rollback, and another query of the connection.
LEMMA ConfigureActionsSimulated ==
  ASSUME ScrollsOne,
         \/ \E kind \in {"fixed", "variable"} : SQLBindCol(kind)
         \/ Unbind
         \/ \E n \in ArraySizes : SetArraySize(n)
         \/ \E fwd \in CursorTypes : SetCursorType(fwd)
         \/ \E b \in BOOLEAN : SetBindType(b) \/ SetRetrieveData(b)
         \/ SQLEndTranRollback \/ OtherQuery
  PROVE  PlaceInv' /\ Simulated
<1>0. /\ hstmt \in HandleSet /\ HandleOK(hstmt) /\ Scrollable(hstmt) /\ PlaceInv
      /\ OneRowScroll
  BY DEF ScrollsOne, TypeInv, HandleOK, PlaceInv
<1>1. ASSUME NEW g, Stays(g, hstmt), g.res = hstmt.res, g.open = hstmt.open, Scrollable(g),
             NEW c, Configure(c, g)
      PROVE  PlaceInv' /\ Simulated
  <2>1. hstmt' = g /\ UNCHANGED <<cursor, call, loop, ret, rowset>>
    BY <1>1 DEF Configure
  <2>2. /\ g.res.sizes = hstmt.res.sizes /\ g.chunk_row = hstmt.chunk_row
        /\ g.prior_chunk_row = hstmt.prior_chunk_row
        /\ OneChunkHeld(hstmt) => OneChunkHeld(g)
    BY <1>1 DEF Stays, OneChunkHeld
  <2> QED BY <1>0, <1>1, <2>1, <2>2, UnmovedSimulated
<1>2. ASSUME NEW kind \in {"fixed", "variable"}, SQLBindCol(kind) PROVE FALSE
  BY <1>0, <1>2 DEF SQLBindCol, Configure, Calling, OneRowScroll
<1>3. ASSUME Unbind PROVE PlaceInv' /\ Simulated
  <2> DEFINE g == [hstmt EXCEPT !.cols = "none", !.bound_size = 0]
  <2>1. Configure("unbind", g)
    BY <1>3 DEF Unbind
  <2>2. Stays(g, hstmt) /\ g.res = hstmt.res /\ g.open = hstmt.open /\ Scrollable(g)
    BY <1>0 DEF HandleSet, Stays, Scrollable
  <2> HIDE DEF g
  <2> QED BY <1>1, <2>1, <2>2
<1>4. ASSUME NEW n \in ArraySizes, SetArraySize(n) PROVE PlaceInv' /\ Simulated
  <2> DEFINE g == [hstmt EXCEPT !.array_size = n]
  <2>1. Configure("array_size", g)
    BY <1>4 DEF SetArraySize
  <2>2. Stays(g, hstmt) /\ g.res = hstmt.res /\ g.open = hstmt.open /\ Scrollable(g)
    BY <1>0, <1>4 DEF HandleSet, Stays, Scrollable, OneRowScroll
  <2> HIDE DEF g
  <2> QED BY <1>1, <2>1, <2>2
<1>5. ASSUME NEW fwd \in CursorTypes, SetCursorType(fwd) PROVE PlaceInv' /\ Simulated
  <2> DEFINE g == [hstmt EXCEPT !.forward_only = fwd]
  <2>1. Configure("cursor_type", g)
    BY <1>5 DEF SetCursorType
  <2>2. Stays(g, hstmt) /\ g.res = hstmt.res /\ g.open = hstmt.open /\ Scrollable(g)
    BY <1>0, <1>5 DEF HandleSet, Stays, Scrollable, OneRowScroll
  <2> HIDE DEF g
  <2> QED BY <1>1, <2>1, <2>2
<1>6. ASSUME NEW b \in BOOLEAN, SetBindType(b) PROVE PlaceInv' /\ Simulated
  <2> DEFINE f == hstmt.by_column /\ b
             g == [hstmt EXCEPT !.by_column = f]
  <2>1. Configure("bind_type", g)
    BY <1>6 DEF SetBindType
  <2> HIDE DEF f
  <2>2. Stays(g, hstmt) /\ g.res = hstmt.res /\ g.open = hstmt.open /\ Scrollable(g)
    BY <1>0 DEF HandleSet, Stays, Scrollable
  <2> HIDE DEF g
  <2> QED BY <1>1, <2>1, <2>2
<1>7. ASSUME NEW b \in BOOLEAN, SetRetrieveData(b) PROVE PlaceInv' /\ Simulated
  <2> DEFINE g == [hstmt EXCEPT !.retrieve_data = b]
  <2>1. Configure("retrieve_data", g) /\ "fetch" \notin Calls
    BY <1>0, <1>7 DEF SetRetrieveData, Configure, Calling, OneRowScroll
  <2>2. Stays(g, hstmt) /\ g.res = hstmt.res /\ g.open = hstmt.open /\ Scrollable(g)
    BY <1>0, <2>1 DEF HandleSet, Stays, Scrollable
  <2> HIDE DEF g
  <2> QED BY <1>1, <2>1, <2>2
<1>8. ASSUME SQLEndTranRollback \/ OtherQuery PROVE PlaceInv' /\ Simulated
  <2> DEFINE g == CloseStream(hstmt)
  <2>1. /\ Kept(g, hstmt) /\ g.open = hstmt.open /\ g.res.sizes = hstmt.res.sizes
        /\ g.chunk_row = hstmt.chunk_row /\ g.prior_chunk_row = hstmt.prior_chunk_row
        /\ OneChunkHeld(hstmt) => OneChunkHeld(g)
    BY <1>0, CloseStreamOne
  <2>2. hstmt' = g /\ UNCHANGED <<cursor, call, loop, ret, rowset>>
    BY <1>8 DEF SQLEndTranRollback, OtherQuery, Configure
  <2> HIDE DEF g
  <2>3. Scrollable(g)
    BY <1>0, <2>1, KeptScrollable
  <2> QED BY <1>0, <2>1, <2>2, <2>3, UnmovedSimulated
<1> QED BY <1>2, <1>3, <1>4, <1>5, <1>6, <1>7, <1>8

\* SQLEndTran(SQL_COMMIT) saves the position.
LEMMA CommitSimulated ==
  ASSUME ScrollsOne, SQLEndTranCommit
  PROVE  PlaceInv' /\ Simulated
<1>0. /\ call = "idle" /\ PlaceInv /\ UNCHANGED <<hstmt, cursor, ret, rowset>>
  BY DEF SQLEndTranCommit, Calling, ScrollsOne
<1>1. CASE UNCHANGED <<call, loop>>
  BY <1>0, <1>1, UnmovedSimulated DEF PlaceInv
<1>2. CASE /\ call' = "materialize"
           /\ loop' = [NoLoop EXCEPT !.chunk = hstmt.current_chunk,
                                     !.idx = hstmt.current_chunk_idx,
                                     !.row = hstmt.chunk_row,
                                     !.prior = hstmt.prior_chunk_row]
  <2>1. /\ loop'.chunk = hstmt.current_chunk /\ loop'.idx = hstmt.current_chunk_idx
        /\ loop'.row = hstmt.chunk_row /\ loop'.prior = hstmt.prior_chunk_row
    BY <1>2 DEF NoLoop
  <2>2. PlaceInv'
    BY <1>0, <1>2, <2>1 DEF PlaceInv, Scrollable, OneChunkHeld, Placed
  <2>3. RowsBar' = RowsBar /\ PosBar' = PosBar /\ RowBar' = RowBar
    BY <1>0, <1>2, <2>1 DEF RowsBar, PosBar, RowBar, ScrollPos, HasRows
  <2> QED BY <1>0, <2>2, <2>3, SimulatesNone
<1> QED BY <1>1, <1>2 DEF SQLEndTranCommit

\* Restoring the position Materialize has saved.
LEMMA RestoreOne ==
  ASSUME NEW h, HandleOK(h), PlaceInv
  PROVE  /\ Kept(Restore(h), h)
         /\ loop.chunk = 1 /\ loop.idx = 0 /\ OneChunkHeld(h) =>
              OneAt(Restore(h), h, loop.row, loop.prior)
<1> DEFINE g == [h EXCEPT !.current_chunk = loop.chunk, !.current_chunk_idx = loop.idx,
                          !.chunk_row = loop.row, !.prior_chunk_row = loop.prior]
<1>0. h \in HandleSet
  BY DEF HandleOK
<1>1. CASE loop.chunk # NoChunk
  <2>1. Restore(h) = g
    BY <1>1 DEF Restore
  <2>2. /\ g.forward_only = h.forward_only /\ g.array_size = h.array_size
        /\ g.cols = h.cols /\ g.retrieve_data = h.retrieve_data /\ g.open = h.open
        /\ g.chunks = h.chunks /\ g.current_chunk = loop.chunk /\ g.res = h.res
        /\ g.current_chunk_idx = loop.idx /\ g.chunk_row = loop.row
        /\ g.prior_chunk_row = loop.prior
    BY <1>0 DEF HandleSet
  <2> HIDE DEF g
  <2>3. /\ Kept(g, h)
        /\ loop.chunk = 1 /\ loop.idx = 0 /\ OneChunkHeld(h) =>
             OneAt(g, h, loop.row, loop.prior)
    BY <2>2 DEF Kept, OneAt, OneChunkHeld
  <2> QED BY <2>1, <2>3
<1>2. CASE loop.chunk = NoChunk
  <2>1. Restore(h) = BeforeStart(h).h
    BY <1>2 DEF Restore
  <2>2. loop.chunk # 1
    BY <1>2 DEF NoChunk
  <2> QED BY <2>1, <2>2, BeforeStartKept
<1> QED BY <1>1, <1>2

\* An iteration of Materialize leaves the cursor where the commit has found it, or
\* fails and closes the result.
LEMMA MaterializeSimulated ==
  ASSUME ScrollsOne, MaterializeStep
  PROVE  PlaceInv' /\ Simulated
<1>0. /\ call = "materialize" /\ PlaceInv /\ HandleOK(hstmt) /\ hstmt.res.pos \in Nat
      /\ Scrollable(hstmt) /\ OneRowScroll /\ UNCHANGED <<cursor, ret, rowset>>
  BY DEF MaterializeStep, ScrollsOne, TypeInv, PlaceInv
<1>1. PICK fails \in BOOLEAN :
       LET o == FetchNext(hstmt, fails)
       IN IF Succeeded(o.ret)
            THEN hstmt' = o.h /\ UNCHANGED <<call, loop, tran>>
            ELSE /\ hstmt' = Restore(o.h)
                 /\ tran' = IF o.ret = "NO_DATA" THEN "SUCCESS" ELSE "ERROR"
                 /\ call' = "idle" /\ loop' = NoLoop
  BY DEF MaterializeStep
<1> DEFINE o == FetchNext(hstmt, fails)
<1>2. Kept(o.h, hstmt) /\ HandleOK(o.h)
  BY <1>0, FetchNextKept, FetchNextOK
<1>3. \/ Succeeded(o.ret) /\ hstmt' = o.h /\ UNCHANGED <<call, loop>>
      \/ ~Succeeded(o.ret) /\ hstmt' = Restore(o.h) /\ call' = "idle"
  BY <1>1
<1>4. cursor /\ hstmt.open =>
        /\ OneChunkHeld(hstmt) /\ loop.chunk = 1 /\ loop.idx = 0
        /\ Placed(loop.row, loop.prior, hstmt.res.sizes[1])
        /\ IF hstmt.resultset_end
             THEN o.ret = "SUCCESS" /\ OneAt(o.h, hstmt, -1, -1)
             ELSE \/ o.ret = "ERROR" /\ ~o.h.open
                  \/ /\ o.ret = "NO_DATA"
                     /\ OneAt(o.h, hstmt, hstmt.chunk_row, hstmt.prior_chunk_row)
  BY <1>0, FetchNextOne DEF PlaceInv
<1> HIDE DEF o
<1>5. Kept(Restore(o.h), o.h)
  BY <1>0, <1>2, RestoreOne
<1>6. Kept(Restore(o.h), hstmt)
  BY <1>2, <1>5, KeptTwice
<1>7. Kept(hstmt', hstmt)
  BY <1>2, <1>3, <1>6
<1>8. Scrollable(hstmt')
  BY <1>0, <1>7 DEF Kept, Scrollable
<1>9. RowBar' = RowBar
  BY <1>0 DEF RowBar, HasRows
<1>10. CASE ~(cursor' /\ hstmt'.open)
  <2>1. PlaceInv'
    BY <1>0, <1>3, <1>8, <1>10 DEF PlaceInv, Scrollable
  <2>2. RowsBar' = -1 /\ PosBar' = 0
    BY <1>10 DEF RowsBar, PosBar, ScrollPos
  <2> QED BY <1>0, <1>9, <2>1, <2>2, SimulatesShut
<1>11. CASE cursor' /\ hstmt'.open
  <2>1. cursor /\ hstmt.open
    BY <1>0, <1>7, <1>11 DEF Kept
  <2>2. CASE Succeeded(o.ret)
    <3>1. hstmt' = o.h /\ UNCHANGED <<call, loop>> /\ OneAt(o.h, hstmt, -1, -1)
      BY <1>3, <1>4, <2>1, <2>2 DEF Succeeded
    <3>2. OneChunkHeld(hstmt') /\ hstmt'.res.sizes = hstmt.res.sizes
      BY <3>1 DEF OneAt
    <3>3. PlaceInv'
      BY <1>0, <1>4, <1>8, <2>1, <3>1, <3>2 DEF PlaceInv, Scrollable, OneChunkHeld, Placed
    <3>4. RowsBar' = RowsBar /\ PosBar' = PosBar
      BY <1>0, <1>11, <2>1, <3>1, <3>2 DEF RowsBar, PosBar, ScrollPos
    <3> QED BY <1>0, <1>9, <3>3, <3>4, SimulatesNone
  <2>3. CASE ~Succeeded(o.ret)
    <3>1. hstmt' = Restore(o.h) /\ call' = "idle"
      BY <1>3, <2>3
    <3>2. o.h.open
      BY <1>5, <1>11, <3>1 DEF Kept
    <3>3. OneAt(o.h, hstmt, hstmt.chunk_row, hstmt.prior_chunk_row)
      BY <1>4, <2>1, <2>3, <3>2 DEF Succeeded
    <3>4. OneAt(Restore(o.h), o.h, loop.row, loop.prior)
      BY <1>0, <1>2, <1>4, <2>1, <3>3, RestoreOne DEF OneAt
    <3>5. /\ OneChunkHeld(hstmt') /\ hstmt'.res.sizes = hstmt.res.sizes
          /\ hstmt'.chunk_row = loop.row /\ hstmt'.prior_chunk_row = loop.prior
      BY <3>1, <3>3, <3>4 DEF OneAt
    <3>6. PlaceInv'
      BY <1>4, <1>8, <2>1, <3>1, <3>5 DEF PlaceInv, Scrollable, OneChunkHeld, Placed
    <3>7. RowsBar' = RowsBar /\ PosBar' = PosBar
      BY <1>0, <1>11, <2>1, <3>1, <3>5 DEF RowsBar, PosBar, ScrollPos
    <3> QED BY <1>0, <1>9, <3>6, <3>7, SimulatesNone
  <2> QED BY <2>2, <2>3
<1> QED BY <1>10, <1>11

\* Initially no result is open.
LEMMA PlaceInit ==
  ASSUME OneRowScroll, Init
  PROVE  PlaceInv /\ Scroll!Init
<1>1. PICK fwd \in CursorTypes : hstmt = [NewHandle EXCEPT !.forward_only = fwd]
  BY DEF Init
<1>2. ~fwd /\ cursor = FALSE /\ call = "idle" /\ rowset = NoRows /\ ret = "SUCCESS"
  BY DEF Init, OneRowScroll
<1>3. /\ hstmt.forward_only = fwd /\ hstmt.array_size = 1 /\ hstmt.cols = "none"
      /\ hstmt.retrieve_data = TRUE
  BY <1>1 DEF NewHandle
<1>4. PlaceInv
  BY <1>2, <1>3 DEF PlaceInv, Scrollable
<1>5. Scroll!Init
  BY <1>2 DEF Scroll!Init, HasRows, NoRows
<1> QED BY <1>4, <1>5

\* Every call.
LEMMA PlaceNext ==
  ASSUME OneRowScroll, TypeInv, PlaceInv, [Next]_vars
  PROVE  PlaceInv' /\ Simulated
<1>0. ScrollsOne
  BY DEF ScrollsOne
<1>1. CASE UNCHANGED vars
  BY <1>1, UnmovedSimulated DEF vars, PlaceInv
<1>2. CASE \/ SQLPrepare \/ CloseStmt
           \/ \E sizes \in Results : SQLExecute(sizes) \/ SQLExecDirect(sizes)
  BY <1>0, <1>2, RestartActionsSimulated
<1>3. CASE SQLFetch \/ SQLFetchNext \/ SQLFetchPrior \/ SQLFetchFirst
  BY <1>0, <1>3, FetchesSimulated
<1>4. CASE \E offset \in Offsets : SQLFetchAbsolute(offset)
  BY <1>0, <1>4, SQLFetchAbsoluteSimulated
<1>5. CASE AbsoluteStep
  BY <1>0, <1>5, AbsoluteStepSimulated
<1>6. CASE \E col \in {2, 3}, buf \in BufLens : SQLGetData(col, buf)
  BY <1>0, <1>6, SQLGetDataSimulated
<1>7. CASE \/ \E kind \in {"fixed", "variable"} : SQLBindCol(kind)
           \/ Unbind
           \/ \E n \in ArraySizes : SetArraySize(n)
           \/ \E fwd \in CursorTypes : SetCursorType(fwd)
           \/ \E b \in BOOLEAN : SetBindType(b) \/ SetRetrieveData(b)
           \/ SQLEndTranRollback \/ OtherQuery
  BY <1>0, <1>7, ConfigureActionsSimulated
<1>8. CASE SQLEndTranCommit
  BY <1>0, <1>8, CommitSimulated
<1>9. CASE MaterializeStep
  BY <1>0, <1>9, MaterializeSimulated
<1> QED BY <1>1, <1>2, <1>3, <1>4, <1>5, <1>6, <1>7, <1>8, <1>9 DEF Next

\* The statement handle implements the cursor of ScrollCursor: with results of one chunk
\* of any size and rowsets of one row, every call is a move of that cursor or none, in
\* whatever order fetches in all directions, commits, rollbacks and failures come.
THEOREM ScrollRefinement ==
  ASSUME OneRowScroll
  PROVE  Spec => ImplementsScrollCursor
<1>1. Init => PlaceInv /\ Scroll!Init
  BY PlaceInit
<1>2. TypeInv /\ PlaceInv /\ [Next]_vars => PlaceInv' /\ [Scroll!Next]_(Scroll!vars)
  BY PlaceNext DEF Simulated
<1> QED BY <1>1, <1>2, TypeInvariance, PTL DEF Spec, ImplementsScrollCursor, Scroll!Spec
============================================================================
