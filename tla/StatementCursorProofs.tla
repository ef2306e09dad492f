----------------------- MODULE StatementCursorProofs -----------------------
(***************************************************************************)
(* Proofs about StatementCursor, for every value of its constants.         *)
(***************************************************************************)
EXTENDS StatementCursor, TLAPS

\* What keeps a handle well typed: the stream position and the chunks held lie
\* within the result.
HandleOK(h) ==
  /\ h \in HandleSet
  /\ h.res.pos <= Len(h.res.sizes)
  /\ \A i \in 1..Len(h.chunks) : h.chunks[i] \in 1..Len(h.res.sizes)

\* The types of the fields of a handle.
LEMMA Fields ==
  ASSUME NEW h \in HandleSet
  PROVE  /\ h.chunks \in Seq(Nat \ {0})
         /\ h.current_chunk \in Nat /\ h.current_chunk_idx \in Nat
         /\ h.chunk_row \in Int /\ h.prior_chunk_row \in Int /\ h.row_count \in Int
         /\ h.last \in LastVals /\ h.res \in ResultSet
         /\ h.bound_size \in Nat /\ h.array_size \in Nat \ {0}
         /\ h.resultset_end \in BOOLEAN /\ h.forward_only \in BOOLEAN /\ h.open \in BOOLEAN
<1>1. /\ h.chunks \in ChunkSeqs
      /\ h.current_chunk \in Counts /\ h.current_chunk_idx \in Counts
      /\ h.chunk_row \in Indexes /\ h.prior_chunk_row \in Indexes /\ h.row_count \in Indexes
      /\ h.last \in LastVals /\ h.res \in ResultSet
      /\ h.bound_size \in Counts /\ h.array_size \in Positives
      /\ h.resultset_end \in Flags /\ h.forward_only \in Flags /\ h.open \in Flags
  BY DEF HandleSet
<1> QED BY <1>1 DEF ChunkSeqs, Counts, Indexes, Positives, Flags

\* The chunk sizes of a result.
LEMMA Sizes ==
  ASSUME NEW h \in HandleSet
  PROVE  /\ h.res.sizes \in Seq(Nat \ {0})
         /\ \A c \in 1..Len(h.res.sizes) : h.res.sizes[c] \in Nat \ {0}
         /\ h.res.pos \in Int
<1>1. h.res \in ResultSet
  BY Fields
<1>2. h.res.sizes \in Results \cup {<< >>} /\ h.res.pos \in Int
  BY <1>1 DEF ResultSet
<1>3. << >> \in Seq(Nat \ {0})
  OBVIOUS
<1>4. h.res.sizes \in Seq(Nat \ {0})
  BY <1>2, <1>3, ResultsAssumption
<1> QED BY <1>2, <1>4

\* The constants a handle is reset to have the types of its fields.
LEMMA Basics ==
  /\ << >> \in ChunkSeqs /\ 0 \in Counts /\ -1 \in Indexes /\ 0 \in Indexes
  /\ TRUE \in Flags /\ FALSE \in Flags /\ NoChunk \in Counts
  /\ NoLast \in LastVals
BY DEF ChunkSeqs, Counts, Indexes, Flags, NoChunk, NoLast, LastVals

\* ClearChunks keeps a handle well typed and its result as it was.
LEMMA ClearChunksOK ==
  ASSUME NEW h \in HandleSet, h.res.pos <= Len(h.res.sizes)
  PROVE  HandleOK(ClearChunks(h)) /\ ClearChunks(h).res = h.res
<1>1. ClearChunks(h) \in HandleSet /\ ClearChunks(h).res = h.res
      /\ ClearChunks(h).chunks = << >>
  BY Basics DEF HandleSet, ClearChunks
<1> QED BY <1>1 DEF HandleOK

\* ResetLastFetchedVariableVal keeps a handle well typed.
LEMMA ResetOK ==
  ASSUME NEW h, HandleOK(h)
  PROVE  LET g == ResetLastFetchedVariableVal(h)
         IN HandleOK(g) /\ g.res = h.res /\ g.forward_only = h.forward_only
<1> DEFINE g == ResetLastFetchedVariableVal(h)
<1>1. g \in HandleSet /\ g.res = h.res /\ g.chunks = h.chunks /\ g.forward_only = h.forward_only
  BY Basics DEF HandleSet, HandleOK, ResetLastFetchedVariableVal
<1> QED BY <1>1 DEF HandleOK

\* SetCurrentChunk never leaves the vector of chunks, for either cursor type.
LEMMA SetCurrentChunkOK ==
  ASSUME NEW h, HandleOK(h)
  PROVE  LET o == SetCurrentChunk(h)
         IN /\ HandleOK(o.h) /\ o.h.res = h.res
            /\ o.ret \in {"SUCCESS", "NO_DATA"}
            /\ o.ret = "SUCCESS" => Readable(o.h)
<1>1. CASE h.chunks = << >>
  BY <1>1 DEF SetCurrentChunk, Outcome
<1>2. CASE h.chunks # << >>
  <2> DEFINE last == Len(h.chunks) - 1
             idx  == IF ~h.forward_only /\ h.current_chunk_idx < last
                       THEN h.current_chunk_idx + 1 ELSE last
             g == [h EXCEPT !.current_chunk_idx = idx,
                            !.current_chunk = h.chunks[idx + 1],
                            !.chunk_row = -1, !.prior_chunk_row = -1]
  <2>0. h \in HandleSet
    BY DEF HandleOK
  <2>1. h.chunks \in Seq(Nat \ {0}) /\ h.current_chunk_idx \in Nat
    BY <2>0, Fields
  <2>2. idx + 1 \in 1..Len(h.chunks) /\ idx \in Nat
    BY <2>1, <1>2
  <2>3. h.chunks[idx + 1] \in Counts /\ idx \in Counts
    BY <2>1, <2>2 DEF Counts
  <2> HIDE DEF idx
  <2>4. /\ g \in HandleSet /\ g.res = h.res /\ g.chunks = h.chunks
        /\ g.current_chunk = h.chunks[idx + 1]
    BY <2>0, <2>3, Basics DEF HandleSet
  <2>5. SetCurrentChunk(h) = Outcome(g, "SUCCESS")
    BY <1>2 DEF SetCurrentChunk, idx
  <2> HIDE DEF g
  <2>6. HandleOK(g) /\ Readable(g)
    BY <2>2, <2>4 DEF HandleOK, Readable, Held
  <2> QED BY <2>4, <2>5, <2>6 DEF Outcome
<1> QED BY <1>1, <1>2

\* The engine has a chunk left.
LEMMA KeepChunkOK ==
  ASSUME NEW h, HandleOK(h), h.res.pos \in Nat, h.res.pos # Len(h.res.sizes)
  PROVE  LET g == KeepChunk(h) IN HandleOK(g) /\ g.res.pos \in Nat
<1> DEFINE c   == h.res.pos + 1
           cs  == IF h.forward_only THEN << c >> ELSE Append(h.chunks, c)
           res == [h.res EXCEPT !.pos = c]
           g   == [h EXCEPT !.chunks = cs, !.res = res]
<1>0. h \in HandleSet
  BY DEF HandleOK
<1>1. h.chunks \in Seq(Nat \ {0}) /\ h.res \in ResultSet /\ h.forward_only \in BOOLEAN
  BY <1>0, Fields
<1>2. h.res.sizes \in Seq(Nat \ {0})
  BY <1>0, Sizes
<1>3. c \in 1..Len(h.res.sizes)
  BY <1>2 DEF HandleOK
<1>4. cs \in ChunkSeqs /\ \A i \in 1..Len(cs) : cs[i] \in 1..Len(h.res.sizes)
  <2>1. CASE h.forward_only
    BY <2>1, <1>3 DEF ChunkSeqs
  <2>2. CASE ~h.forward_only
    BY <2>2, <1>1, <1>3 DEF ChunkSeqs, HandleOK
  <2> QED BY <2>1, <2>2
<1>5. res \in ResultSet /\ res.sizes = h.res.sizes /\ res.pos = c
  BY <1>1, <1>3 DEF ResultSet
<1> HIDE DEF cs, res
<1>6. g \in HandleSet /\ g.chunks = cs /\ g.res = res
  BY <1>0, <1>4, <1>5 DEF HandleSet
<1>7. KeepChunk(h) = g
  BY DEF KeepChunk, cs, res
<1> HIDE DEF g
<1> QED BY <1>3, <1>4, <1>5, <1>6, <1>7 DEF HandleOK

\* FetchNext, on a handle that has a result.
LEMMA FetchNextOK ==
  ASSUME NEW h, HandleOK(h), h.res.pos \in Nat, NEW fails \in BOOLEAN
  PROVE  LET o == FetchNext(h, fails)
         IN /\ HandleOK(o.h) /\ o.h.res.pos \in Nat
            /\ o.ret \in {"SUCCESS", "NO_DATA", "ERROR"}
            /\ o.ret = "SUCCESS" => Readable(o.h)
<1> DEFINE g == ResetLastFetchedVariableVal(h)
           e == [g EXCEPT !.open = FALSE, !.res = [g.res EXCEPT !.error = TRUE]]
           n == [g EXCEPT !.resultset_end = TRUE]
<1>1. HandleOK(g) /\ g.res = h.res
  BY ResetOK
<1>2. g \in HandleSet /\ g.res \in ResultSet
  BY <1>1, Fields DEF HandleOK
<1> HIDE DEF g
<1>3. [g.res EXCEPT !.error = TRUE] \in ResultSet
      /\ [g.res EXCEPT !.error = TRUE].pos = g.res.pos
      /\ [g.res EXCEPT !.error = TRUE].sizes = g.res.sizes
  BY <1>2 DEF ResultSet
<1>4. e \in HandleSet /\ e.chunks = g.chunks /\ e.res = [g.res EXCEPT !.error = TRUE]
  BY <1>2, <1>3, Basics DEF HandleSet
<1>5. n \in HandleSet /\ n.chunks = g.chunks /\ n.res = g.res
  BY <1>2, Basics DEF HandleSet
<1> HIDE DEF e, n
<1>6. HandleOK(e) /\ HandleOK(n) /\ e.res.pos \in Nat /\ n.res.pos \in Nat
  BY <1>1, <1>3, <1>4, <1>5 DEF HandleOK
<1>7. CASE h.resultset_end
  BY <1>7, SetCurrentChunkOK DEF FetchNext
<1>8. CASE ~h.resultset_end /\ (fails \/ h.res.closed)
  BY <1>6, <1>8 DEF FetchNext, Outcome, e, g
<1>9. CASE ~h.resultset_end /\ ~(fails \/ h.res.closed) /\ h.res.pos = Len(h.res.sizes)
  BY <1>6, <1>9 DEF FetchNext, Outcome, n, g
<1>10. CASE ~h.resultset_end /\ ~(fails \/ h.res.closed) /\ h.res.pos # Len(h.res.sizes)
  <2>1. HandleOK(KeepChunk(g)) /\ KeepChunk(g).res.pos \in Nat
    BY <1>1, <1>10, KeepChunkOK
  <2>2. FetchNext(h, fails) = SetCurrentChunk(KeepChunk(g))
    BY <1>10 DEF FetchNext, g
  <2> QED BY <2>1, <2>2, SetCurrentChunkOK
<1> QED BY <1>7, <1>8, <1>9, <1>10

\* BeforeStart keeps a handle well typed, with or without chunks.
LEMMA BeforeStartOK ==
  ASSUME NEW h, HandleOK(h)
  PROVE  LET o == BeforeStart(h)
         IN /\ HandleOK(o.h) /\ o.h.res = h.res /\ o.ret = "BEFORE_START"
            /\ h.chunks # << >> => Readable(o.h)
<1> DEFINE c == IF h.chunks = << >> THEN h.current_chunk ELSE h.chunks[1]
           g == [h EXCEPT !.current_chunk = c, !.current_chunk_idx = 0,
                          !.chunk_row = -1, !.prior_chunk_row = -1]
<1>0. h \in HandleSet
  BY DEF HandleOK
<1>1. h.chunks \in Seq(Nat \ {0}) /\ h.current_chunk \in Nat
  BY <1>0, Fields
<1>2. c \in Counts
  BY <1>1 DEF Counts
<1>3. h.chunks # << >> => c = h.chunks[1] /\ 1 \in 1..Len(h.chunks)
  BY <1>1
<1> HIDE DEF c
<1>4. g \in HandleSet /\ g.chunks = h.chunks /\ g.res = h.res /\ g.current_chunk = c
  BY <1>0, <1>2, Basics DEF HandleSet
<1>5. BeforeStart(h) = Outcome(g, "BEFORE_START")
  BY DEF BeforeStart, c
<1> HIDE DEF g
<1>6. HandleOK(g) /\ (h.chunks # << >> => Readable(g))
  BY <1>3, <1>4 DEF HandleOK, Readable, Held
<1> QED BY <1>4, <1>5, <1>6 DEF Outcome

\* SetFirstCurrentChunk, on a handle that has a result.
LEMMA SetFirstCurrentChunkOK ==
  ASSUME NEW h, HandleOK(h), h.res.pos \in Nat, NEW fails \in BOOLEAN
  PROVE  LET o == SetFirstCurrentChunk(h, fails)
         IN /\ HandleOK(o.h) /\ o.h.res.pos \in Nat
            /\ o.ret \in {"SUCCESS", "NO_DATA", "ERROR"}
<1>1. HandleOK(BeforeStart(h).h) /\ BeforeStart(h).h.res = h.res
  BY BeforeStartOK
<1> QED BY <1>1, FetchNextOK DEF SetFirstCurrentChunk, Outcome

\* FetchFirst, which restores the cursor type it overrides.
LEMMA FetchFirstOK ==
  ASSUME NEW h, HandleOK(h), h.res.pos \in Nat, NEW fails \in BOOLEAN
  PROVE  LET o == FetchFirst(h, fails)
         IN /\ HandleOK(o.h) /\ o.h.res.pos \in Nat
            /\ o.ret \in {"SUCCESS", "NO_DATA", "ERROR"}
<1> DEFINE d == [h EXCEPT !.forward_only = FALSE]
           o == SetFirstCurrentChunk(d, fails)
           g == [o.h EXCEPT !.forward_only = h.forward_only]
<1>1. d \in HandleSet /\ d.chunks = h.chunks /\ d.res = h.res /\ h.forward_only \in Flags
  BY Basics DEF HandleSet, HandleOK
<1> HIDE DEF d
<1>2. HandleOK(d) /\ d.res.pos \in Nat
  BY <1>1 DEF HandleOK
<1>3. HandleOK(o.h) /\ o.h.res.pos \in Nat /\ o.ret \in {"SUCCESS", "NO_DATA", "ERROR"}
  BY <1>2, SetFirstCurrentChunkOK
<1> HIDE DEF o
<1>4. g \in HandleSet /\ g.chunks = o.h.chunks /\ g.res = o.h.res
  BY <1>1, <1>3 DEF HandleSet, HandleOK
<1>5. FetchFirst(h, fails) = Outcome(g, o.ret)
  BY DEF FetchFirst, o, d
<1> HIDE DEF g
<1> QED BY <1>3, <1>4, <1>5 DEF HandleOK, Outcome

\* Moving to a row of the current chunk.
AtRow(h, r, q) == [h EXCEPT !.chunk_row = r, !.prior_chunk_row = q]

\* Moving to a row keeps a handle well typed.
LEMMA AtRowOK ==
  ASSUME NEW h, HandleOK(h), NEW r \in Int, NEW q \in Int
  PROVE  LET g == AtRow(h, r, q)
         IN HandleOK(g) /\ g.res = h.res /\ g.current_chunk = h.current_chunk
            /\ g.chunks = h.chunks
<1>1. r \in Indexes /\ q \in Indexes /\ h \in HandleSet
  BY DEF Indexes, HandleOK
<1> DEFINE g == AtRow(h, r, q)
<1>2. /\ g \in HandleSet /\ g.chunks = h.chunks /\ g.res = h.res
      /\ g.current_chunk = h.current_chunk
  BY <1>1 DEF HandleSet, AtRow
<1> HIDE DEF g
<1>3. HandleOK(g)
  BY <1>2 DEF HandleOK
<1> QED BY <1>2, <1>3 DEF g

\* SetPriorCurrentChunk keeps current_chunk_idx a natural number.
LEMMA SetPriorCurrentChunkOK ==
  ASSUME NEW h, HandleOK(h), PriorInRange(h)
  PROVE  LET o == SetPriorCurrentChunk(h)
         IN /\ HandleOK(o.h) /\ o.h.res = h.res
            /\ o.ret \in {"SUCCESS", "NO_DATA", "ERROR"}
<1> DEFINE prior == h.prior_chunk_row - h.array_size
           idx   == h.current_chunk_idx - 1
           chunk == h.chunks[h.current_chunk_idx]
           row   == h.res.sizes[chunk] - h.array_size - 1
           to    == IF row < 0 THEN -1 ELSE row
           g     == [h EXCEPT !.current_chunk_idx = @ - 1, !.current_chunk = chunk]
<1>0. h \in HandleSet
  BY DEF HandleOK
<1>1. /\ h.chunks \in Seq(Nat \ {0}) /\ h.current_chunk_idx \in Nat
      /\ h.prior_chunk_row \in Int /\ h.array_size \in Nat \ {0}
  BY <1>0, Fields
<1>2. prior \in Int
  BY <1>1
<1>3. CASE prior < -1 /\ h.current_chunk_idx = 0
  <2>1. SetPriorCurrentChunk(h) = Outcome(AtRow(h, -1, prior), "NO_DATA")
    BY <1>0, <1>3 DEF SetPriorCurrentChunk, AtRow, HandleSet
  <2>2. HandleOK(AtRow(h, -1, prior)) /\ AtRow(h, -1, prior).res = h.res
    BY <1>2, AtRowOK
  <2> QED BY <2>1, <2>2 DEF Outcome
<1>4. CASE prior < -1 /\ h.current_chunk_idx # 0
  <2>1. h.current_chunk_idx \in 1..Len(h.chunks)
    BY <1>1, <1>4 DEF PriorInRange
  <2>2. chunk \in 1..Len(h.res.sizes) /\ idx \in Nat
    BY <1>1, <2>1 DEF HandleOK
  <2>3. h.res.sizes[chunk] \in Nat
    BY <1>0, <2>2, Sizes
  <2>4. to \in Int
    BY <1>1, <2>3
  <2>5. chunk \in Counts /\ idx \in Counts
    BY <2>2 DEF Counts
  <2>6. SetPriorCurrentChunk(h) = Outcome(AtRow(g, to, to), "SUCCESS")
    BY <1>4 DEF SetPriorCurrentChunk, AtRow
  <2> HIDE DEF chunk, to
  <2>7. g \in HandleSet /\ g.chunks = h.chunks /\ g.res = h.res
    BY <1>0, <2>5 DEF HandleSet
  <2> HIDE DEF g
  <2>8. HandleOK(g)
    BY <2>7 DEF HandleOK
  <2>9. HandleOK(AtRow(g, to, to)) /\ AtRow(g, to, to).res = g.res
    BY <2>4, <2>8, AtRowOK
  <2> QED BY <2>6, <2>7, <2>9 DEF Outcome
<1>5. CASE ~(prior < -1)
  <2>1. SetPriorCurrentChunk(h) = Outcome(AtRow(h, prior, prior), "SUCCESS")
    BY <1>5 DEF SetPriorCurrentChunk, AtRow
  <2>2. HandleOK(AtRow(h, prior, prior)) /\ AtRow(h, prior, prior).res = h.res
    BY <1>2, AtRowOK
  <2> QED BY <2>1, <2>2 DEF Outcome
<1> QED BY <1>3, <1>4, <1>5

\* prior_chunk_row catches up with chunk_row.
LEMMA CatchUpOK ==
  ASSUME NEW h, HandleOK(h)
  PROVE  LET g == [h EXCEPT !.prior_chunk_row = h.chunk_row]
         IN HandleOK(g) /\ g.res = h.res
<1> DEFINE g == [h EXCEPT !.prior_chunk_row = h.chunk_row]
<1>1. g \in HandleSet /\ g.chunks = h.chunks /\ g.res = h.res
  BY DEF HandleOK, HandleSet
<1> HIDE DEF g
<1>2. HandleOK(g)
  BY <1>1 DEF HandleOK
<1> QED BY <1>1, <1>2 DEF g

\* SQL_FETCH_NEXT up to the transfer of rows, on a handle that has a result.
LEMMA NextChunkOK ==
  ASSUME NEW h, HandleOK(h), h.res.pos \in Nat, NEW fails \in BOOLEAN
  PROVE  LET o == NextChunk(h, fails)
         IN /\ HandleOK(o.h) /\ o.h.res.pos \in Nat
            /\ o.ret \in {"SUCCESS", "NO_DATA", "ERROR"}
<1> DEFINE g == [h EXCEPT !.prior_chunk_row = h.chunk_row]
<1>1. HandleOK(g) /\ g.res = h.res
  BY CatchUpOK
<1>2. LET o == FetchNext(g, fails)
      IN /\ HandleOK(o.h) /\ o.h.res.pos \in Nat
         /\ o.ret \in {"SUCCESS", "NO_DATA", "ERROR"}
  BY <1>1, FetchNextOK
<1>3. NextChunk(h, fails) =
        IF ~RequireFetch(g) THEN Outcome(g, "SUCCESS")
        ELSE IF g.resultset_end /\ g.current_chunk_idx = Len(g.chunks) - 1
          THEN Outcome(g, "NO_DATA")
        ELSE FetchNext(g, fails)
  BY DEF NextChunk
<1> HIDE DEF g
<1> QED BY <1>1, <1>2, <1>3 DEF Outcome

\* FetchNextChunk in every direction but SQL_FETCH_ABSOLUTE.
LEMMA FetchNextChunkOK ==
  ASSUME NEW h, HandleOK(h), h.res.pos \in Nat, NEW fails \in BOOLEAN,
         NEW orientation \in {"NEXT", "PRIOR", "FIRST"},
         orientation = "PRIOR" => h.forward_only \/ PriorInRange(h)
  PROVE  LET o == FetchNextChunk(h, orientation, fails)
         IN /\ HandleOK(o.h) /\ o.h.res.pos \in Nat
            /\ o.ret \in {"SUCCESS", "NO_DATA", "ERROR"}
<1>1. CASE h.forward_only /\ orientation # "NEXT"
  BY <1>1 DEF FetchNextChunk, Outcome
<1>2. CASE ~(h.forward_only /\ orientation # "NEXT") /\ orientation = "NEXT"
  <2>1. FetchNextChunk(h, orientation, fails) = NextChunk(h, fails)
    BY <1>2 DEF FetchNextChunk
  <2> QED BY <2>1, NextChunkOK
<1>3. CASE ~(h.forward_only /\ orientation # "NEXT") /\ orientation = "PRIOR"
  <2>1. FetchNextChunk(h, orientation, fails) = SetPriorCurrentChunk(h)
    BY <1>3 DEF FetchNextChunk
  <2> QED BY <1>3, <2>1, SetPriorCurrentChunkOK
<1>4. CASE ~(h.forward_only /\ orientation # "NEXT") /\ orientation = "FIRST"
  <2>1. FetchNextChunk(h, orientation, fails) = SetFirstCurrentChunk(h, fails)
    BY <1>4 DEF FetchNextChunk
  <2> QED BY <2>1, SetFirstCurrentChunkOK
<1> QED BY <1>1, <1>2, <1>3, <1>4

\* A handle changed in one field only.
SetIdx(h, n) == [h EXCEPT !.current_chunk_idx = n]
SetRowCount(h, n) == [h EXCEPT !.row_count = n]
SetLast(h, v) == [h EXCEPT !.last = v]

\* Such a change keeps a handle well typed.
LEMMA FieldChangesOK ==
  ASSUME NEW h, HandleOK(h), NEW i \in Nat, NEW n \in Int, NEW v \in LastVals
  PROVE  /\ HandleOK(SetIdx(h, i)) /\ SetIdx(h, i).res = h.res
         /\ HandleOK(SetRowCount(h, n)) /\ SetRowCount(h, n).res = h.res
         /\ HandleOK(SetLast(h, v)) /\ SetLast(h, v).res = h.res
         /\ SetLast(h, v).chunks = h.chunks /\ SetLast(h, v).current_chunk = h.current_chunk
         /\ SetLast(h, v).last = v
<1>1. i \in Counts /\ n \in Indexes /\ h \in HandleSet
  BY DEF Counts, Indexes, HandleOK
<1>2. SetIdx(h, i) \in HandleSet /\ SetIdx(h, i).res = h.res /\ SetIdx(h, i).chunks = h.chunks
  BY <1>1 DEF SetIdx, HandleSet
<1>3. /\ SetRowCount(h, n) \in HandleSet /\ SetRowCount(h, n).res = h.res
      /\ SetRowCount(h, n).chunks = h.chunks
  BY <1>1 DEF SetRowCount, HandleSet
<1>4. /\ SetLast(h, v) \in HandleSet /\ SetLast(h, v).res = h.res
      /\ SetLast(h, v).chunks = h.chunks /\ SetLast(h, v).current_chunk = h.current_chunk
      /\ SetLast(h, v).last = v
  BY <1>1 DEF SetLast, HandleSet
<1> QED BY <1>2, <1>3, <1>4 DEF HandleOK

\* The size of a readable current chunk is a positive number.
LEMMA ChunkSizeOK ==
  ASSUME NEW h, HandleOK(h), Readable(h)
  PROVE  ChunkSize(h) \in Nat \ {0} /\ h.current_chunk \in 1..Len(h.res.sizes)
<1>1. h \in HandleSet
  BY DEF HandleOK
<1>2. PICK i \in 1..Len(h.chunks) : h.current_chunk = h.chunks[i]
  BY DEF Readable, Held
<1>3. h.current_chunk \in 1..Len(h.res.sizes)
  BY <1>2 DEF HandleOK
<1> QED BY <1>1, <1>3, Sizes DEF ChunkSize

\* One level of SetAbsoluteCurrentChunk, on a readable chunk.
LEMMA SetAbsoluteCurrentChunkOK ==
  ASSUME NEW h, HandleOK(h), h.res.pos \in Nat, Readable(h),
         NEW offset \in Int, NEW fails \in BOOLEAN
  PROVE  LET o == SetAbsoluteCurrentChunk(h, offset, fails)
         IN /\ HandleOK(o.h) /\ o.h.res.pos \in Nat /\ o.offset \in Int
            /\ o.ret \in {"SUCCESS", "NO_DATA", "ERROR", "BEFORE_START", "AGAIN"}
<1> DEFINE To(g, r) == [h |-> g, ret |-> r, offset |-> offset]
           row  == IF h.chunk_row + offset + 1 < -1 THEN -1 ELSE h.chunk_row + offset + 1
           next == FetchNext(h, fails)
           size == ChunkSize(h)
           OK(o) == /\ HandleOK(o.h) /\ o.h.res.pos \in Nat /\ o.offset \in Int
                    /\ o.ret \in {"SUCCESS", "NO_DATA", "ERROR", "BEFORE_START", "AGAIN"}
           again == [h |-> next.h, ret |-> "AGAIN", offset |-> OffsetLeft(next.h, offset)]
<1>0. h.chunk_row \in Int
  BY Fields DEF HandleOK
<1>1. size \in Nat
  BY ChunkSizeOK
<1>2. /\ HandleOK(next.h) /\ next.h.res.pos \in Nat
      /\ next.ret \in {"SUCCESS", "NO_DATA", "ERROR"}
      /\ next.ret = "SUCCESS" => Readable(next.h)
  BY FetchNextOK
<1>3. next.ret = "SUCCESS" => ChunkSize(next.h) \in Nat
  BY <1>2, ChunkSizeOK
<1> HIDE DEF next
<1>4. OK(To(h, "NO_DATA")) /\ OK(To(h, "ERROR"))
  OBVIOUS
<1>5. OK(To(BeforeStart(h).h, "BEFORE_START"))
  BY BeforeStartOK
<1>6. row \in Int /\ 0 \in Int /\ offset - 1 \in Int
  BY <1>0
<1>7. \A r \in Int : OK(To(AtRow(h, r, r), "SUCCESS"))
  BY AtRowOK
<1>8. OK(To(SetIdx(next.h, 0), next.ret))
  <2>1. 0 \in Nat /\ NoLast \in LastVals
    BY Basics
  <2>2. HandleOK(SetIdx(next.h, 0)) /\ SetIdx(next.h, 0).res = next.h.res
    BY <1>2, <2>1, FieldChangesOK
  <2> QED BY <1>2, <2>2
<1>9. next.ret = "SUCCESS" => OK(again)
  BY <1>2, <1>3 DEF OffsetLeft
<1>10. SetAbsoluteCurrentChunk(h, offset, fails) =
     IF offset > size /\ h.resultset_end THEN To(h, "NO_DATA")
     ELSE IF offset < 0 /\ Abs(offset) <= size THEN To(AtRow(h, row, row), "SUCCESS")
     ELSE IF offset < 0 /\ Abs(offset) > h.chunk_row /\ Abs(offset) > h.array_size
       THEN To(BeforeStart(h).h, "BEFORE_START")
     ELSE IF offset < 0 /\ Abs(offset) > h.chunk_row THEN To(AtRow(h, 0, 0), "SUCCESS")
     ELSE IF offset = 0 THEN To(BeforeStart(h).h, "BEFORE_START")
     ELSE IF offset > 0 /\ offset < size THEN To(AtRow(h, offset - 1, offset - 1), "SUCCESS")
     ELSE IF offset >= size
       THEN IF next.ret # "SUCCESS" THEN To(SetIdx(next.h, 0), next.ret) ELSE again
     ELSE To(h, "ERROR")
  BY DEF SetAbsoluteCurrentChunk, AtRow, SetIdx, next
<1> HIDE DEF row, To, again, size
<1>11. OK(To(AtRow(h, row, row), "SUCCESS")) /\ OK(To(AtRow(h, 0, 0), "SUCCESS"))
       /\ OK(To(AtRow(h, offset - 1, offset - 1), "SUCCESS"))
  BY <1>6, <1>7
<1> HIDE DEF OK
<1>12. OK(SetAbsoluteCurrentChunk(h, offset, fails))
  BY <1>4, <1>5, <1>8, <1>9, <1>10, <1>11
<1> QED BY <1>12 DEF OK

\* Counting the rows of a fetch.
LEMMA IncreaseRowCountOK ==
  ASSUME NEW h, HandleOK(h), Readable(h)
  PROVE  HandleOK(IncreaseRowCount(h)) /\ IncreaseRowCount(h).res = h.res
<1> DEFINE n == h.row_count + (IF h.chunk_row + h.array_size < ChunkSize(h)
                                 THEN h.array_size ELSE ChunkSize(h) - h.chunk_row)
<1>1. h.row_count \in Int /\ h.chunk_row \in Int /\ h.array_size \in Nat
  BY Fields DEF HandleOK
<1>2. ChunkSize(h) \in Nat
  BY ChunkSizeOK
<1>3. n \in Int
  BY <1>1, <1>2
<1>4. IncreaseRowCount(h) = SetRowCount(h, n)
  BY DEF IncreaseRowCount, SetRowCount
<1> HIDE DEF n
<1>5. 0 \in Nat /\ NoLast \in LastVals
  BY Basics
<1> QED BY <1>3, <1>4, <1>5, FieldChangesOK

\* A buffer length, a null buffer, or one without room.
Buffers == Nat \cup {NullTarget, TooSmall}

\* v, a part read from handle h, leaves the cursor of h where it is.
PartOK(v, h) ==
  /\ HandleOK(v.h) /\ v.h.res = h.res
  /\ v.h.chunks = h.chunks /\ v.h.current_chunk = h.current_chunk
  /\ v.from \in Nat /\ v.from + v.out \in Nat
  /\ v.ret \in {"SUCCESS", "SUCCESS_WITH_INFO", "NO_DATA", "ERROR"}

\* Reading a part of a value.
LEMMA GetVariableValueOK ==
  ASSUME NEW h, HandleOK(h), NEW col \in Nat, NEW vlen \in Nat,
         NEW buf \in Buffers
  PROVE  PartOK(GetVariableValue(h, col, vlen, buf), h)
<1> DEFINE len  == IF h.last.col = col /\ h.last.row = h.chunk_row THEN h.last.length ELSE 0
           seen == [col |-> col, row |-> h.chunk_row, length |-> len]
           g    == SetLast(h, seen)
           rest == vlen - len
           out  == IF rest > buf THEN buf ELSE rest
           read == [seen EXCEPT !.length = len + out]
           k    == SetLast(g, read)
<1>1. h.chunk_row \in Int /\ h.last \in LastVals
  BY Fields DEF HandleOK
<1>2. len \in Nat
  BY <1>1 DEF LastVals
<1> HIDE DEF len
<1>3. seen \in LastVals
  BY <1>1, <1>2 DEF LastVals
<1>4. 0 \in Nat /\ 0 \in Int
  OBVIOUS
<1>5. /\ HandleOK(g) /\ g.res = h.res /\ g.chunks = h.chunks
      /\ g.current_chunk = h.current_chunk /\ g.last = seen
  BY <1>3, <1>4, FieldChangesOK
<1>6. ASSUME ~(vlen > 0 /\ len >= vlen), buf # TooSmall, buf # NullTarget
      PROVE  len + out \in Nat /\ read \in LastVals
  <2>1. buf \in Nat
    BY <1>6 DEF Buffers
  <2>2. len + out \in Nat
    <3>1. CASE vlen > 0
      BY <1>2, <1>6, <2>1, <3>1
    <3>2. CASE vlen = 0
      BY <1>2, <2>1, <3>2
    <3> QED BY <3>1, <3>2
  <2> HIDE DEF out
  <2> QED BY <1>1, <2>2 DEF LastVals
<1>7. /\ SetLastFetchedVariableVal(h, col) = g
      /\ [g EXCEPT !.last.length = len + out] = SetLast(g, read)
  <2>1. SetLastFetchedVariableVal(h, col) = g
    BY DEF SetLastFetchedVariableVal, SetLast, len
  <2> HIDE DEF g, seen, out
  <2>2. [g EXCEPT !.last.length = len + out]
           = [g EXCEPT !.last = [g.last EXCEPT !.length = len + out]]
    OBVIOUS
  <2> QED BY <1>5, <2>1, <2>2 DEF SetLast
<1> HIDE DEF g, seen, read
<1>8. ASSUME ~(vlen > 0 /\ len >= vlen), buf # TooSmall, buf # NullTarget
      PROVE  /\ HandleOK(k) /\ k.res = h.res /\ k.chunks = h.chunks
             /\ k.current_chunk = h.current_chunk
  BY <1>4, <1>5, <1>6, <1>8, FieldChangesOK
<1>9. g.last.length = len
  BY <1>5 DEF seen
<1>10. GetVariableValue(h, col, vlen, buf) =
     IF vlen > 0 /\ len >= vlen THEN [h |-> g, ret |-> "NO_DATA", from |-> len, out |-> 0]
     ELSE IF buf = TooSmall THEN [h |-> g, ret |-> "ERROR", from |-> len, out |-> 0]
     ELSE IF buf = NullTarget THEN [h |-> g, ret |-> "SUCCESS", from |-> len, out |-> 0]
     ELSE [h |-> k, ret |-> IF rest > buf THEN "SUCCESS_WITH_INFO" ELSE "SUCCESS",
           from |-> len, out |-> out]
  BY <1>7, <1>9 DEF GetVariableValue
<1> HIDE DEF k, out, rest
<1> QED BY <1>2, <1>5, <1>6, <1>8, <1>10 DEF PartOK

\* The return codes of a call, and what a fetch reports to the application.
Rets == {"SUCCESS", "SUCCESS_WITH_INFO", "NO_DATA", "ERROR"}
RowSets == [chunk : Nat, first : Int, last : Int, from : Nat]
TransferOK(t) ==
  HandleOK(t.h) /\ t.h.res.pos \in Nat /\ t.ret \in Rets /\ t.rowset \in RowSets

\* A fetch without a bound column.
LEMMA PositionOnlyOK ==
  ASSUME NEW h, HandleOK(h), h.res.pos \in Nat, Readable(h)
  PROVE  TransferOK(PositionOnly(h))
<1> DEFINE r == h.chunk_row + h.array_size
           g == AtRow(h, r, h.prior_chunk_row)
           rs == [chunk |-> g.current_chunk, first |-> r, last |-> r, from |-> 0]
<1>1. /\ h.chunk_row \in Int /\ h.array_size \in Nat /\ h.prior_chunk_row \in Int
      /\ h.current_chunk \in Nat /\ h \in HandleSet
  BY Fields DEF HandleOK
<1>2. r \in Int
  BY <1>1
<1>3. [h EXCEPT !.chunk_row = @ + h.array_size] = g /\ g.chunk_row = r
  BY <1>1 DEF AtRow, HandleSet
<1> HIDE DEF r
<1>4. /\ HandleOK(g) /\ g.res = h.res /\ g.current_chunk = h.current_chunk
      /\ g.chunks = h.chunks
  BY <1>1, <1>2, AtRowOK
<1>5. PositionOnly(h) = Transfer(IncreaseRowCount(g), "SUCCESS", rs)
  BY <1>3 DEF PositionOnly
<1> HIDE DEF g
<1>6. Readable(g)
  BY <1>4 DEF Readable, Held
<1>7. HandleOK(IncreaseRowCount(g)) /\ IncreaseRowCount(g).res = g.res
  BY <1>4, <1>6, IncreaseRowCountOK
<1>8. rs \in RowSets
  BY <1>1, <1>2, <1>4 DEF RowSets
<1> HIDE DEF rs
<1> QED BY <1>4, <1>5, <1>7, <1>8 DEF TransferOK, Transfer, Rets

\* A fetch into bound columns.
LEMMA FetchBoundOK ==
  ASSUME NEW h, HandleOK(h), h.res.pos \in Nat, Readable(h),
         NEW vlen \in Nat, NEW buf \in Buffers
  PROVE  TransferOK(FetchBound(h, vlen, buf))
<1> DEFINE first == h.chunk_row + 1
           last  == LastRowToFetch(h)
           At(k, r) == AtRow(k, r, k.prior_chunk_row)
           Same(k) == /\ HandleOK(k) /\ k.res = h.res /\ k.chunks = h.chunks
                      /\ k.current_chunk = h.current_chunk
           head  == GetVariableValue(At(h, first), 1, vlen, buf)
           next  == GetVariableValue(At(head.h, last), 1, vlen, buf)
           tail  == IF first = last THEN head ELSE next
           Sent(from) == [chunk |-> h.current_chunk, first |-> first, last |-> last, from |-> from]
<1>1. /\ h.chunk_row \in Int /\ h.array_size \in Nat /\ h.prior_chunk_row \in Int
      /\ h.current_chunk \in Nat
  BY Fields DEF HandleOK
<1>2. ChunkSize(h) \in Nat
  BY ChunkSizeOK
<1>3. first \in Int /\ last \in Int
  BY <1>1, <1>2 DEF LastRowToFetch
<1>4. \A n \in Nat : Sent(n) \in RowSets
  BY <1>1, <1>3 DEF RowSets
<1> HIDE DEF first, last, Sent
<1>5. ASSUME NEW k, Same(k), NEW r \in Int
      PROVE  /\ Same(At(k, r))
             /\ [k EXCEPT !.chunk_row = r] = At(k, r)
  <2>1. k \in HandleSet /\ k.prior_chunk_row \in Int
    BY <1>5, Fields DEF HandleOK
  <2>2. [k EXCEPT !.chunk_row = r] = At(k, r)
    BY <2>1 DEF AtRow, HandleSet
  <2> QED BY <1>5, <2>1, <2>2, AtRowOK
<1>6. ASSUME NEW k, Same(k), NEW r \in Int
      PROVE  LET v == GetVariableValue(At(k, r), 1, vlen, buf)
             IN Same(v.h) /\ v.from \in Nat /\ v.ret \in Rets
  <2>1. Same(At(k, r))
    BY <1>5, <1>6
  <2> DEFINE a == At(k, r)
             one == 1
             v == GetVariableValue(a, one, vlen, buf)
  <2>2. one \in Nat /\ HandleOK(a)
    BY <2>1
  <2> HIDE DEF a, one
  <2>3. PartOK(v, a)
    BY <2>2, GetVariableValueOK
  <2> HIDE DEF v
  <2>4. Same(v.h) /\ v.from \in Nat /\ v.ret \in Rets
    BY <2>1, <2>3 DEF PartOK, Rets, a
  <2> QED BY <2>4 DEF v, a, one
<1>7. Same(h)
  OBVIOUS
<1>8. Same(head.h) /\ head.from \in Nat /\ head.ret \in Rets
  BY <1>3, <1>6, <1>7
<1> HIDE DEF head
<1>9. Same(next.h) /\ next.ret \in Rets
  BY <1>3, <1>6, <1>8
<1>10. /\ [h EXCEPT !.chunk_row = first] = At(h, first)
       /\ [h EXCEPT !.chunk_row = last] = At(h, last)
       /\ [head.h EXCEPT !.chunk_row = last] = At(head.h, last)
       /\ Same(At(h, last))
  BY <1>3, <1>5, <1>7, <1>8
<1> HIDE DEF next, At
<1>11. Same(tail.h) /\ tail.ret \in Rets
  BY <1>8, <1>9
<1>12. FetchBound(h, vlen, buf) =
         IF last < first THEN Transfer(IncreaseRowCount(h), "SUCCESS", Sent(0))
         ELSE IF h.cols # "variable"
           THEN Transfer(IncreaseRowCount(At(h, last)), "SUCCESS", Sent(0))
         ELSE Transfer(IF Succeeded(tail.ret) THEN IncreaseRowCount(tail.h) ELSE tail.h,
                       tail.ret, Sent(head.from))
  BY <1>10 DEF FetchBound, first, last, head, next, Sent
<1> HIDE DEF tail
<1>13. ASSUME NEW k, Same(k)
       PROVE  HandleOK(IncreaseRowCount(k)) /\ IncreaseRowCount(k).res.pos \in Nat
  <2>1. Readable(k)
    BY <1>13 DEF Readable, Held
  <2> QED BY <1>13, <2>1, IncreaseRowCountOK
<1>14. TransferOK(Transfer(IncreaseRowCount(h), "SUCCESS", Sent(0)))
  BY <1>4, <1>7, <1>13 DEF TransferOK, Transfer, Rets
<1>15. TransferOK(Transfer(IncreaseRowCount(At(h, last)), "SUCCESS", Sent(0)))
  BY <1>4, <1>10, <1>13 DEF TransferOK, Transfer, Rets
<1>16. TransferOK(Transfer(IF Succeeded(tail.ret) THEN IncreaseRowCount(tail.h) ELSE tail.h,
                           tail.ret, Sent(head.from)))
  <2>1. HandleOK(IncreaseRowCount(tail.h)) /\ IncreaseRowCount(tail.h).res.pos \in Nat
    BY <1>11, <1>13
  <2>2. HandleOK(tail.h) /\ tail.h.res.pos \in Nat
    BY <1>11
  <2>3. Sent(head.from) \in RowSets
    BY <1>4, <1>8
  <2> QED BY <1>11, <2>1, <2>2, <2>3 DEF TransferOK, Transfer
<1> QED BY <1>12, <1>14, <1>15, <1>16

\* The transfer that ends a successful fetch.
LEMMA FetchRowsOK ==
  ASSUME NEW h, HandleOK(h), h.res.pos \in Nat, Readable(h),
         NEW vlen \in Nat, NEW buf \in Buffers
  PROVE  TransferOK(FetchRows(h, vlen, buf))
BY PositionOnlyOK, FetchBoundOK DEF FetchRows

\* SQLPrepare, its success, and the execution of a result without parameters.
LEMMA PrepareOK ==
  ASSUME NEW h, HandleOK(h)
  PROVE  HandleOK(PrepareQuery(h)) /\ HandleOK(FinalizeStmt(h))
         /\ FinalizeStmt(h).res = h.res
<1> DEFINE c == ClearChunks(h)
<1>0. h \in HandleSet /\ h.res.pos <= Len(h.res.sizes)
  BY DEF HandleOK
<1>1. c \in HandleSet /\ c.chunks = << >>
  BY <1>0, Basics DEF HandleSet, ClearChunks
<1>2. NoResult \in ResultSet /\ NoResult.pos = -1 /\ NoResult.sizes = << >> /\ Len(<< >>) = 0
  BY DEF NoResult, ResultSet
<1> HIDE DEF c
<1>3. /\ PrepareQuery(h) \in HandleSet /\ PrepareQuery(h).chunks = << >>
      /\ PrepareQuery(h).res = NoResult
  BY <1>1, <1>2, Basics DEF HandleSet, PrepareQuery, c
<1>4. Columns \in Counts
  BY DEF Columns, Counts
<1>5. /\ FinalizeStmt(h) \in HandleSet /\ FinalizeStmt(h).chunks = h.chunks
      /\ FinalizeStmt(h).res = h.res
  BY <1>0, <1>4, Basics DEF HandleSet, FinalizeStmt
<1>6. HandleOK(PrepareQuery(h))
  BY <1>2, <1>3 DEF HandleOK
<1> QED BY <1>5, <1>6 DEF HandleOK

\* Executing a prepared statement and fetching its first chunk.
LEMMA BatchExecuteStmtOK ==
  ASSUME NEW h, HandleOK(h), NEW sizes \in Results,
         NEW fails \in BOOLEAN, NEW fetchFails \in BOOLEAN
  PROVE  LET o == BatchExecuteStmt(h, sizes, fails, fetchFails)
         IN /\ HandleOK(o.h) /\ o.h.res.pos \in Nat /\ o.ret \in {"SUCCESS", "ERROR"}
<1> DEFINE c == ClearChunks(h)
           r == [NewResult(sizes) EXCEPT !.error = fails]
           b == ~fails
           g == [c EXCEPT !.open = b, !.res = r]
<1>0. h \in HandleSet /\ h.res.pos <= Len(h.res.sizes)
  BY DEF HandleOK
<1>1. c \in HandleSet /\ c.chunks = << >>
  BY <1>0, Basics DEF HandleSet, ClearChunks
<1>2. r \in ResultSet /\ r.pos = 0 /\ r.sizes = sizes
  <2> DEFINE n == NewResult(sizes)
  <2>1. n \in ResultSet /\ n.pos = 0 /\ n.sizes = sizes
    BY DEF NewResult, ResultSet
  <2> HIDE DEF n
  <2>2. LET m == [n EXCEPT !.error = fails]
        IN m \in ResultSet /\ m.pos = 0 /\ m.sizes = sizes
    BY <2>1 DEF ResultSet
  <2> QED BY <2>2 DEF n
<1>3. b \in Flags
  BY DEF Flags
<1>4. sizes \in Seq(Nat \ {0})
  BY ResultsAssumption
<1> HIDE DEF c, r, b
<1>5. g \in HandleSet /\ g.chunks = << >> /\ g.res = r
  BY <1>1, <1>2, <1>3 DEF HandleSet
<1>6. SingleExecuteStmt(h, sizes, fails) = g
  BY DEF SingleExecuteStmt, c, r, b
<1> HIDE DEF g
<1>7. HandleOK(g) /\ g.res.pos \in Nat
  BY <1>2, <1>4, <1>5 DEF HandleOK
<1>8. /\ HandleOK(FetchFirst(g, fetchFails).h) /\ FetchFirst(g, fetchFails).h.res.pos \in Nat
  BY <1>7, FetchFirstOK
<1> QED BY <1>6, <1>7, <1>8 DEF BatchExecuteStmt, Outcome

\* The stream of a result is closed.
LEMMA CloseStreamOK ==
  ASSUME NEW h, HandleOK(h)
  PROVE  HandleOK(CloseStream(h)) /\ CloseStream(h).res.pos = h.res.pos
<1> DEFINE r == [h.res EXCEPT !.closed = TRUE]
           g == [h EXCEPT !.res = r]
<1>0. h \in HandleSet /\ h.res \in ResultSet
  BY Fields DEF HandleOK
<1>1. r \in ResultSet /\ r.pos = h.res.pos /\ r.sizes = h.res.sizes
  BY <1>0 DEF ResultSet
<1> HIDE DEF r
<1>2. g \in HandleSet /\ g.chunks = h.chunks /\ g.res = r
  BY <1>0, <1>1 DEF HandleSet
<1>3. CloseStream(h) = IF HasResult(h) /\ ~h.resultset_end THEN g ELSE h
  BY DEF CloseStream, r
<1> HIDE DEF g
<1>4. HandleOK(g)
  BY <1>1, <1>2 DEF HandleOK
<1> QED BY <1>1, <1>2, <1>3, <1>4
----------------------------------------------------------------------------
(***************************************************************************)
(* Type correctness.  The strengthening says that chunks and stream        *)
(* position lie within the result, and that there is a result wherever a   *)
(* fetch or Materialize would ask the engine for a chunk.                  *)
(***************************************************************************)
ResultKnown(h) == HasResult(h) => h.res.pos \in Nat

TypeInv ==
  /\ TypeOK
  /\ HandleOK(hstmt)
  /\ ResultKnown(hstmt)
  /\ cursor \/ call \in {"absolute", "materialize"} => hstmt.res.pos \in Nat

\* The initial state of the histories.
LEMMA Starts ==
  /\ NoLoop \in [offset : Int, chunk : Nat, idx : Nat, row : Int, prior : Int]
  /\ NoRows \in RowSets /\ BeforeFirst \in [chunk : Nat, row : Int]
  /\ NoParts \in [col : Nat, next : Nat, ok : BOOLEAN]
BY DEF NoLoop, NoRows, RowSets, BeforeFirst, NoParts, NoChunk

\* A fetch that returns.
LEMMA ReturnInv ==
  ASSUME TypeInv, NEW h, NEW r \in Rets, NEW rs \in RowSets,
         HandleOK(h), h.res.pos \in Nat, Return(h, r, rs)
  PROVE  TypeInv'
<1>1. hstmt' = h /\ ret' = r /\ rowset' = rs /\ call' = "idle" /\ loop' = NoLoop
      /\ parts' = NoParts /\ cursor' = cursor /\ tran' = tran
  BY DEF Return
<1>2. delivered' \in [chunk : Nat, row : Int]
  <2>1. LastOf(rs) \in [chunk : Nat, row : Int]
    BY DEF LastOf, RowSets
  <2> QED BY <2>1 DEF Return, TypeInv, TypeOK
<1>3. HandleOK(hstmt') /\ hstmt' \in HandleSet /\ hstmt'.res.pos \in Nat
  BY <1>1 DEF HandleOK
<1>4. TypeOK'
  BY <1>1, <1>2, <1>3, Starts DEF TypeInv, TypeOK, Rets, RowSets
<1> QED BY <1>3, <1>4 DEF TypeInv, HandleOK, ResultKnown, HasResult

\* A call that prepares, executes or closes.
LEMMA RestartInv ==
  ASSUME TypeInv, call = "idle", NEW h, NEW r \in Rets, NEW open \in BOOLEAN,
         HandleOK(h), ResultKnown(h), open => h.res.pos \in Nat, Restart(h, r, open)
  PROVE  TypeInv'
<1>1. /\ hstmt' = h /\ ret' = r /\ cursor' = open /\ rowset' = NoRows
      /\ delivered' = BeforeFirst /\ parts' = NoParts
      /\ call' = "idle" /\ loop' = loop /\ tran' = tran
  BY DEF Restart
<1>2. TypeOK'
  BY <1>1, Starts DEF TypeInv, TypeOK, Rets, RowSets, HandleOK
<1> QED BY <1>1, <1>2 DEF TypeInv, HandleOK, ResultKnown, HasResult

\* A call that only changes the handle and leaves the result known.
LEMMA ConfigureInv ==
  ASSUME TypeInv, NEW h, NEW c, HandleOK(h), ResultKnown(h),
         h.res.pos = hstmt.res.pos, Configure(c, h)
  PROVE  TypeInv'
<1>1. hstmt' = h /\ UNCHANGED <<cursor, call, loop, ret, tran, rowset, delivered, parts>>
  BY DEF Configure
<1>2. TypeOK'
  BY <1>1 DEF TypeInv, TypeOK, HandleOK
<1> QED BY <1>1, <1>2 DEF TypeInv, HandleOK, ResultKnown, HasResult

\* A stray read changes only the call.
LEMMA UndefinedInv ==
  ASSUME TypeInv, Undefined
  PROVE  TypeInv'
<1>1. /\ hstmt' = hstmt /\ cursor' = cursor /\ call' = "undefined"
      /\ UNCHANGED <<loop, ret, tran, rowset, delivered, parts>>
  BY DEF Undefined
<1>2. TypeOK'
  BY <1>1 DEF TypeInv, TypeOK
<1> QED BY <1>1, <1>2 DEF TypeInv, HandleOK, ResultKnown, HasResult

\* The end of a fetch.
LEMMA FinishFetchInv ==
  ASSUME TypeInv, NEW h, HandleOK(h), h.res.pos \in Nat,
         NEW r \in {"SUCCESS", "NO_DATA", "ERROR", "BEFORE_START"}, FinishFetch(h, r)
  PROVE  TypeInv'
<1>1. CASE r = "BEFORE_START"
  <2> DEFINE rs == [NoRows EXCEPT !.chunk = h.current_chunk]
  <2>1. h.current_chunk \in Nat
    BY Fields DEF HandleOK
  <2>2. rs \in RowSets
    BY <2>1, Starts DEF RowSets
  <2>3. Return(h, "SUCCESS", rs) /\ "SUCCESS" \in Rets
    BY <1>1 DEF FinishFetch, Rets
  <2> HIDE DEF rs
  <2> QED BY <2>2, <2>3, ReturnInv
<1>2. CASE r \in {"NO_DATA", "ERROR"}
  <2>1. Return(h, r, NoRows) /\ r \in Rets
    BY <1>2 DEF FinishFetch, Rets
  <2> QED BY <2>1, Starts, ReturnInv
<1>3. CASE r = "SUCCESS" /\ ~CanFetchRows(h)
  BY <1>3, UndefinedInv DEF FinishFetch
<1>4. CASE r = "SUCCESS" /\ CanFetchRows(h)
  <2>1. PICK buf \in BufLens : LET t == FetchRows(h, ValLen, buf)
                                IN Return(t.h, t.ret, t.rowset)
    BY <1>4 DEF FinishFetch
  <2>2. buf \in Buffers /\ ValLen \in Nat
    BY LengthsAssumption DEF Buffers
  <2>3. TransferOK(FetchRows(h, ValLen, buf))
    BY <1>4, <2>2, FetchRowsOK DEF CanFetchRows
  <2> DEFINE t == FetchRows(h, ValLen, buf)
  <2> HIDE DEF t
  <2>4. /\ HandleOK(t.h) /\ t.h.res.pos \in Nat /\ t.ret \in Rets /\ t.rowset \in RowSets
        /\ Return(t.h, t.ret, t.rowset)
    BY <2>1, <2>3 DEF TransferOK, t
  <2> QED BY <2>4, ReturnInv
<1> QED BY <1>1, <1>2, <1>3, <1>4

\* A fetch in any direction but SQL_FETCH_ABSOLUTE.
LEMMA FetchWithInv ==
  ASSUME TypeInv, hstmt.res.pos \in Nat,
         NEW orientation \in {"NEXT", "PRIOR", "FIRST"}, FetchWith(orientation)
  PROVE  TypeInv'
<1>1. PICK fails \in BOOLEAN :
        LET o == FetchNextChunk(hstmt, orientation, fails)
        IN IF orientation = "PRIOR" /\ ~hstmt.forward_only /\ ~PriorInRange(hstmt)
             THEN Undefined
             ELSE FinishFetch(o.h, o.ret)
  BY DEF FetchWith
<1> DEFINE o == FetchNextChunk(hstmt, orientation, fails)
           stray == orientation = "PRIOR" /\ ~hstmt.forward_only /\ ~PriorInRange(hstmt)
<1>2. CASE stray
  BY <1>1, <1>2, UndefinedInv
<1>3. CASE ~stray
  <2>1. HandleOK(hstmt)
    BY DEF TypeInv
  <2>2. HandleOK(o.h) /\ o.h.res.pos \in Nat /\ o.ret \in {"SUCCESS", "NO_DATA", "ERROR"}
    BY <1>3, <2>1, FetchNextChunkOK
  <2>3. FinishFetch(o.h, o.ret)
    BY <1>1, <1>3
  <2> HIDE DEF o
  <2>4. o.ret \in {"SUCCESS", "NO_DATA", "ERROR", "BEFORE_START"}
    BY <2>2
  <2> QED BY <2>2, <2>3, <2>4, FinishFetchInv
<1> QED BY <1>2, <1>3

\* A fetch that returns at once with the handle as it was.
LEMMA StayInv ==
  ASSUME TypeInv, hstmt.res.pos \in Nat, NEW r \in Rets, Return(hstmt, r, NoRows)
  PROVE  TypeInv'
BY Starts, ReturnInv DEF TypeInv

\* SQLFetch.
LEMMA SQLFetchInv ==
  ASSUME TypeInv, SQLFetch
  PROVE  TypeInv'
<1>1. hstmt.res.pos \in Nat /\ "NEXT" \in {"NEXT", "PRIOR", "FIRST"}
  BY DEF TypeInv, SQLFetch
<1>2. DummyFetch(hstmt) \in Rets /\ "NO_DATA" \in Rets
  BY DEF DummyFetch, Rets
<1>3. CASE ~hstmt.retrieve_data
  BY <1>1, <1>2, <1>3, StayInv DEF SQLFetch
<1>4. CASE hstmt.retrieve_data /\ hstmt.open
  BY <1>1, <1>4, FetchWithInv DEF SQLFetch
<1>5. CASE hstmt.retrieve_data /\ ~hstmt.open
  BY <1>1, <1>2, <1>5, StayInv DEF SQLFetch
<1> QED BY <1>3, <1>4, <1>5

\* SQLFetchScroll, with what it does on an open result left open.
LEMMA SQLFetchScrollInv ==
  ASSUME TypeInv, NEW ACTION fetch, SQLFetchScroll(fetch),
         hstmt.res.pos \in Nat /\ fetch => TypeInv'
  PROVE  TypeInv'
<1>1. hstmt.res.pos \in Nat
  BY DEF TypeInv, SQLFetchScroll
<1>2. CASE hstmt.open /\ ~HasError(hstmt)
  BY <1>1, <1>2 DEF SQLFetchScroll
<1>3. CASE ~(hstmt.open /\ ~HasError(hstmt))
  <2>1. "ERROR" \in Rets /\ "NO_DATA" \in Rets
    BY DEF Rets
  <2>2. Return(hstmt, IF HasError(hstmt) THEN "ERROR" ELSE "NO_DATA", NoRows)
    BY <1>3 DEF SQLFetchScroll
  <2> QED BY <1>1, <2>1, <2>2, StayInv
<1> QED BY <1>2, <1>3

\* Entering the recursion of SQL_FETCH_ABSOLUTE.
LEMMA EnterAbsoluteInv ==
  ASSUME TypeInv, hstmt.res.pos \in Nat, NEW offset \in Offsets, EnterAbsolute(offset)
  PROVE  TypeInv'
<1>1. CASE hstmt.forward_only
  <2>1. "ERROR" \in Rets
    BY DEF Rets
  <2> QED BY <1>1, <2>1, StayInv DEF EnterAbsolute
<1>2. CASE ~hstmt.forward_only
  <2> DEFINE lo == [NoLoop EXCEPT !.offset = offset - 1]
  <2>1. /\ call' = "absolute" /\ loop' = lo
        /\ UNCHANGED <<hstmt, cursor, ret, tran, rowset, delivered, parts>>
    BY <1>2 DEF EnterAbsolute
  <2>2. offset \in Int /\ offset - 1 \in Int
    BY OffsetsAssumption
  <2>3. lo \in [offset : Int, chunk : Nat, idx : Nat, row : Int, prior : Int]
    BY <2>2, Starts
  <2> HIDE DEF lo
  <2>4. TypeOK'
    BY <2>1, <2>3 DEF TypeInv, TypeOK
  <2> QED BY <2>1, <2>4 DEF TypeInv, HandleOK, ResultKnown, HasResult
<1> QED BY <1>1, <1>2

\* A level of that recursion.
LEMMA AbsoluteStepInv ==
  ASSUME TypeInv, AbsoluteStep
  PROVE  TypeInv'
<1>0. hstmt.res.pos \in Nat /\ HandleOK(hstmt) /\ loop.offset \in Int
  BY DEF TypeInv, AbsoluteStep, TypeOK
<1>1. PICK fails \in BOOLEAN, fails2 \in BOOLEAN :
       LET g == AbsoluteChunk(hstmt, fails)
           o == SetAbsoluteCurrentChunk(g, loop.offset, fails2)
       IN IF ~Readable(g) THEN Undefined
          ELSE IF o.ret = "AGAIN"
            THEN /\ hstmt' = o.h /\ loop' = [loop EXCEPT !.offset = o.offset]
                 /\ UNCHANGED <<cursor, call, ret, tran, rowset, delivered, parts>>
          ELSE FinishFetch(o.h, o.ret)
  BY DEF AbsoluteStep
<1> DEFINE g == AbsoluteChunk(hstmt, fails)
           o == SetAbsoluteCurrentChunk(g, loop.offset, fails2)
<1>2. HandleOK(g) /\ g.res.pos \in Nat
  BY <1>0, FetchNextOK DEF AbsoluteChunk
<1>3. CASE ~Readable(g)
  BY <1>1, <1>3, UndefinedInv
<1>4. CASE Readable(g)
  <2>1. IF o.ret = "AGAIN"
          THEN /\ hstmt' = o.h /\ loop' = [loop EXCEPT !.offset = o.offset]
               /\ UNCHANGED <<cursor, call, ret, tran, rowset, delivered, parts>>
          ELSE FinishFetch(o.h, o.ret)
    BY <1>1, <1>4
  <2> HIDE DEF g
  <2>2. /\ HandleOK(o.h) /\ o.h.res.pos \in Nat /\ o.offset \in Int
        /\ o.ret \in {"SUCCESS", "NO_DATA", "ERROR", "BEFORE_START", "AGAIN"}
    BY <1>0, <1>2, <1>4, SetAbsoluteCurrentChunkOK
  <2> HIDE DEF o
  <2>3. CASE o.ret = "AGAIN"
    <3>1. /\ hstmt' = o.h /\ loop' = [loop EXCEPT !.offset = o.offset]
          /\ UNCHANGED <<cursor, call, ret, tran, rowset, delivered, parts>>
      BY <2>1, <2>3
    <3>2. loop' \in [offset : Int, chunk : Nat, idx : Nat, row : Int, prior : Int]
      BY <2>2, <3>1 DEF TypeInv, TypeOK
    <3>3. TypeOK'
      BY <2>2, <3>1, <3>2 DEF TypeInv, TypeOK, HandleOK
    <3> QED BY <2>2, <3>1, <3>3 DEF TypeInv, HandleOK, ResultKnown, HasResult
  <2>4. CASE o.ret # "AGAIN"
    BY <2>1, <2>2, <2>4, FinishFetchInv
  <2> QED BY <2>3, <2>4
<1> QED BY <1>3, <1>4

\* SQLGetData.
LEMMA SQLGetDataInv ==
  ASSUME TypeInv, NEW col \in {2, 3}, NEW buf \in BufLens, SQLGetData(col, buf)
  PROVE  TypeInv'
<1>1. CASE ~(Readable(hstmt) /\ hstmt.chunk_row \in 0 .. ChunkSize(hstmt) - 1)
  BY <1>1, UndefinedInv DEF SQLGetData
<1>2. CASE Readable(hstmt) /\ hstmt.chunk_row \in 0 .. ChunkSize(hstmt) - 1
  <2> DEFINE v == GetVariableValue(hstmt, col, ValLen, buf)
             next == IF parts.col = col THEN parts.next ELSE 0
             ok == v.from = next /\ (v.ret = "NO_DATA" => next = ValLen)
  <2>1. col \in Nat /\ buf \in Buffers /\ ValLen \in Nat /\ HandleOK(hstmt)
    BY LengthsAssumption DEF Buffers, TypeInv
  <2>2. PartOK(v, hstmt)
    BY <2>1, GetVariableValueOK
  <2>3. /\ hstmt' = v.h /\ parts' = [col |-> col, next |-> v.from + v.out, ok |-> ok]
        /\ UNCHANGED <<cursor, call, loop, ret, tran, rowset, delivered>>
    BY <1>2 DEF SQLGetData
  <2> HIDE DEF v
  <2>4. /\ HandleOK(v.h) /\ v.h.res = hstmt.res /\ v.from + v.out \in Nat
    BY <2>2 DEF PartOK
  <2>5. ok \in BOOLEAN
    OBVIOUS
  <2> HIDE DEF ok
  <2>6. parts' \in [col : Nat, next : Nat, ok : BOOLEAN]
    BY <2>1, <2>3, <2>4, <2>5
  <2>7. TypeOK'
    BY <2>3, <2>4, <2>6 DEF TypeInv, TypeOK, HandleOK
  <2> QED BY <2>3, <2>4, <2>7 DEF TypeInv, HandleOK, ResultKnown, HasResult
<1> QED BY <1>1, <1>2

\* SQLPrepare, SQLExecute, SQLExecDirect and closing.
LEMMA RestartActionsInv ==
  ASSUME TypeInv,
         \/ SQLPrepare \/ CloseStmt
         \/ \E sizes \in Results : SQLExecute(sizes) \/ SQLExecDirect(sizes)
  PROVE  TypeInv'
<1>0. HandleOK(hstmt) /\ hstmt \in HandleSet
  BY DEF TypeInv, HandleOK
<1>1. "SUCCESS" \in Rets /\ "ERROR" \in Rets /\ TRUE \in BOOLEAN /\ FALSE \in BOOLEAN
  BY DEF Rets
<1> DEFINE p == PrepareQuery(hstmt)
<1>2. HandleOK(p) /\ ResultKnown(p) /\ p.res = NoResult
  <2>1. p.res = NoResult
    <3>1. ClearChunks(hstmt) \in HandleSet
      BY <1>0, Basics DEF HandleSet, ClearChunks
    <3> QED BY <3>1 DEF PrepareQuery, HandleSet
  <2> QED BY <1>0, <2>1, PrepareOK DEF ResultKnown, HasResult
<1> HIDE DEF p
<1>3. HandleOK(FinalizeStmt(p)) /\ ResultKnown(FinalizeStmt(p))
  BY <1>2, PrepareOK DEF ResultKnown, HasResult
<1>4. ASSUME SQLPrepare PROVE TypeInv'
  BY <1>1, <1>2, <1>3, <1>4, RestartInv DEF SQLPrepare, Calling, p
<1>5. ASSUME CloseStmt PROVE TypeInv'
  <2> DEFINE c == ClearChunks(hstmt)
             g == [c EXCEPT !.open = FALSE, !.res = NoResult]
  <2>1. c \in HandleSet /\ c.chunks = << >>
    BY <1>0, Basics DEF HandleSet, ClearChunks
  <2>2. NoResult \in ResultSet /\ NoResult.pos = -1 /\ NoResult.sizes = << >>
    BY DEF NoResult, ResultSet
  <2>3. Restart(g, "SUCCESS", FALSE) /\ call = "idle"
    BY <1>5 DEF CloseStmt, Calling
  <2> HIDE DEF c
  <2>4. g \in HandleSet /\ g.chunks = << >> /\ g.res = NoResult
    BY <2>1, <2>2, Basics DEF HandleSet
  <2> HIDE DEF g
  <2>5. HandleOK(g) /\ ResultKnown(g)
    BY <2>2, <2>4 DEF HandleOK, ResultKnown, HasResult
  <2> QED BY <1>1, <2>3, <2>5, RestartInv
<1>6. ASSUME NEW h, HandleOK(h), NEW sizes \in Results, NEW fails \in BOOLEAN,
             NEW fetchFails \in BOOLEAN, call = "idle",
             LET o == BatchExecuteStmt(h, sizes, fails, fetchFails)
             IN Restart(o.h, o.ret, o.ret = "SUCCESS")
      PROVE  TypeInv'
  <2> DEFINE o == BatchExecuteStmt(h, sizes, fails, fetchFails)
             open == o.ret = "SUCCESS"
  <2>1. HandleOK(o.h) /\ o.h.res.pos \in Nat /\ o.ret \in {"SUCCESS", "ERROR"}
    BY <1>6, BatchExecuteStmtOK
  <2>2. Restart(o.h, o.ret, open) /\ open \in BOOLEAN
    BY <1>6
  <2>3. ResultKnown(o.h) /\ o.ret \in Rets
    BY <2>1 DEF ResultKnown, Rets
  <2> HIDE DEF o, open
  <2> QED BY <1>6, <2>1, <2>2, <2>3, RestartInv
<1>7. ASSUME NEW sizes \in Results, SQLExecute(sizes) PROVE TypeInv'
  BY <1>0, <1>6, <1>7 DEF SQLExecute, Calling
<1>8. ASSUME NEW sizes \in Results, SQLExecDirect(sizes) PROVE TypeInv'
  <2>1. PICK earlier \in BOOLEAN, unprepared \in BOOLEAN, fails \in BOOLEAN,
             fetchFails \in BOOLEAN :
       LET k == IF earlier
                  THEN CloseStream(BatchExecuteStmt(FinalizeStmt(p), sizes, FALSE, FALSE).h)
                  ELSE p
           o == BatchExecuteStmt(FinalizeStmt(k), sizes, fails, fetchFails)
       IN IF unprepared
            THEN Restart([k EXCEPT !.prepared = FALSE], "ERROR", FALSE)
            ELSE Restart(o.h, o.ret, o.ret = "SUCCESS")
    BY <1>8 DEF SQLExecDirect, p
  <2>2. call = "idle"
    BY <1>8 DEF SQLExecDirect, Calling
  <2> DEFINE e == BatchExecuteStmt(FinalizeStmt(p), sizes, FALSE, FALSE).h
             k == IF earlier THEN CloseStream(e) ELSE p
             u == [k EXCEPT !.prepared = FALSE]
  <2>3. HandleOK(e) /\ e.res.pos \in Nat
    BY <1>1, <1>3, BatchExecuteStmtOK
  <2> HIDE DEF e
  <2>4. HandleOK(CloseStream(e)) /\ CloseStream(e).res.pos \in Nat
    BY <2>3, CloseStreamOK
  <2>5. HandleOK(k) /\ ResultKnown(k)
    BY <1>2, <2>4 DEF ResultKnown
  <2>6. CASE unprepared
    <3>1. Restart(u, "ERROR", FALSE)
      BY <2>1, <2>6 DEF e
    <3> HIDE DEF k
    <3>2. u \in HandleSet /\ u.chunks = k.chunks /\ u.res = k.res
      BY <2>5, Basics DEF HandleOK, HandleSet
    <3> HIDE DEF u
    <3>3. HandleOK(u) /\ ResultKnown(u)
      BY <2>5, <3>2 DEF HandleOK, ResultKnown, HasResult
    <3> QED BY <1>1, <2>2, <3>1, <3>3, RestartInv
  <2>7. CASE ~unprepared
    <3>1. LET o == BatchExecuteStmt(FinalizeStmt(k), sizes, fails, fetchFails)
          IN Restart(o.h, o.ret, o.ret = "SUCCESS")
      BY <2>1, <2>7 DEF e
    <3>2. HandleOK(FinalizeStmt(k))
      BY <2>5, PrepareOK
    <3> QED BY <1>6, <2>2, <3>1, <3>2
  <2> QED BY <2>6, <2>7
<1> QED BY <1>4, <1>5, <1>7, <1>8

\* Binding, attributes, and another query of the connection.
LEMMA ConfigureActionsInv ==
  ASSUME TypeInv,
         \/ \E kind \in {"fixed", "variable"} : SQLBindCol(kind)
         \/ Unbind
         \/ \E n \in ArraySizes : SetArraySize(n)
         \/ \E fwd \in CursorTypes : SetCursorType(fwd)
         \/ \E b \in BOOLEAN : SetBindType(b) \/ SetRetrieveData(b)
         \/ OtherQuery
  PROVE  TypeInv'
<1>0. hstmt \in HandleSet /\ HandleOK(hstmt) /\ ResultKnown(hstmt) /\ hstmt.bound_size \in Nat
  BY Fields DEF TypeInv, HandleOK
<1>1. ASSUME NEW g \in HandleSet, g.chunks = hstmt.chunks, g.res = hstmt.res,
             NEW c, Configure(c, g)
      PROVE  TypeInv'
  <2>1. HandleOK(g) /\ ResultKnown(g)
    BY <1>0, <1>1 DEF HandleOK, ResultKnown, HasResult
  <2> QED BY <1>1, <2>1, ConfigureInv
<1>2. ASSUME NEW kind \in {"fixed", "variable"}, SQLBindCol(kind) PROVE TypeInv'
  <2> DEFINE n == IF hstmt.bound_size = 0 THEN 1 ELSE hstmt.bound_size
             g == [hstmt EXCEPT !.cols = kind, !.bound_size = n]
  <2>1. n \in Counts /\ kind \in ColKinds
    BY <1>0 DEF Counts, ColKinds
  <2>2. Configure("bind", g)
    BY <1>2 DEF SQLBindCol
  <2> HIDE DEF n
  <2>3. g \in HandleSet /\ g.chunks = hstmt.chunks /\ g.res = hstmt.res
    BY <1>0, <2>1 DEF HandleSet
  <2> QED BY <1>1, <2>2, <2>3
<1>3. ASSUME Unbind PROVE TypeInv'
  <2> DEFINE g == [hstmt EXCEPT !.cols = "none", !.bound_size = 0]
  <2>1. "none" \in ColKinds
    BY DEF ColKinds
  <2>2. g \in HandleSet /\ g.chunks = hstmt.chunks /\ g.res = hstmt.res
    BY <1>0, <2>1, Basics DEF HandleSet
  <2> QED BY <1>1, <1>3, <2>2 DEF Unbind
<1>4. ASSUME NEW n \in ArraySizes, SetArraySize(n) PROVE TypeInv'
  <2> DEFINE g == [hstmt EXCEPT !.array_size = n]
  <2>1. n \in Positives
    BY ArraySizesAssumption DEF Positives
  <2>2. g \in HandleSet /\ g.chunks = hstmt.chunks /\ g.res = hstmt.res
    BY <1>0, <2>1 DEF HandleSet
  <2> QED BY <1>1, <1>4, <2>2 DEF SetArraySize
<1>5. ASSUME NEW fwd \in CursorTypes, SetCursorType(fwd) PROVE TypeInv'
  <2> DEFINE g == [hstmt EXCEPT !.forward_only = fwd]
  <2>1. fwd \in Flags
    BY CursorTypesAssumption DEF Flags
  <2>2. g \in HandleSet /\ g.chunks = hstmt.chunks /\ g.res = hstmt.res
    BY <1>0, <2>1 DEF HandleSet
  <2> QED BY <1>1, <1>5, <2>2 DEF SetCursorType
<1>6. ASSUME NEW b \in BOOLEAN, SetBindType(b) PROVE TypeInv'
  <2> DEFINE f == hstmt.by_column /\ b
             g == [hstmt EXCEPT !.by_column = f]
  <2>1. f \in Flags
    BY DEF Flags
  <2>2. Configure("bind_type", g)
    BY <1>6 DEF SetBindType
  <2> HIDE DEF f
  <2>3. g \in HandleSet /\ g.chunks = hstmt.chunks /\ g.res = hstmt.res
    BY <1>0, <2>1 DEF HandleSet
  <2> QED BY <1>1, <2>2, <2>3
<1>7. ASSUME NEW b \in BOOLEAN, SetRetrieveData(b) PROVE TypeInv'
  <2> DEFINE g == [hstmt EXCEPT !.retrieve_data = b]
  <2>1. b \in Flags
    BY DEF Flags
  <2>2. g \in HandleSet /\ g.chunks = hstmt.chunks /\ g.res = hstmt.res
    BY <1>0, <2>1 DEF HandleSet
  <2> QED BY <1>1, <1>7, <2>2 DEF SetRetrieveData
<1>8. ASSUME OtherQuery PROVE TypeInv'
  <2>1. ResultKnown(CloseStream(hstmt))
    BY <1>0, CloseStreamOK DEF ResultKnown, CloseStream, HasResult
  <2> QED BY <1>0, <1>8, <2>1, CloseStreamOK, ConfigureInv DEF OtherQuery
<1> QED BY <1>2, <1>3, <1>4, <1>5, <1>6, <1>7, <1>8

\* SQLEndTran: entering Materialize, one iteration of it, and a rollback.
LEMMA EndTranInv ==
  ASSUME TypeInv, SQLEndTranCommit \/ MaterializeStep \/ SQLEndTranRollback
  PROVE  TypeInv'
<1> DEFINE Loops == [offset : Int, chunk : Nat, idx : Nat, row : Int, prior : Int]
<1>0. hstmt \in HandleSet /\ HandleOK(hstmt) /\ ResultKnown(hstmt) /\ loop \in Loops
  BY DEF TypeInv, TypeOK, HandleOK
<1>1. ASSUME SQLEndTranCommit PROVE TypeInv'
  <2> DEFINE skip == ~hstmt.prepared \/ ~HasResult(hstmt) \/ HasError(hstmt)
             lo == [NoLoop EXCEPT !.chunk = hstmt.current_chunk,
                                  !.idx = hstmt.current_chunk_idx,
                                  !.row = hstmt.chunk_row,
                                  !.prior = hstmt.prior_chunk_row]
  <2>1. UNCHANGED <<hstmt, cursor, ret, rowset, delivered, parts>>
    BY <1>1 DEF SQLEndTranCommit
  <2>2. /\ hstmt.current_chunk \in Nat /\ hstmt.current_chunk_idx \in Nat
        /\ hstmt.chunk_row \in Int /\ hstmt.prior_chunk_row \in Int
    BY <1>0, Fields
  <2>3. lo \in Loops
    BY <2>2, Starts
  <2>4. IF skip THEN tran' = "SUCCESS" /\ UNCHANGED <<call, loop>>
        ELSE call' = "materialize" /\ loop' = lo /\ UNCHANGED tran
    BY <1>1 DEF SQLEndTranCommit
  <2>5. ~skip => hstmt.res.pos \in Nat
    BY <1>0 DEF ResultKnown
  <2> HIDE DEF lo, skip
  <2>6. TypeOK'
    BY <1>0, <2>1, <2>3, <2>4 DEF TypeInv, TypeOK
  <2>7. cursor' \/ call' \in {"absolute", "materialize"} => hstmt'.res.pos \in Nat
    BY <2>1, <2>4, <2>5 DEF TypeInv
  <2> QED BY <1>0, <2>1, <2>6, <2>7 DEF TypeInv, HandleOK, ResultKnown, HasResult
<1>2. ASSUME MaterializeStep PROVE TypeInv'
  <2>0. hstmt.res.pos \in Nat
    BY <1>2 DEF MaterializeStep, TypeInv
  <2>1. PICK fails \in BOOLEAN :
          LET o == FetchNext(hstmt, fails)
          IN IF Succeeded(o.ret)
               THEN hstmt' = o.h /\ UNCHANGED <<call, loop, tran>>
               ELSE /\ hstmt' = Restore(o.h)
                    /\ tran' = IF o.ret = "NO_DATA" THEN "SUCCESS" ELSE "ERROR"
                    /\ call' = "idle" /\ loop' = NoLoop
    BY <1>2 DEF MaterializeStep
  <2> DEFINE o == FetchNext(hstmt, fails)
  <2>2. HandleOK(o.h) /\ o.h.res.pos \in Nat
    BY <1>0, <2>0, FetchNextOK
  <2> HIDE DEF o
  <2>3. HandleOK(Restore(o.h)) /\ Restore(o.h).res.pos \in Nat
    <3>1. CASE loop.chunk = NoChunk
      BY <2>2, <3>1, BeforeStartOK DEF Restore
    <3>2. CASE loop.chunk # NoChunk
      <4> DEFINE k == o.h
                 g == [k EXCEPT !.current_chunk = loop.chunk, !.current_chunk_idx = loop.idx,
                                !.chunk_row = loop.row, !.prior_chunk_row = loop.prior]
      <4>1. /\ loop.chunk \in Counts /\ loop.idx \in Counts
            /\ loop.row \in Indexes /\ loop.prior \in Indexes
        BY <1>0 DEF Counts, Indexes
      <4>2. Restore(o.h) = g
        BY <3>2 DEF Restore
      <4>3. HandleOK(k) /\ k.res.pos \in Nat
        BY <2>2
      <4> HIDE DEF k
      <4>4. g \in HandleSet /\ g.chunks = k.chunks /\ g.res = k.res
        BY <4>1, <4>3 DEF HandleOK, HandleSet
      <4> HIDE DEF g
      <4>5. HandleOK(g) /\ g.res.pos \in Nat
        BY <4>3, <4>4 DEF HandleOK
      <4> QED BY <4>2, <4>5
    <3> QED BY <3>1, <3>2
  <2>4. /\ hstmt' \in {o.h, Restore(o.h)}
        /\ call' \in {call, "idle"} /\ loop' \in {loop, NoLoop}
        /\ tran' \in {tran, "SUCCESS", "ERROR"}
        /\ UNCHANGED <<cursor, ret, rowset, delivered, parts>>
    BY <1>2, <2>1 DEF MaterializeStep, o
  <2>5. HandleOK(hstmt') /\ hstmt'.res.pos \in Nat /\ hstmt' \in HandleSet
    BY <2>2, <2>3, <2>4 DEF HandleOK
  <2>6. TypeOK'
    BY <2>4, <2>5, Starts DEF TypeInv, TypeOK
  <2> QED BY <2>5, <2>6 DEF TypeInv, HandleOK, ResultKnown
<1>3. ASSUME SQLEndTranRollback PROVE TypeInv'
  <2>1. HandleOK(CloseStream(hstmt)) /\ CloseStream(hstmt).res.pos = hstmt.res.pos
    BY <1>0, CloseStreamOK
  <2>2. ResultKnown(CloseStream(hstmt))
    BY <1>0, <2>1 DEF ResultKnown, CloseStream, HasResult
  <2>3. /\ hstmt' = CloseStream(hstmt) /\ tran' \in {"SUCCESS", "ERROR"}
        /\ UNCHANGED <<cursor, call, loop, ret, rowset, delivered, parts>>
    BY <1>3 DEF SQLEndTranRollback
  <2>4. TypeOK'
    BY <2>1, <2>3 DEF TypeInv, TypeOK, HandleOK
  <2> QED BY <2>1, <2>2, <2>3, <2>4 DEF TypeInv, HandleOK, ResultKnown, HasResult
<1> QED BY <1>1, <1>2, <1>3

\* A new handle.
LEMMA InitInv ==
  Init => TypeInv
<1> SUFFICES ASSUME Init PROVE TypeInv
  OBVIOUS
<1>1. NewHandle \in HandleSet /\ NewHandle.chunks = << >> /\ NewHandle.res = NoResult
  <2>1. NoResult \in ResultSet /\ "none" \in ColKinds /\ 1 \in Positives
    BY DEF NoResult, ResultSet, ColKinds, Positives
  <2> QED BY <2>1, Basics DEF NewHandle, HandleSet
<1>2. PICK fwd \in CursorTypes : hstmt = [NewHandle EXCEPT !.forward_only = fwd]
  BY DEF Init
<1>3. fwd \in Flags
  BY CursorTypesAssumption DEF Flags
<1>4. hstmt \in HandleSet /\ hstmt.chunks = << >> /\ hstmt.res = NoResult
  BY <1>1, <1>2, <1>3 DEF HandleSet
<1>5. NoResult.pos = -1 /\ NoResult.sizes = << >>
  BY DEF NoResult
<1>6. HandleOK(hstmt) /\ ResultKnown(hstmt)
  BY <1>4, <1>5 DEF HandleOK, ResultKnown, HasResult
<1>7. TypeOK
  BY <1>4, Starts DEF Init, TypeOK, RowSets
<1> QED BY <1>6, <1>7 DEF Init, TypeInv

\* The strengthened type invariant holds: every call keeps the chunks held and
\* the stream position within the result, and neither a fetch nor Materialize
\* asks a handle without a result for a chunk.
THEOREM TypeInvariance == Spec => []TypeInv
<1>1. TypeInv /\ [Next]_vars => TypeInv'
  <2> SUFFICES ASSUME TypeInv, [Next]_vars PROVE TypeInv'
    OBVIOUS
  <2>1. CASE UNCHANGED vars
    BY <2>1 DEF vars, TypeInv, TypeOK, HandleOK, ResultKnown, HasResult
  <2>2. ASSUME \/ SQLPrepare \/ CloseStmt
               \/ \E sizes \in Results : SQLExecute(sizes) \/ SQLExecDirect(sizes)
        PROVE  TypeInv'
    BY <2>2, RestartActionsInv
  <2>3. ASSUME SQLFetch PROVE TypeInv'
    BY <2>3, SQLFetchInv
  <2>4. ASSUME NEW o \in {"NEXT", "PRIOR", "FIRST"}, SQLFetchScroll(FetchWith(o))
        PROVE  TypeInv'
    BY <2>4, SQLFetchScrollInv, FetchWithInv
  <2>5. ASSUME SQLFetchNext \/ SQLFetchPrior \/ SQLFetchFirst PROVE TypeInv'
    BY <2>4, <2>5 DEF SQLFetchNext, SQLFetchPrior, SQLFetchFirst
  <2>6. ASSUME NEW offset \in Offsets, SQLFetchAbsolute(offset) PROVE TypeInv'
    BY <2>6, SQLFetchScrollInv, EnterAbsoluteInv DEF SQLFetchAbsolute
  <2>7. ASSUME AbsoluteStep PROVE TypeInv'
    BY <2>7, AbsoluteStepInv
  <2>8. ASSUME NEW col \in {2, 3}, NEW buf \in BufLens, SQLGetData(col, buf) PROVE TypeInv'
    BY <2>8, SQLGetDataInv
  <2>9. ASSUME \/ \E kind \in {"fixed", "variable"} : SQLBindCol(kind)
               \/ Unbind
               \/ \E n \in ArraySizes : SetArraySize(n)
               \/ \E fwd \in CursorTypes : SetCursorType(fwd)
               \/ \E b \in BOOLEAN : SetBindType(b) \/ SetRetrieveData(b)
               \/ OtherQuery
        PROVE  TypeInv'
    BY <2>9, ConfigureActionsInv
  <2>10. ASSUME SQLEndTranCommit \/ MaterializeStep \/ SQLEndTranRollback PROVE TypeInv'
    BY <2>10, EndTranInv
  <2> QED BY <2>1, <2>2, <2>3, <2>5, <2>6, <2>7, <2>8, <2>9, <2>10 DEF Next
<1> QED BY <1>1, InitInv, PTL DEF Spec

\* Every call keeps the types, whatever the results, the attributes and the
\* order of the calls: current_chunk_idx, which the driver decrements when it
\* scrolls back, stays a natural number, and so do all lengths and counts.
THEOREM TypeCorrect == Spec => []TypeOK
<1>1. TypeInv => TypeOK
  BY DEF TypeInv
<1> QED BY <1>1, TypeInvariance, PTL
----------------------------------------------------------------------------
(***************************************************************************)
(* The two loops of the driver: what each round of them uses up.           *)
(***************************************************************************)
\* A level of the recursion of SetAbsoluteCurrentChunk that recurses has a positive
\* offset, and passes on one that is less by the rows of the chunk it moved to.
LEMMA AgainIsLess ==
  ASSUME NEW h, HandleOK(h), h.res.pos \in Nat, Readable(h),
         NEW offset \in Int, NEW fails \in BOOLEAN,
         SetAbsoluteCurrentChunk(h, offset, fails).ret = "AGAIN"
  PROVE  LET o == SetAbsoluteCurrentChunk(h, offset, fails)
         IN offset > 0 /\ o.offset < offset /\ o.offset = offset - ChunkSize(o.h)
<1> DEFINE size == ChunkSize(h)
           next == FetchNext(h, fails)
           o == SetAbsoluteCurrentChunk(h, offset, fails)
           again == [h |-> next.h, ret |-> "AGAIN", offset |-> OffsetLeft(next.h, offset)]
<1>1. size \in Nat \ {0}
  BY ChunkSizeOK
<1>2. /\ next.ret \in {"SUCCESS", "NO_DATA", "ERROR"}
      /\ next.ret = "SUCCESS" => ChunkSize(next.h) \in Nat \ {0}
  BY FetchNextOK, ChunkSizeOK
<1> HIDE DEF next, size
<1>3. offset >= size /\ next.ret = "SUCCESS" /\ o = again
  BY <1>1, <1>2 DEF SetAbsoluteCurrentChunk, next, size, BeforeStart, Outcome
<1>4. o.h = next.h /\ o.offset = offset - ChunkSize(next.h)
  BY <1>3 DEF OffsetLeft
<1> HIDE DEF o
<1>5. offset > 0 /\ o.offset < offset
  BY <1>1, <1>2, <1>3, <1>4
<1> QED BY <1>4, <1>5 DEF o

\* FetchNext, before the end was seen, succeeds only with a chunk taken from the engine,
\* and does not come to the end by that.
LEMMA FetchTakesChunk ==
  ASSUME NEW h, HandleOK(h), h.res.pos \in Nat, NEW fails \in BOOLEAN, ~h.resultset_end,
         FetchNext(h, fails).ret = "SUCCESS"
  PROVE  LET g == FetchNext(h, fails).h
         IN /\ ~g.resultset_end /\ g.res.sizes = h.res.sizes
            /\ g.res.pos = h.res.pos + 1 /\ g.res.pos <= Len(h.res.sizes)
<1> DEFINE g == ResetLastFetchedVariableVal(h)
           k == KeepChunk(g)
           cs == IF g.forward_only THEN << g.res.pos + 1 >> ELSE Append(g.chunks, g.res.pos + 1)
           rs == [g.res EXCEPT !.pos = g.res.pos + 1]
           last == Len(k.chunks) - 1
           idx == IF ~k.forward_only /\ k.current_chunk_idx < last
                    THEN k.current_chunk_idx + 1 ELSE last
           m == [k EXCEPT !.current_chunk_idx = idx, !.current_chunk = k.chunks[idx + 1],
                          !.chunk_row = -1, !.prior_chunk_row = -1]
<1>1. HandleOK(g) /\ g.res = h.res /\ g.resultset_end = h.resultset_end
  BY ResetOK DEF ResetLastFetchedVariableVal, HandleOK, HandleSet
<1>2. g \in HandleSet /\ g.res \in ResultSet
  BY <1>1, Fields DEF HandleOK
<1> HIDE DEF g
<1>3. ~(fails \/ h.res.closed) /\ h.res.pos # Len(h.res.sizes)
  BY DEF FetchNext, Outcome
<1>4. FetchNext(h, fails) = SetCurrentChunk(k)
  BY <1>3 DEF FetchNext, g
<1>5. /\ HandleOK(k) /\ k \in HandleSet
  BY <1>1, <1>3, KeepChunkOK DEF HandleOK
<1>6. k = [g EXCEPT !.chunks = cs, !.res = rs]
  BY DEF KeepChunk
<1>7. rs.pos = h.res.pos + 1 /\ rs.sizes = h.res.sizes
  BY <1>1, <1>2 DEF ResultSet
<1> HIDE DEF k, cs, rs
<1>8. k.res = rs /\ k.resultset_end = h.resultset_end
  BY <1>1, <1>2, <1>6 DEF HandleSet
<1>9. SetCurrentChunk(k) = Outcome(m, "SUCCESS")
  BY <1>4 DEF SetCurrentChunk, Outcome
<1> HIDE DEF idx
<1>10. m.res = k.res /\ m.resultset_end = k.resultset_end
  BY <1>5 DEF HandleSet
<1>11. FetchNext(h, fails).h = m
  BY <1>4, <1>9 DEF Outcome
<1>12. k.res.pos <= Len(k.res.sizes)
  BY <1>5 DEF HandleOK
<1> HIDE DEF m
<1> QED BY <1>7, <1>8, <1>10, <1>11, <1>12

\* Only a level that recurses stays in the call.
LEMMA FinishReturns ==
  ASSUME NEW h, NEW r \in {"SUCCESS", "NO_DATA", "ERROR", "BEFORE_START"}, FinishFetch(h, r)
  PROVE  call' \in {"idle", "undefined"}
BY DEF FinishFetch, Return, Undefined

\* Every level of SetAbsoluteCurrentChunk that recurses had a positive offset and leaves
\* less of it: the recursion is no deeper than the offset the application gave.
AbsoluteAdvancesStep ==
  call = "absolute" /\ call' = "absolute" =>
    /\ loop.offset > 0
    /\ loop'.offset < loop.offset /\ loop'.offset = loop.offset - ChunkSize(hstmt')
AbsoluteAdvances == [][AbsoluteAdvancesStep]_vars

\* Every iteration of the loop of Materialize takes a chunk from the engine, as long as the
\* end of the result was not seen before the commit.
CommitAdvancesStep ==
  call = "materialize" /\ call' = "materialize" /\ ~hstmt.resultset_end =>
    /\ ~hstmt'.resultset_end /\ hstmt'.res.sizes = hstmt.res.sizes
    /\ hstmt'.res.pos = hstmt.res.pos + 1 /\ hstmt'.res.pos <= Len(hstmt.res.sizes)
CommitAdvances == [][CommitAdvancesStep]_vars

\* The application makes no call while the driver is in one.
LEMMA OnlyLoops ==
  ASSUME Next, call \in {"absolute", "materialize"}
  PROVE  (call = "absolute" /\ AbsoluteStep) \/ (call = "materialize" /\ MaterializeStep)
BY DEF Next, SQLPrepare, SQLExecute, SQLExecDirect, CloseStmt, SQLFetch, SQLFetchNext,
       SQLFetchPrior, SQLFetchFirst, SQLFetchAbsolute, AbsoluteStep, SQLGetData, SQLBindCol,
       Unbind, SetArraySize, SetCursorType, SetBindType, SetRetrieveData, Configure,
       SQLEndTranCommit, MaterializeStep, SQLEndTranRollback, OtherQuery, Calling

\* The recursion of SQL_FETCH_ABSOLUTE uses up the offset at every level, for every
\* application, result, engine failure and cursor type.
THEOREM AbsoluteBounded == Spec => AbsoluteAdvances
<1>1. TypeInv /\ [Next]_vars => [AbsoluteAdvancesStep]_vars
  <2> SUFFICES ASSUME TypeInv, Next, call = "absolute", call' = "absolute"
               PROVE  /\ loop.offset > 0
                      /\ loop'.offset < loop.offset /\ loop'.offset = loop.offset - ChunkSize(hstmt')
    BY DEF AbsoluteAdvancesStep
  <2>1. AbsoluteStep
    BY OnlyLoops
  <2>2. /\ hstmt.res.pos \in Nat /\ HandleOK(hstmt)
        /\ loop \in [offset : Int, chunk : Nat, idx : Nat, row : Int, prior : Int]
    BY DEF TypeInv, TypeOK
  <2>3. PICK fails \in BOOLEAN, fails2 \in BOOLEAN :
         LET g == AbsoluteChunk(hstmt, fails)
             o == SetAbsoluteCurrentChunk(g, loop.offset, fails2)
         IN IF ~Readable(g) THEN Undefined
            ELSE IF o.ret = "AGAIN"
              THEN /\ hstmt' = o.h /\ loop' = [loop EXCEPT !.offset = o.offset]
                   /\ UNCHANGED <<cursor, call, ret, tran, rowset, delivered, parts>>
            ELSE FinishFetch(o.h, o.ret)
    BY <2>1 DEF AbsoluteStep
  <2> DEFINE g == AbsoluteChunk(hstmt, fails)
             o == SetAbsoluteCurrentChunk(g, loop.offset, fails2)
  <2>4. HandleOK(g) /\ g.res.pos \in Nat
    BY <2>2, FetchNextOK DEF AbsoluteChunk
  <2>5. Readable(g)
    BY <2>3 DEF Undefined
  <2>6. o.ret \in {"SUCCESS", "NO_DATA", "ERROR", "BEFORE_START", "AGAIN"}
    BY <2>2, <2>4, <2>5, SetAbsoluteCurrentChunkOK
  <2>7. o.ret = "AGAIN"
    <3>1. o.ret = "AGAIN" \/ FinishFetch(o.h, o.ret)
      BY <2>3, <2>5
    <3> HIDE DEF o
    <3> QED BY <2>6, <3>1, FinishReturns
  <2>8. hstmt' = o.h /\ loop' = [loop EXCEPT !.offset = o.offset]
    BY <2>3, <2>5, <2>7
  <2>9. loop.offset > 0 /\ o.offset < loop.offset /\ o.offset = loop.offset - ChunkSize(o.h)
    BY <2>2, <2>4, <2>5, <2>7, AgainIsLess
  <2> HIDE DEF o
  <2>10. loop'.offset = o.offset
    BY <2>2, <2>8
  <2> QED BY <2>8, <2>9, <2>10
<1> QED BY <1>1, TypeInvariance, PTL DEF Spec, AbsoluteAdvances

\* A commit fetches each remaining chunk once, for every application: the loop of
\* Materialize can only fail to end if the end of the result was seen before it.
THEOREM CommitBounded == Spec => CommitAdvances
<1>1. TypeInv /\ [Next]_vars => [CommitAdvancesStep]_vars
  <2> SUFFICES ASSUME TypeInv, Next, call = "materialize", call' = "materialize",
                      ~hstmt.resultset_end
               PROVE  /\ ~hstmt'.resultset_end /\ hstmt'.res.sizes = hstmt.res.sizes
                      /\ hstmt'.res.pos = hstmt.res.pos + 1
                      /\ hstmt'.res.pos <= Len(hstmt.res.sizes)
    BY DEF CommitAdvancesStep
  <2>1. MaterializeStep
    BY OnlyLoops
  <2>2. hstmt.res.pos \in Nat /\ HandleOK(hstmt)
    BY DEF TypeInv
  <2>3. PICK fails \in BOOLEAN :
          LET o == FetchNext(hstmt, fails)
          IN Succeeded(o.ret) /\ hstmt' = o.h
    BY <2>1 DEF MaterializeStep
  <2>4. FetchNext(hstmt, fails).ret = "SUCCESS"
    BY <2>2, <2>3, FetchNextOK DEF Succeeded
  <2> QED BY <2>2, <2>3, <2>4, FetchTakesChunk
<1> QED BY <1>1, TypeInvariance, PTL DEF Spec, CommitAdvances
----------------------------------------------------------------------------
(***************************************************************************)
(* What an application that only reads forward may rely on, for every      *)
(* result, row array size, cursor type and order of its calls.             *)
(***************************************************************************)
\* The calls that move the cursor backwards, or lose the row it is on.
NotForward == {"prior", "first", "absolute", "commit", "unbind", "retrieve_data"}

\* The chunks held are consecutive and end with the last one delivered by the
\* engine; that is the current one.
Consistent(h) ==
  /\ \A i \in 1..Len(h.chunks) : h.chunks[i] = h.res.pos - Len(h.chunks) + i
  /\ h.chunks = << >> => /\ h.current_chunk = NoChunk /\ h.chunk_row = -1
                         /\ h.res.pos <= 0
  /\ h.chunks # << >> => /\ h.current_chunk = h.res.pos
                         /\ h.current_chunk_idx = Len(h.chunks) - 1
                         /\ h.chunk_row \in -1 .. h.res.sizes[h.res.pos] - 1
  /\ h.resultset_end => h.res.pos = Len(h.res.sizes)

\* No row is left.
AtEnd(h) ==
  h.resultset_end /\ (h.chunks # << >> => h.chunk_row = h.res.sizes[h.res.pos] - 1)

\* The row the cursor of a handle is on.
RowOf(h) == [chunk |-> IF h.res.pos <= 0 THEN 1 ELSE h.res.pos, row |-> h.chunk_row]

\* The parts of a value the application has seen, against what the driver
\* remembers of them.
PartsKnown(h, p) ==
  IF p.col = 0 THEN h.last.col \notin {2, 3} \/ h.last.row # h.chunk_row
  ELSE /\ h.last.col = p.col /\ h.last.row = h.chunk_row /\ h.last.length = p.next
       /\ p.next <= ValLen

\* What holds while a cursor is open on a healthy result.
Reading ==
  /\ delivered = RowOf(hstmt)
  /\ hstmt.last.row <= hstmt.chunk_row
  /\ ret = "NO_DATA" => AtEnd(hstmt)
  /\ Succeeded(ret) /\ rowset.chunk # NoChunk =>
       hstmt.chunk_row >= 0 /\ PartsKnown(hstmt, parts)

ForwardInv ==
  /\ call = "idle" /\ hstmt.retrieve_data = TRUE
  /\ Consistent(hstmt)
  /\ hstmt.prepared \/ cursor => hstmt.bound_size = Columns
  /\ ~cursor => ret # "NO_DATA"
  /\ cursor /\ ~hstmt.open => ret \in {"ERROR", "NO_DATA"}
  /\ cursor /\ hstmt.open => Reading
  /\ parts.ok = TRUE /\ rowset.from = 0
----------------------------------------------------------------------------
(***************************************************************************)
(* The operations of OdbcFetch on a consistent handle.                     *)
(***************************************************************************)
\* g has the binding and the attributes of h.
Keeps(g, h) ==
  /\ g.prepared = h.prepared /\ g.bound_size = h.bound_size
  /\ g.retrieve_data = h.retrieve_data

\* g has the position of h as well.
SamePlace(g, h) ==
  /\ Keeps(g, h)
  /\ g.chunks = h.chunks /\ g.res.pos = h.res.pos /\ g.res.sizes = h.res.sizes
  /\ g.current_chunk = h.current_chunk /\ g.current_chunk_idx = h.current_chunk_idx
  /\ g.chunk_row = h.chunk_row

\* A handle in the same place, with the same view of the end, is as consistent.
LEMMA SamePlaceConsistent ==
  ASSUME NEW h, NEW g, Consistent(h), SamePlace(g, h),
         g.resultset_end => h.resultset_end \/ h.res.pos = Len(h.res.sizes)
  PROVE  Consistent(g) /\ RowOf(g) = RowOf(h)
BY DEF Consistent, SamePlace, RowOf

\* ResetLastFetchedVariableVal leaves the position alone.
LEMMA ResetPlace ==
  ASSUME NEW h \in HandleSet
  PROVE  LET g == ResetLastFetchedVariableVal(h)
         IN /\ SamePlace(g, h) /\ g.resultset_end = h.resultset_end /\ g.open = h.open
            /\ g.res = h.res /\ g.last = NoLast
BY DEF HandleSet, ResetLastFetchedVariableVal, SamePlace, Keeps

\* The chunk a consistent handle is in.
LEMMA CurrentPlace ==
  ASSUME NEW h, HandleOK(h), Consistent(h), h.chunks # << >>
  PROVE  /\ LastChunk(h) = h.res.pos /\ h.res.pos \in 1..Len(h.res.sizes)
         /\ h.res.sizes[h.res.pos] \in Nat \ {0}
         /\ h.chunk_row \in -1 .. h.res.sizes[h.res.pos] - 1
         /\ Readable(h) /\ ChunkSize(h) = h.res.sizes[h.res.pos]
<1> DEFINE n == Len(h.chunks)
<1>0. h \in HandleSet
  BY DEF HandleOK
<1>1. n \in Nat /\ n \in 1..n /\ h.res.pos \in Int
  BY <1>0, Fields, Sizes
<1>2. h.chunks[n] = h.res.pos - n + n
  <2>1. \A i \in 1..n : h.chunks[i] = h.res.pos - n + i
    BY DEF Consistent
  <2> HIDE DEF n
  <2> QED BY <1>1, <2>1
<1>3. h.chunks[n] \in 1..Len(h.res.sizes)
  BY <1>1 DEF HandleOK
<1> HIDE DEF n
<1>4. h.chunks[n] = h.res.pos
  BY <1>1, <1>2
<1>5. h.res.sizes[h.res.pos] \in Nat \ {0}
  BY <1>0, <1>3, <1>4, Sizes
<1>6. h.current_chunk = h.res.pos /\ h.chunk_row \in -1 .. h.res.sizes[h.res.pos] - 1
  BY DEF Consistent
<1> QED BY <1>1, <1>3, <1>4, <1>5, <1>6 DEF LastChunk, Readable, Held, ChunkSize, n

\* Closing the stream leaves the position alone.
LEMMA CloseStreamPlace ==
  ASSUME NEW h, HandleOK(h)
  PROVE  LET g == CloseStream(h)
         IN /\ SamePlace(g, h) /\ g.resultset_end = h.resultset_end /\ g.open = h.open
            /\ g.last = h.last
<1> DEFINE r == [h.res EXCEPT !.closed = TRUE]
           g == [h EXCEPT !.res = r]
<1>0. h \in HandleSet /\ h.res \in ResultSet
  BY Fields DEF HandleOK
<1>1. r.pos = h.res.pos /\ r.sizes = h.res.sizes
  BY <1>0 DEF ResultSet
<1> HIDE DEF r
<1>2. /\ Keeps(g, h) /\ g.chunks = h.chunks /\ g.res = r
      /\ g.current_chunk = h.current_chunk /\ g.current_chunk_idx = h.current_chunk_idx
      /\ g.chunk_row = h.chunk_row /\ g.resultset_end = h.resultset_end
      /\ g.open = h.open /\ g.last = h.last
  BY <1>0 DEF HandleSet, Keeps
<1>3. CloseStream(h) = IF HasResult(h) /\ ~h.resultset_end THEN g ELSE h
  BY DEF CloseStream, r
<1> HIDE DEF g
<1> QED BY <1>1, <1>2, <1>3 DEF SamePlace, Keeps

\* A chunk the engine delivers becomes the last one held and the current one.
LEMMA NewChunkPlace ==
  ASSUME NEW h, HandleOK(h), Consistent(h), h.res.pos \in Nat,
         h.res.pos # Len(h.res.sizes), ~h.resultset_end
  PROVE  LET o == SetCurrentChunk(KeepChunk(h))
         IN /\ o.ret = "SUCCESS" /\ Consistent(o.h) /\ Keeps(o.h, h)
            /\ o.h.chunks # << >> /\ o.h.chunk_row = -1
            /\ o.h.res.pos = h.res.pos + 1 /\ o.h.res.sizes = h.res.sizes
            /\ o.h.open = h.open /\ o.h.last = h.last
            /\ ~o.h.resultset_end /\ o.h.forward_only = h.forward_only
<1> DEFINE c   == h.res.pos + 1
           cs  == IF h.forward_only THEN << c >> ELSE Append(h.chunks, c)
           res == [h.res EXCEPT !.pos = c]
           k   == KeepChunk(h)
           n   == Len(cs)
           g   == [k EXCEPT !.current_chunk_idx = n - 1, !.current_chunk = c,
                            !.chunk_row = -1, !.prior_chunk_row = -1]
<1>0. h \in HandleSet /\ HandleOK(k) /\ k \in HandleSet
  BY KeepChunkOK DEF HandleOK
<1>1. /\ h.chunks \in Seq(Nat \ {0}) /\ h.forward_only \in BOOLEAN /\ h.res \in ResultSet
      /\ h.current_chunk_idx \in Nat
  BY <1>0, Fields
<1>2. res.pos = c /\ res.sizes = h.res.sizes
  BY <1>1 DEF ResultSet
<1>3. h.res.sizes \in Seq(Nat \ {0})
  BY <1>0, Sizes
<1>4. c \in 1..Len(h.res.sizes) /\ h.res.sizes[c] \in Nat \ {0}
  BY <1>3 DEF HandleOK
<1>5. /\ cs \in Seq(Nat) /\ cs # << >> /\ n \in Nat \ {0} /\ cs[n] = c
      /\ \A i \in 1..n : cs[i] = c - n + i
  <2>1. CASE h.forward_only
    BY <2>1
  <2>2. CASE ~h.forward_only
    <3>1. n = Len(h.chunks) + 1 /\ cs[n] = c /\ cs \in Seq(Nat) /\ cs # << >>
      BY <1>1, <2>2
    <3>2. ASSUME NEW i \in 1..n PROVE cs[i] = c - n + i
      <4>1. CASE i = n
        BY <3>1, <4>1
      <4>2. CASE i # n
        <5>1. i \in 1..Len(h.chunks) /\ Len(h.chunks) \in Nat
          <6> HIDE DEF cs, n
          <6> QED BY <1>1, <3>1, <4>2
        <5>2. cs[i] = h.chunks[i]
          BY <1>1, <1>4, <2>2, <5>1
        <5>3. h.chunks[i] = h.res.pos - Len(h.chunks) + i
          BY <5>1 DEF Consistent
        <5> HIDE DEF cs, n
        <5> QED BY SMTT(30), <3>1, <5>1, <5>2, <5>3
      <4> QED BY <4>1, <4>2
    <3>3. n \in Nat \ {0}
      BY <1>1, <3>1
    <3> QED BY <3>1, <3>2, <3>3
  <2> QED BY <2>1, <2>2
<1>6. /\ k.chunks = cs /\ k.res = res /\ k.forward_only = h.forward_only
      /\ k.current_chunk_idx = h.current_chunk_idx /\ k.open = h.open /\ k.last = h.last
      /\ k.resultset_end = h.resultset_end /\ Keeps(k, h)
  BY <1>0 DEF KeepChunk, HandleSet, Keeps
<1>7. ~k.forward_only /\ k.current_chunk_idx < n - 1 => k.current_chunk_idx + 1 = n - 1
  <2>1. CASE h.chunks = << >>
    BY <1>1, <1>6, <2>1
  <2>2. CASE h.chunks # << >>
    BY <1>1, <1>6, <2>2 DEF Consistent
  <2> QED BY <2>1, <2>2
<1> HIDE DEF k, cs, res, n
<1>8. SetCurrentChunk(k) = Outcome(g, "SUCCESS")
  <2> DEFINE idx == IF ~k.forward_only /\ k.current_chunk_idx < n - 1
                      THEN k.current_chunk_idx + 1 ELSE n - 1
             f == [k EXCEPT !.current_chunk_idx = idx, !.current_chunk = k.chunks[idx + 1],
                            !.chunk_row = -1, !.prior_chunk_row = -1]
  <2>1. idx = n - 1 /\ idx + 1 = n
    BY SMTT(30), <1>5, <1>7
  <2>2. Len(k.chunks) = n /\ k.chunks # << >>
    BY <1>5, <1>6 DEF n
  <2>3. SetCurrentChunk(k) = Outcome(f, "SUCCESS")
    BY <2>2 DEF SetCurrentChunk
  <2> HIDE DEF idx
  <2>4. f = g
    BY <1>5, <1>6, <2>1
  <2> QED BY <2>3, <2>4
<1>9. /\ g.chunks = cs /\ g.res = res /\ g.forward_only = h.forward_only
      /\ g.current_chunk_idx = n - 1 /\ g.current_chunk = c /\ g.chunk_row = -1
      /\ g.open = h.open /\ g.last = h.last
      /\ g.resultset_end = h.resultset_end /\ Keeps(g, h)
  BY <1>0, <1>6 DEF HandleSet, Keeps
<1> HIDE DEF g
<1>10. Consistent(g)
  <2>1. \A i \in 1..Len(g.chunks) : g.chunks[i] = g.res.pos - Len(g.chunks) + i
    BY <1>2, <1>5, <1>9 DEF n
  <2>2. g.chunk_row \in -1 .. g.res.sizes[g.res.pos] - 1
    BY <1>2, <1>4, <1>9
  <2>3. g.chunks # << >> /\ g.current_chunk = g.res.pos
        /\ g.current_chunk_idx = Len(g.chunks) - 1
    BY <1>2, <1>5, <1>9 DEF n
  <2> QED BY <1>9, <2>1, <2>2, <2>3 DEF Consistent
<1> QED BY <1>2, <1>5, <1>8, <1>9, <1>10 DEF Outcome, k

\* What a call that may ask the engine for a chunk leaves behind.
Fetched(o, h) ==
  /\ Consistent(o.h) /\ Keeps(o.h, h) /\ o.h.res.sizes = h.res.sizes
  /\ o.ret \in {"SUCCESS", "NO_DATA", "ERROR"}
  /\ o.ret = "ERROR" => ~o.h.open
  /\ o.ret = "NO_DATA" => /\ SamePlace(o.h, h) /\ o.h.resultset_end
                          /\ o.h.open = h.open
                          /\ o.h.last = IF h.resultset_end THEN h.last ELSE NoLast
  /\ o.ret = "SUCCESS" => /\ o.h.chunks # << >> /\ o.h.chunk_row = -1
                          /\ o.h.res.pos = h.res.pos + 1
                          /\ o.h.open = h.open /\ o.h.last = NoLast

\* FetchNext, unless the end was seen and there are chunks.
LEMMA FetchNextForward ==
  ASSUME NEW h, HandleOK(h), Consistent(h), h.res.pos \in Nat, NEW fails \in BOOLEAN,
         h.resultset_end => h.chunks = << >>
  PROVE  Fetched(FetchNext(h, fails), h)
<1> DEFINE g == ResetLastFetchedVariableVal(h)
           e == [g EXCEPT !.open = FALSE, !.res = [g.res EXCEPT !.error = TRUE]]
           n == [g EXCEPT !.resultset_end = TRUE]
<1>0. h \in HandleSet
  BY DEF HandleOK
<1>1. /\ SamePlace(g, h) /\ g.resultset_end = h.resultset_end /\ g.open = h.open
      /\ g.res = h.res /\ g.last = NoLast
  BY <1>0, ResetPlace
<1>2. HandleOK(g) /\ g \in HandleSet /\ g.res \in ResultSet
  BY ResetOK, Fields DEF HandleOK
<1> HIDE DEF g
<1>3. Consistent(g)
  BY <1>1, SamePlaceConsistent
<1>4. /\ e.res = [g.res EXCEPT !.error = TRUE] /\ Keeps(e, g) /\ e.chunks = g.chunks
      /\ e.current_chunk = g.current_chunk /\ e.current_chunk_idx = g.current_chunk_idx
      /\ e.chunk_row = g.chunk_row /\ e.resultset_end = g.resultset_end /\ ~e.open
  BY <1>2 DEF HandleSet, Keeps
<1>5. /\ n.res = g.res /\ Keeps(n, g) /\ n.chunks = g.chunks
      /\ n.current_chunk = g.current_chunk /\ n.current_chunk_idx = g.current_chunk_idx
      /\ n.chunk_row = g.chunk_row /\ n.resultset_end /\ n.open = g.open /\ n.last = g.last
  BY <1>2 DEF HandleSet, Keeps
<1> HIDE DEF e, n
<1>6. SamePlace(e, h) /\ SamePlace(n, h)
  <2>1. [g.res EXCEPT !.error = TRUE].pos = g.res.pos
        /\ [g.res EXCEPT !.error = TRUE].sizes = g.res.sizes
    BY <1>2 DEF ResultSet
  <2> QED BY <1>1, <1>4, <1>5, <2>1 DEF SamePlace, Keeps
<1>7. CASE h.resultset_end
  <2>1. FetchNext(h, fails) = Outcome(h, "NO_DATA")
    BY <1>7 DEF FetchNext, SetCurrentChunk
  <2> QED BY <1>7, <2>1 DEF Fetched, Outcome, SamePlace, Keeps
<1>8. CASE ~h.resultset_end /\ (fails \/ h.res.closed)
  <2>1. FetchNext(h, fails) = Outcome(e, "ERROR")
    BY <1>8 DEF FetchNext, e, g
  <2>2. Consistent(e)
    BY <1>1, <1>4, <1>6, SamePlaceConsistent
  <2> DEFINE o == FetchNext(h, fails)
  <2>3. o.h = e /\ o.ret = "ERROR"
    BY <2>1 DEF Outcome
  <2> HIDE DEF o
  <2>4. Fetched(o, h)
    BY <1>4, <1>6, <2>2, <2>3 DEF Fetched, SamePlace
  <2> QED BY <2>4 DEF o
<1>9. CASE ~h.resultset_end /\ ~(fails \/ h.res.closed) /\ h.res.pos = Len(h.res.sizes)
  <2>1. FetchNext(h, fails) = Outcome(n, "NO_DATA")
    BY <1>9 DEF FetchNext, n, g
  <2>2. Consistent(n)
    BY <1>6, <1>9, SamePlaceConsistent
  <2> DEFINE o == FetchNext(h, fails)
  <2>3. o.h = n /\ o.ret = "NO_DATA"
    BY <2>1 DEF Outcome
  <2> HIDE DEF o
  <2>4. n.last = NoLast /\ n.open = h.open
    BY <1>1, <1>5
  <2>5. Fetched(o, h)
    BY <1>5, <1>6, <1>9, <2>2, <2>3, <2>4 DEF Fetched, SamePlace
  <2> QED BY <2>5 DEF o
<1>10. CASE ~h.resultset_end /\ ~(fails \/ h.res.closed) /\ h.res.pos # Len(h.res.sizes)
  <2> DEFINE o == SetCurrentChunk(KeepChunk(g))
  <2>1. FetchNext(h, fails) = o
    BY <1>10 DEF FetchNext, g
  <2>2. /\ o.ret = "SUCCESS" /\ Consistent(o.h) /\ Keeps(o.h, g)
        /\ o.h.chunks # << >> /\ o.h.chunk_row = -1
        /\ o.h.res.pos = g.res.pos + 1 /\ o.h.res.sizes = g.res.sizes
        /\ o.h.open = g.open /\ o.h.last = g.last
    BY <1>1, <1>2, <1>3, <1>10, NewChunkPlace
  <2> HIDE DEF o
  <2> QED BY <1>1, <2>1, <2>2 DEF Fetched, SamePlace, Keeps
<1> QED BY <1>7, <1>8, <1>9, <1>10

\* SQL_FETCH_NEXT before any value is transferred: the cursor stands before a
\* row of its chunk that follows the row it was on, or no row is left, or the
\* result has failed.
NextReady(o, h) ==
  /\ Consistent(o.h) /\ Keeps(o.h, h) /\ o.h.res.sizes = h.res.sizes
  /\ o.ret \in {"SUCCESS", "NO_DATA", "ERROR"}
  /\ o.h.last.row <= o.h.chunk_row \/ o.ret = "ERROR"
  /\ o.ret = "ERROR" => ~o.h.open
  /\ o.ret = "NO_DATA" => AtEnd(o.h) /\ RowOf(o.h) = RowOf(h) /\ o.h.open = h.open
  /\ o.ret = "SUCCESS" =>
       /\ o.h.chunks # << >> /\ o.h.chunk_row < o.h.res.sizes[o.h.res.pos] - 1
       /\ [chunk |-> o.h.res.pos, row |-> o.h.chunk_row + 1] = NextRow(h.res.sizes, RowOf(h))
       /\ o.h.open = h.open

\* SQL_FETCH_NEXT stays in the chunk, or moves to the start of the following one,
\* or is at the end; it never moves back.
LEMMA NextChunkForward ==
  ASSUME NEW h, HandleOK(h), Consistent(h), h.res.pos \in Nat, NEW fails \in BOOLEAN,
         h.last.row <= h.chunk_row
  PROVE  NextReady(NextChunk(h, fails), h)
<1> DEFINE g == [h EXCEPT !.prior_chunk_row = h.chunk_row]
           o == FetchNext(g, fails)
<1>0. h \in HandleSet
  BY DEF HandleOK
<1>1. HandleOK(g) /\ g.res = h.res
  BY CatchUpOK
<1>2. /\ SamePlace(g, h) /\ g.resultset_end = h.resultset_end /\ g.open = h.open
      /\ g.last = h.last
  BY <1>0 DEF HandleSet, SamePlace, Keeps
<1>3. NextChunk(h, fails) =
        IF ~RequireFetch(g) THEN Outcome(g, "SUCCESS")
        ELSE IF g.resultset_end /\ g.current_chunk_idx = Len(g.chunks) - 1
          THEN Outcome(g, "NO_DATA")
        ELSE o
  BY DEF NextChunk
<1> HIDE DEF g
<1>4. Consistent(g) /\ RowOf(g) = RowOf(h)
  BY <1>2, SamePlaceConsistent
<1>5. /\ g.chunks \in Seq(Nat \ {0}) /\ g.chunk_row \in Int /\ g.last.row \in Int
      /\ g.res.pos \in Nat
  BY <1>1, Fields DEF HandleOK, LastVals
<1>6. g.chunks # << >> =>
        /\ LastChunk(g) = g.res.pos /\ g.res.pos \in 1..Len(g.res.sizes)
        /\ g.res.sizes[g.res.pos] \in Nat \ {0}
        /\ g.chunk_row \in -1 .. g.res.sizes[g.res.pos] - 1
  BY <1>1, <1>4, CurrentPlace
<1>10. RequireFetch(g) /\ g.chunks # << >> => g.chunk_row = g.res.sizes[g.res.pos] - 1
  <2> SUFFICES ASSUME RequireFetch(g), g.chunks # << >>
               PROVE  g.chunk_row = g.res.sizes[g.res.pos] - 1
    OBVIOUS
  <2> DEFINE z == g.res.sizes[g.res.pos]
  <2>1. g.chunk_row >= z - 1
    BY <1>6 DEF RequireFetch
  <2>2. z \in Nat /\ g.chunk_row \in -1 .. z - 1
    BY <1>6
  <2> HIDE DEF z
  <2>3. g.chunk_row = z - 1
    BY <2>1, <2>2
  <2> QED BY <2>3 DEF z
<1>7. CASE ~RequireFetch(g)
  <2>1. g.chunks # << >> /\ g.chunk_row < g.res.sizes[g.res.pos] - 1
    BY SMTT(30), <1>5, <1>6, <1>7 DEF RequireFetch
  <2>2. [chunk |-> g.res.pos, row |-> g.chunk_row + 1] = NextRow(h.res.sizes, RowOf(h))
    <3>1. RowOf(h) = [chunk |-> g.res.pos, row |-> g.chunk_row]
      BY <1>4, <1>5, <1>6, <2>1 DEF RowOf
    <3>2. h.res.sizes = g.res.sizes /\ g.res.pos \in DOMAIN g.res.sizes
      BY <1>1, <1>6, <2>1, Sizes DEF HandleOK
    <3> QED BY SMTT(30), <1>5, <1>6, <2>1, <3>1, <3>2 DEF NextRow
  <2> QED BY <1>1, <1>2, <1>3, <1>4, <1>7, <2>1, <2>2 DEF NextReady, Outcome, SamePlace
<1>8. CASE RequireFetch(g) /\ g.resultset_end /\ g.current_chunk_idx = Len(g.chunks) - 1
  <2>1. AtEnd(g)
    BY <1>8, <1>10 DEF AtEnd
  <2> QED BY <1>1, <1>2, <1>3, <1>4, <1>8, <2>1 DEF NextReady, Outcome, SamePlace
<1>9. CASE RequireFetch(g) /\ ~(g.resultset_end /\ g.current_chunk_idx = Len(g.chunks) - 1)
  <2>1. g.resultset_end => g.chunks = << >>
    BY <1>4, <1>9 DEF Consistent
  <2>2. Fetched(o, g)
    BY <1>1, <1>4, <1>5, <2>1, FetchNextForward
  <2>3. NextChunk(h, fails) = o
    BY <1>3, <1>9
  <2>4. HandleOK(o.h)
    BY <1>1, <1>5, FetchNextOK
  <2> HIDE DEF o
  <2>5. g.chunks # << >> => g.chunk_row = g.res.sizes[g.res.pos] - 1
    BY <1>9, <1>10
  <2>6. NoLast.row = -1 /\ g.chunk_row >= -1
    <3>1. CASE g.chunks = << >>
      BY <1>4, <3>1 DEF Consistent, NoLast
    <3>2. CASE g.chunks # << >>
      BY <1>4, <1>6, <3>2 DEF Consistent, NoLast
    <3> QED BY <3>1, <3>2
  <2>7. CASE o.ret = "ERROR"
    BY <1>2, <2>2, <2>3, <2>7 DEF Fetched, NextReady, SamePlace, Keeps
  <2>8. CASE o.ret = "NO_DATA"
    <3>1. /\ SamePlace(o.h, g) /\ o.h.resultset_end /\ o.h.open = g.open
          /\ o.h.last \in {g.last, NoLast} /\ Consistent(o.h)
      BY <2>2, <2>8 DEF Fetched
    <3>2. AtEnd(o.h)
      BY <2>5, <3>1 DEF AtEnd, SamePlace
    <3>3. RowOf(o.h) = RowOf(h)
      BY <1>4, <3>1 DEF SamePlace, RowOf
    <3>4. o.h.last.row <= o.h.chunk_row
      BY <1>2, <2>6, <3>1 DEF SamePlace
    <3> QED BY <1>2, <2>3, <2>8, <3>1, <3>2, <3>3, <3>4 DEF NextReady, SamePlace, Keeps
  <2>9. CASE o.ret = "SUCCESS"
    <3>1. /\ Consistent(o.h) /\ Keeps(o.h, g) /\ o.h.res.sizes = g.res.sizes
          /\ o.h.chunks # << >> /\ o.h.chunk_row = -1 /\ o.h.res.pos = g.res.pos + 1
          /\ o.h.open = g.open /\ o.h.last = NoLast
      BY <2>2, <2>9 DEF Fetched
    <3>2. o.h.res.pos \in 1..Len(o.h.res.sizes) /\ o.h.res.sizes \in Seq(Nat \ {0})
      BY <1>5, <2>4, <3>1, Sizes DEF HandleOK
    <3>3. o.h.res.sizes[o.h.res.pos] \in Nat \ {0}
      BY <3>2
    <3>4. [chunk |-> o.h.res.pos, row |-> 0] = NextRow(h.res.sizes, RowOf(h))
      <4>1. CASE g.chunks = << >>
        <5>1. g.res.pos = 0 /\ g.chunk_row = -1
          BY <1>4, <1>5, <4>1 DEF Consistent
        <5>2. RowOf(h) = [chunk |-> 1, row |-> -1]
          BY <1>4, <5>1 DEF RowOf
        <5>3. 1 \in DOMAIN h.res.sizes /\ 0 < h.res.sizes[1]
          BY <1>1, <3>1, <3>2, <3>3, <5>1
        <5> QED BY <3>1, <5>1, <5>2, <5>3 DEF NextRow
      <4>2. CASE g.chunks # << >>
        <5>1. RowOf(h) = [chunk |-> g.res.pos, row |-> g.chunk_row]
          BY <1>4, <1>6, <4>2 DEF RowOf
        <5> QED BY SMTT(30), <1>1, <1>5, <1>6, <2>5, <3>1, <4>2, <5>1 DEF NextRow
      <4> QED BY <4>1, <4>2
    <3> QED BY <1>2, <2>3, <2>6, <2>9, <3>1, <3>3, <3>4 DEF NextReady, SamePlace, Keeps
  <2> QED BY <2>2, <2>7, <2>8, <2>9 DEF Fetched
<1> QED BY <1>7, <1>8, <1>9
----------------------------------------------------------------------------
(***************************************************************************)
(* The transfer of values.                                                 *)
(***************************************************************************)
\* g differs from h in the row it is on and in what it remembers of a value.
SameResult(g, h) ==
  /\ Keeps(g, h) /\ g.chunks = h.chunks /\ g.res = h.res /\ g.open = h.open
  /\ g.resultset_end = h.resultset_end
  /\ g.current_chunk = h.current_chunk /\ g.current_chunk_idx = h.current_chunk_idx

\* Counting rows changes nothing else.
LEMMA RowCountPlace ==
  ASSUME NEW h \in HandleSet, NEW n
  PROVE  LET g == SetRowCount(h, n)
         IN SameResult(g, h) /\ g.chunk_row = h.chunk_row /\ g.last = h.last
BY DEF HandleSet, SetRowCount, SameResult, Keeps

\* Remembering a value changes nothing else.
LEMMA LastPlace ==
  ASSUME NEW h \in HandleSet, NEW v
  PROVE  LET g == SetLast(h, v)
         IN SameResult(g, h) /\ g.chunk_row = h.chunk_row /\ g.last = v
BY DEF HandleSet, SetLast, SameResult, Keeps

\* Moving to a row changes nothing else.
LEMMA RowPlace ==
  ASSUME NEW h \in HandleSet, NEW r
  PROVE  LET g == [h EXCEPT !.chunk_row = r]
         IN SameResult(g, h) /\ g.chunk_row = r /\ g.last = h.last
BY DEF HandleSet, SameResult, Keeps

\* IncreaseRowCount only counts.
LEMMA IncreaseRowCountPlace ==
  ASSUME NEW h \in HandleSet
  PROVE  LET g == IncreaseRowCount(h)
         IN SameResult(g, h) /\ g.chunk_row = h.chunk_row /\ g.last = h.last
<1> DEFINE n == h.row_count + (IF h.chunk_row + h.array_size < ChunkSize(h)
                                 THEN h.array_size ELSE ChunkSize(h) - h.chunk_row)
<1>1. IncreaseRowCount(h) = SetRowCount(h, n)
  BY DEF IncreaseRowCount, SetRowCount
<1> HIDE DEF n
<1> QED BY <1>1, RowCountPlace

\* Where a part of column col of the current row starts.
Resume(h, col) == IF h.last.col = col /\ h.last.row = h.chunk_row THEN h.last.length ELSE 0

\* v is a part of column col of the row handle h is on.
PartOf(v, h, col) ==
  /\ SameResult(v.h, h) /\ v.h.chunk_row = h.chunk_row
  /\ v.h.last.col = col /\ v.h.last.row = h.chunk_row
  /\ v.h.last.length = v.from + v.out /\ v.from = Resume(h, col)
  /\ v.ret = "NO_DATA" => v.from >= ValLen /\ ValLen > 0
  /\ v.from <= ValLen => v.from + v.out <= ValLen

\* GetVariableValue leaves the position alone and starts a part where the last one
\* of the same value ended.
LEMMA GetVariableValuePlace ==
  ASSUME NEW h, HandleOK(h), NEW col \in Nat, NEW buf \in Buffers
  PROVE  PartOf(GetVariableValue(h, col, ValLen, buf), h, col)
<1> DEFINE len  == Resume(h, col)
           seen == [col |-> col, row |-> h.chunk_row, length |-> len]
           g    == SetLast(h, seen)
           rest == ValLen - len
           out  == IF rest > buf THEN buf ELSE rest
           read == [seen EXCEPT !.length = len + out]
           k    == SetLast(g, read)
           v    == GetVariableValue(h, col, ValLen, buf)
<1>0. h \in HandleSet /\ ValLen \in Nat
  BY LengthsAssumption DEF HandleOK
<1>1. h.chunk_row \in Int /\ h.last \in LastVals
  BY <1>0, Fields
<1>2. len \in Nat
  BY <1>1 DEF LastVals, Resume
<1> HIDE DEF len
<1>3. seen \in LastVals /\ seen.col = col /\ seen.row = h.chunk_row /\ seen.length = len
  BY <1>1, <1>2 DEF LastVals
<1>4. SameResult(g, h) /\ g.chunk_row = h.chunk_row /\ g.last = seen
  BY <1>0, LastPlace
<1>5. HandleOK(g) /\ g \in HandleSet
  <2>1. 0 \in Nat /\ 0 \in Int
    OBVIOUS
  <2> QED BY <1>3, <2>1, FieldChangesOK DEF HandleOK
<1>6. SetLastFetchedVariableVal(h, col) = g
  BY DEF SetLastFetchedVariableVal, SetLast, len, Resume
<1> HIDE DEF g, seen
<1>7. read.col = col /\ read.row = h.chunk_row /\ read.length = len + out
  BY <1>3 DEF LastVals
<1>8. [g EXCEPT !.last.length = len + out] = k
  <2> HIDE DEF out
  <2>1. [g EXCEPT !.last.length = len + out]
           = [g EXCEPT !.last = [g.last EXCEPT !.length = len + out]]
    OBVIOUS
  <2> QED BY <1>4, <2>1 DEF SetLast
<1> HIDE DEF read
<1>9. SameResult(k, g) /\ k.chunk_row = g.chunk_row /\ k.last = read
  BY <1>5, LastPlace
<1>10. buf # TooSmall /\ buf # NullTarget => (len <= ValLen => len + out <= ValLen)
  BY <1>0, <1>2 DEF Buffers
<1>11. v = IF ValLen > 0 /\ len >= ValLen
             THEN [h |-> g, ret |-> "NO_DATA", from |-> len, out |-> 0]
           ELSE IF buf = TooSmall THEN [h |-> g, ret |-> "ERROR", from |-> len, out |-> 0]
           ELSE IF buf = NullTarget THEN [h |-> g, ret |-> "SUCCESS", from |-> len, out |-> 0]
           ELSE [h |-> k, ret |-> IF rest > buf THEN "SUCCESS_WITH_INFO" ELSE "SUCCESS",
                 from |-> len, out |-> out]
  <2>1. g.last.length = len
    BY <1>3, <1>4
  <2> QED BY <1>6, <1>8, <2>1 DEF GetVariableValue
<1> HIDE DEF k, out, rest, v
<1>12. SameResult(k, h) /\ k.chunk_row = h.chunk_row
  BY <1>4, <1>9 DEF SameResult, Keeps
<1>13. ASSUME v.h = g, v.from = len, v.out = 0,
              v.ret = "NO_DATA" => len >= ValLen /\ ValLen > 0
       PROVE  PartOf(v, h, col)
  <2>1. len + 0 = len
    BY <1>2
  <2> QED BY <1>3, <1>4, <1>13, <2>1 DEF PartOf, len
<1>14. CASE ValLen > 0 /\ len >= ValLen
  BY <1>11, <1>13, <1>14 DEF v
<1>15. CASE ~(ValLen > 0 /\ len >= ValLen) /\ buf = TooSmall
  BY <1>11, <1>13, <1>15 DEF v
<1>16. CASE ~(ValLen > 0 /\ len >= ValLen) /\ buf # TooSmall /\ buf = NullTarget
  BY <1>11, <1>13, <1>16 DEF v
<1>17. CASE ~(ValLen > 0 /\ len >= ValLen) /\ buf # TooSmall /\ buf # NullTarget
  <2>1. v.h = k /\ v.from = len /\ v.out = out /\ v.ret # "NO_DATA"
    BY <1>11, <1>17
  <2>2. PartOf(v, h, col)
    BY <1>7, <1>9, <1>10, <1>12, <1>17, <2>1 DEF PartOf, len
  <2> QED BY <2>2 DEF v
<1> QED BY <1>14, <1>15, <1>16, <1>17

\* The rows t a fetch transfers from handle h: the next ones of its chunk, each
\* value from its start.
NextRows(t, h) ==
  /\ SameResult(t.h, h)
  /\ t.ret \in {"SUCCESS", "SUCCESS_WITH_INFO", "ERROR"}
  /\ t.h.chunk_row \in h.chunk_row + 1 .. h.res.sizes[h.res.pos] - 1
  /\ t.rowset = [chunk |-> h.res.pos, first |-> h.chunk_row + 1,
                 last |-> t.h.chunk_row, from |-> 0]
  /\ t.h.last.row <= t.h.chunk_row
  /\ t.h.last.col \notin {2, 3} \/ t.h.last.row # t.h.chunk_row

\* A fetch into bound columns, from a row that is not the last of its chunk.
LEMMA FetchBoundForward ==
  ASSUME NEW h, HandleOK(h), Consistent(h), h.chunks # << >>,
         h.chunk_row < h.res.sizes[h.res.pos] - 1, h.last.row <= h.chunk_row,
         NEW buf \in Buffers
  PROVE  NextRows(FetchBound(h, ValLen, buf), h)
<1> DEFINE first == h.chunk_row + 1
           last  == LastRowToFetch(h)
           one   == 1
           To(k, r) == [k EXCEPT !.chunk_row = r]
           head  == GetVariableValue(To(h, first), one, ValLen, buf)
           next  == GetVariableValue(To(head.h, last), one, ValLen, buf)
           tail  == IF first = last THEN head ELSE next
           Sent(from) == [chunk |-> h.current_chunk, first |-> first, last |-> last, from |-> from]
           size  == h.res.sizes[h.res.pos]
<1>0. h \in HandleSet /\ ValLen \in Nat
  BY LengthsAssumption DEF HandleOK
<1>1. /\ h.chunk_row \in Int /\ h.array_size \in Nat \ {0} /\ h.last \in LastVals
      /\ h.prior_chunk_row \in Int
  BY <1>0, Fields
<1>2. h.last.row \in Int
  BY <1>1 DEF LastVals
<1>3. size \in Nat \ {0} /\ ChunkSize(h) = size /\ h.current_chunk = h.res.pos
  BY CurrentPlace DEF Consistent
<1>4. first \in Int /\ last \in Int /\ first <= last /\ last <= size - 1
      /\ h.last.row < first /\ one \in Nat
  <2> HIDE DEF size
  <2>1. h.chunk_row < size - 1
    BY DEF size
  <2> QED BY SMTT(30), <1>1, <1>2, <1>3, <2>1 DEF LastRowToFetch
<1> HIDE DEF first, last, size, one
<1>5. ASSUME NEW k, HandleOK(k), NEW r \in Int
      PROVE  /\ HandleOK(To(k, r)) /\ SameResult(To(k, r), k) /\ To(k, r).chunk_row = r
             /\ To(k, r).last = k.last
  <2>1. k \in HandleSet /\ k.prior_chunk_row \in Int
    BY <1>5, Fields DEF HandleOK
  <2>2. To(k, r) = AtRow(k, r, k.prior_chunk_row)
    BY <2>1 DEF AtRow, HandleSet
  <2>3. HandleOK(To(k, r))
    BY <1>5, <2>1, <2>2, AtRowOK
  <2> QED BY <2>1, <2>3, RowPlace
<1>6. ASSUME NEW k, HandleOK(k), NEW r \in Int, k.last.row # r
      PROVE  LET v == GetVariableValue(To(k, r), one, ValLen, buf)
             IN /\ HandleOK(v.h) /\ SameResult(v.h, k) /\ v.h.chunk_row = r
                /\ v.h.last.col = one /\ v.h.last.row = r /\ v.from = 0
                /\ v.ret \in {"SUCCESS", "SUCCESS_WITH_INFO", "ERROR"}
  <2> DEFINE a == To(k, r)
             v == GetVariableValue(a, one, ValLen, buf)
  <2>1. HandleOK(a) /\ SameResult(a, k) /\ a.chunk_row = r /\ a.last = k.last
    BY <1>5, <1>6
  <2> HIDE DEF a
  <2>2. PartOf(v, a, one) /\ PartOK(v, a)
    BY <1>0, <1>4, <2>1, GetVariableValuePlace, GetVariableValueOK
  <2> HIDE DEF v
  <2>3. Resume(a, one) = 0
    BY <1>6, <2>1 DEF Resume
  <2>4. v.ret # "NO_DATA"
    BY <1>0, <2>2, <2>3 DEF PartOf
  <2>5. /\ HandleOK(v.h) /\ SameResult(v.h, k) /\ v.h.chunk_row = r
        /\ v.h.last.col = one /\ v.h.last.row = r /\ v.from = 0
        /\ v.ret \in {"SUCCESS", "SUCCESS_WITH_INFO", "ERROR"}
    BY <2>1, <2>2, <2>3, <2>4 DEF PartOf, PartOK, SameResult, Keeps
  <2> QED BY <2>5 DEF v, a
<1>7. /\ HandleOK(head.h) /\ SameResult(head.h, h) /\ head.h.chunk_row = first
      /\ head.h.last.col = one /\ head.h.last.row = first /\ head.from = 0
      /\ head.ret \in {"SUCCESS", "SUCCESS_WITH_INFO", "ERROR"}
  <2>1. h.last.row # first
    BY <1>2, <1>4
  <2> QED BY <1>4, <1>6, <2>1
<1>8. first # last =>
      /\ HandleOK(next.h) /\ SameResult(next.h, head.h) /\ next.h.chunk_row = last
      /\ next.h.last.col = one /\ next.h.last.row = last
      /\ next.ret \in {"SUCCESS", "SUCCESS_WITH_INFO", "ERROR"}
  <2> HIDE DEF head
  <2> QED BY <1>4, <1>6, <1>7
<1>9. HandleOK(To(h, last)) /\ SameResult(To(h, last), h) /\ To(h, last).chunk_row = last
      /\ To(h, last).last = h.last
  BY <1>4, <1>5
<1>10. FetchBound(h, ValLen, buf) =
         IF last < first THEN Transfer(IncreaseRowCount(h), "SUCCESS", Sent(0))
         ELSE IF h.cols # "variable"
           THEN Transfer(IncreaseRowCount(To(h, last)), "SUCCESS", Sent(0))
         ELSE Transfer(IF Succeeded(tail.ret) THEN IncreaseRowCount(tail.h) ELSE tail.h,
                       tail.ret, Sent(head.from))
  BY DEF FetchBound, first, last, head, next, one, Sent
<1> HIDE DEF next, head, To
<1>11. /\ HandleOK(tail.h) /\ SameResult(tail.h, h) /\ tail.h.chunk_row = last
       /\ tail.h.last.col = one /\ tail.h.last.row = last
       /\ tail.ret \in {"SUCCESS", "SUCCESS_WITH_INFO", "ERROR"}
  BY <1>7, <1>8 DEF SameResult, Keeps
<1> HIDE DEF tail
<1>12. ~(last < first) /\ Sent(0) = [chunk |-> h.res.pos, first |-> h.chunk_row + 1,
                                     last |-> last, from |-> 0]
  BY <1>3, <1>4 DEF first
<1> HIDE DEF Sent
<1>13. last \in h.chunk_row + 1 .. h.res.sizes[h.res.pos] - 1
  BY <1>1, <1>3, <1>4 DEF first, size
<1>14. ASSUME NEW t, NEW k, HandleOK(k), SameResult(k, h), k.chunk_row = last,
              k.last.row <= last, k.last.col \notin {2, 3} \/ k.last.row # last,
              t.h \in {k, IncreaseRowCount(k)}, t.rowset = Sent(0),
              t.ret \in {"SUCCESS", "SUCCESS_WITH_INFO", "ERROR"}
       PROVE  NextRows(t, h)
  <2>1. /\ SameResult(t.h, k) /\ t.h.chunk_row = last /\ t.h.last = k.last
    BY <1>14, IncreaseRowCountPlace DEF HandleOK, SameResult, Keeps
  <2>2. SameResult(t.h, h)
    BY <1>14, <2>1 DEF SameResult, Keeps
  <2> QED BY <1>12, <1>13, <1>14, <2>1, <2>2 DEF NextRows
<1>15. CASE h.cols # "variable"
  <2> DEFINE t == Transfer(IncreaseRowCount(To(h, last)), "SUCCESS", Sent(0))
  <2>1. FetchBound(h, ValLen, buf) = t
    BY <1>10, <1>12, <1>15
  <2>2. t.h = IncreaseRowCount(To(h, last)) /\ t.ret = "SUCCESS" /\ t.rowset = Sent(0)
    BY DEF Transfer
  <2> HIDE DEF t
  <2>3. h.last.row <= last /\ h.last.row # last
    BY <1>2, <1>4
  <2>4. NextRows(t, h)
    BY <1>9, <1>14, <2>2, <2>3
  <2> QED BY <2>1, <2>4
<1>16. CASE h.cols = "variable"
  <2> DEFINE t == Transfer(IF Succeeded(tail.ret) THEN IncreaseRowCount(tail.h) ELSE tail.h,
                           tail.ret, Sent(head.from))
  <2>1. FetchBound(h, ValLen, buf) = t
    BY <1>10, <1>12, <1>16
  <2>2. t.h \in {tail.h, IncreaseRowCount(tail.h)} /\ t.ret = tail.ret /\ t.rowset = Sent(0)
    BY <1>7 DEF Transfer
  <2> HIDE DEF t
  <2>3. tail.h.last.row <= last /\ tail.h.last.col \notin {2, 3}
    BY <1>4, <1>11 DEF one
  <2>4. NextRows(t, h)
    BY <1>11, <1>14, <2>2, <2>3
  <2> QED BY <2>1, <2>4
<1> QED BY <1>15, <1>16

\* Executing a statement leaves the cursor before the first row, or fails.
LEMMA BatchExecuteStmtForward ==
  ASSUME NEW h, HandleOK(h), NEW sizes \in Results,
         NEW fails \in BOOLEAN, NEW fetchFails \in BOOLEAN
  PROVE  LET o == BatchExecuteStmt(h, sizes, fails, fetchFails)
         IN /\ Consistent(o.h) /\ Keeps(o.h, h)
            /\ o.ret = "SUCCESS" =>
                 /\ o.h.open = TRUE /\ RowOf(o.h) = BeforeFirst
                 /\ o.h.last = NoLast /\ o.h.chunk_row = -1
<1> DEFINE c == ClearChunks(h)
           r == [NewResult(sizes) EXCEPT !.error = fails]
           b == ~fails
           g == [c EXCEPT !.open = b, !.res = r]
           d == [g EXCEPT !.forward_only = FALSE]
           f == BeforeStart(d).h
           o == FetchNext(f, fetchFails)
           k == [o.h EXCEPT !.forward_only = g.forward_only]
<1>0. h \in HandleSet
  BY DEF HandleOK
<1>1. /\ c \in HandleSet /\ c.chunks = << >> /\ c.current_chunk = NoChunk
      /\ c.chunk_row = -1 /\ c.resultset_end = FALSE /\ Keeps(c, h)
  BY <1>0, Basics DEF HandleSet, ClearChunks, Keeps
<1>2. r \in ResultSet /\ r.pos = 0 /\ r.sizes = sizes
  <2> DEFINE n == NewResult(sizes)
  <2>1. n \in ResultSet /\ n.pos = 0 /\ n.sizes = sizes
    BY DEF NewResult, ResultSet
  <2> HIDE DEF n
  <2>2. LET m == [n EXCEPT !.error = fails]
        IN m \in ResultSet /\ m.pos = 0 /\ m.sizes = sizes
    BY <2>1 DEF ResultSet
  <2> QED BY <2>2 DEF n
<1>3. b \in Flags /\ sizes \in Seq(Nat \ {0})
  BY ResultsAssumption DEF Flags
<1> HIDE DEF c, r, b
<1>4. /\ g \in HandleSet /\ g.chunks = << >> /\ g.res = r /\ g.current_chunk = NoChunk
      /\ g.chunk_row = -1 /\ g.resultset_end = FALSE /\ Keeps(g, h) /\ g.open = b
      /\ g.forward_only \in Flags
  BY <1>1, <1>2, <1>3 DEF HandleSet, Keeps
<1>5. SingleExecuteStmt(h, sizes, fails) = g
  BY DEF SingleExecuteStmt, c, r, b
<1> HIDE DEF g
<1>6. /\ d \in HandleSet /\ d.chunks = << >> /\ d.res = r /\ d.current_chunk = NoChunk
      /\ d.chunk_row = -1 /\ d.resultset_end = FALSE /\ Keeps(d, h) /\ d.open = b
  BY <1>4, Basics DEF HandleSet, Keeps
<1> HIDE DEF d
<1>7. HandleOK(d)
  BY <1>2, <1>3, <1>6 DEF HandleOK
<1>8. /\ f.chunks = << >> /\ f.res = r /\ f.current_chunk = NoChunk
      /\ f.chunk_row = -1 /\ f.resultset_end = FALSE /\ Keeps(f, h) /\ f.open = b
  BY <1>6 DEF BeforeStart, Outcome, HandleSet, Keeps
<1>9. HandleOK(f)
  BY <1>7, BeforeStartOK
<1>10. SetFirstCurrentChunk(d, fetchFails) = o
  BY <1>8 DEF SetFirstCurrentChunk
<1> HIDE DEF f
<1>11. Consistent(f) /\ f.res.pos \in Nat
  BY <1>2, <1>8 DEF Consistent
<1>12. Fetched(o, f) /\ HandleOK(o.h)
  BY <1>8, <1>9, <1>11, FetchNextForward, FetchNextOK
<1>13. FetchFirst(g, fetchFails) = Outcome(k, o.ret)
  BY <1>10 DEF FetchFirst, d
<1> HIDE DEF o
<1>14. /\ SamePlace(k, o.h) /\ k.resultset_end = o.h.resultset_end /\ k.open = o.h.open
       /\ k.last = o.h.last
  BY <1>12 DEF HandleOK, HandleSet, SamePlace, Keeps
<1> HIDE DEF k
<1>15. Consistent(k) /\ RowOf(k) = RowOf(o.h) /\ Keeps(k, h)
  BY <1>8, <1>12, <1>14, SamePlaceConsistent DEF Fetched, SamePlace, Keeps
<1>16. CASE fails
  <2>1. Consistent(g)
    BY <1>2, <1>4 DEF Consistent
  <2> QED BY <1>4, <1>5, <1>16, <2>1 DEF BatchExecuteStmt, Outcome
<1>17. CASE ~fails
  <2>1. BatchExecuteStmt(h, sizes, fails, fetchFails)
          = Outcome(k, IF o.ret = "ERROR" THEN "ERROR" ELSE "SUCCESS")
    BY <1>5, <1>13, <1>17 DEF BatchExecuteStmt, Outcome
  <2>2. b = TRUE
    BY <1>17 DEF b
  <2>3. o.ret # "ERROR" => /\ k.open = TRUE /\ RowOf(k) = BeforeFirst
                           /\ k.last = NoLast /\ k.chunk_row = -1
    <3>1. CASE o.ret = "NO_DATA"
      <4>1. /\ o.h.chunk_row = -1 /\ o.h.res.pos = 0 /\ o.h.open = b /\ o.h.last = NoLast
        BY <1>2, <1>8, <1>12, <3>1 DEF Fetched, SamePlace
      <4> QED BY <1>14, <1>15, <2>2, <4>1 DEF RowOf, BeforeFirst, SamePlace
    <3>2. CASE o.ret = "SUCCESS"
      <4>1. /\ o.h.chunk_row = -1 /\ o.h.res.pos = 1 /\ o.h.open = b /\ o.h.last = NoLast
        BY <1>2, <1>8, <1>12, <3>2 DEF Fetched
      <4> QED BY <1>14, <1>15, <2>2, <4>1 DEF RowOf, BeforeFirst, SamePlace
    <3> QED BY <1>12, <3>1, <3>2 DEF Fetched
  <2> QED BY <1>15, <2>1, <2>3 DEF Outcome
<1> QED BY <1>16, <1>17
----------------------------------------------------------------------------
(***************************************************************************)
(* The calls of an application that reads forward.                         *)
(***************************************************************************)
Invs == TypeInv /\ ForwardInv

\* SQL_FETCH_NEXT on an open cursor, from the row it is on.
LEMMA FetchNextStep ==
  ASSUME Invs, cursor, hstmt.open, FetchWith("NEXT")
  PROVE  ForwardInv' /\ RowsFollow
<1>0. /\ HandleOK(hstmt) /\ hstmt.res.pos \in Nat /\ Reading /\ Consistent(hstmt)
      /\ hstmt.bound_size = Columns /\ hstmt.retrieve_data = TRUE /\ hstmt.open = TRUE
  <2>1. hstmt.open \in BOOLEAN
    BY Fields DEF Invs, TypeInv, HandleOK
  <2> QED BY <2>1 DEF Invs, TypeInv, ForwardInv
<1>1. PICK fails \in BOOLEAN :
        LET o == FetchNextChunk(hstmt, "NEXT", fails) IN FinishFetch(o.h, o.ret)
  BY DEF FetchWith
<1> DEFINE o == NextChunk(hstmt, fails)
<1>2. FinishFetch(o.h, o.ret)
  BY <1>1 DEF FetchNextChunk
<1>3. NextReady(o, hstmt) /\ HandleOK(o.h) /\ o.h.res.pos \in Nat
  BY <1>0, NextChunkForward, NextChunkOK DEF Reading
<1> HIDE DEF o
<1>4. /\ Consistent(o.h) /\ o.h.retrieve_data = TRUE /\ o.h.bound_size = Columns
      /\ o.h.res.sizes = hstmt.res.sizes
  BY <1>0, <1>3 DEF NextReady, Keeps
<1>5. CASE o.ret \in {"NO_DATA", "ERROR"}
  <2>1. Return(o.h, o.ret, NoRows)
    BY <1>2, <1>5 DEF FinishFetch
  <2>2. /\ hstmt' = o.h /\ ret' = o.ret /\ rowset' = NoRows /\ call' = "idle"
        /\ cursor' = cursor /\ delivered' = delivered /\ parts' = NoParts
    BY <2>1 DEF Return, HasRows, NoRows
  <2>3. RowsFollow
    BY <2>2 DEF RowsFollow, HasRows, NoRows
  <2>4. NoParts.ok = TRUE /\ NoRows.from = 0 /\ ~Succeeded(o.ret)
    BY <1>5 DEF NoParts, NoRows, Succeeded
  <2>5. cursor' /\ ~hstmt'.open => ret' \in {"ERROR", "NO_DATA"}
    BY <1>5, <2>2
  <2>6. cursor' /\ hstmt'.open => Reading'
    <3> SUFFICES ASSUME hstmt'.open PROVE Reading'
      OBVIOUS
    <3>1. o.ret = "NO_DATA"
      BY <1>3, <1>5, <2>2 DEF NextReady
    <3>2. o.h.last.row <= o.h.chunk_row /\ AtEnd(o.h) /\ RowOf(o.h) = RowOf(hstmt)
      BY <1>3, <3>1 DEF NextReady
    <3>3. delivered' = RowOf(hstmt') /\ AtEnd(hstmt')
      BY <1>0, <2>2, <3>2 DEF Reading, RowOf, AtEnd
    <3> QED BY <2>2, <2>4, <3>2, <3>3 DEF Reading, RowOf, AtEnd
  <2>7. Consistent(hstmt')
    BY <1>4, <2>2 DEF Consistent
  <2> QED BY <1>4, <2>2, <2>3, <2>4, <2>5, <2>6, <2>7 DEF ForwardInv, Consistent
<1>6. CASE o.ret = "SUCCESS"
  <2>1. /\ o.h.chunks # << >> /\ o.h.chunk_row < o.h.res.sizes[o.h.res.pos] - 1
        /\ [chunk |-> o.h.res.pos, row |-> o.h.chunk_row + 1]
              = NextRow(hstmt.res.sizes, RowOf(hstmt))
        /\ o.h.last.row <= o.h.chunk_row /\ o.h.open = TRUE
    BY <1>0, <1>3, <1>6 DEF NextReady
  <2>2. /\ Readable(o.h) /\ o.h.res.pos \in 1..Len(o.h.res.sizes)
        /\ o.h.res.sizes[o.h.res.pos] \in Nat /\ o.h.chunk_row >= -1
        /\ o.h.chunk_row \in Int
    BY SMTT(30), <1>3, <1>4, <2>1, CurrentPlace
  <2>3. CanFetchRows(o.h)
    BY <1>4, <2>2 DEF CanFetchRows, Columns
  <2>4. PICK buf \in BufLens :
          LET t == FetchRows(o.h, ValLen, buf) IN Return(t.h, t.ret, t.rowset)
    BY <1>2, <1>6, <2>3 DEF FinishFetch
  <2> DEFINE t == FetchBound(o.h, ValLen, buf)
  <2>5. Return(t.h, t.ret, t.rowset)
    BY <1>4, <2>4 DEF FetchRows, Columns
  <2>6. buf \in Buffers
    BY LengthsAssumption DEF Buffers
  <2>7. NextRows(t, o.h)
    BY <1>3, <1>4, <2>1, <2>6, FetchBoundForward
  <2> HIDE DEF t
  <2> DEFINE p == o.h.res.pos
             first == o.h.chunk_row + 1
             last == t.h.chunk_row
  <2>8. /\ t.rowset = [chunk |-> p, first |-> first, last |-> last, from |-> 0]
        /\ first <= last /\ last < o.h.res.sizes[p] /\ last \in Int /\ last >= 0
    <3> DEFINE z == o.h.res.sizes[p]
    <3>1. last \in first .. z - 1 /\ t.rowset = [chunk |-> p, first |-> first, last |-> last, from |-> 0]
      BY <2>7 DEF NextRows
    <3>2. z \in Nat /\ first \in Int /\ first >= 0
      BY <2>2
    <3> HIDE DEF z, first, last
    <3>3. first <= last /\ last < z /\ last \in Int /\ last >= 0
      BY <3>1, <3>2
    <3> QED BY <3>1, <3>3 DEF z
  <2>9. /\ SameResult(t.h, o.h) /\ t.ret \in {"SUCCESS", "SUCCESS_WITH_INFO", "ERROR"}
        /\ t.h.last.row <= last
        /\ t.h.last.col \notin {2, 3} \/ t.h.last.row # last
    BY <2>7 DEF NextRows
  <2>10. Consistent(t.h) /\ RowOf(t.h) = [chunk |-> p, row |-> last]
    <3>1. /\ t.h.chunks = o.h.chunks /\ t.h.res = o.h.res
          /\ t.h.resultset_end = o.h.resultset_end /\ t.h.current_chunk = o.h.current_chunk
          /\ t.h.current_chunk_idx = o.h.current_chunk_idx
      BY <2>9 DEF SameResult
    <3>2. t.h.chunk_row \in -1 .. t.h.res.sizes[t.h.res.pos] - 1
      <4> DEFINE z == o.h.res.sizes[p]
      <4>1. z \in Nat /\ last \in Int /\ last >= 0 /\ last < z
        BY <2>2, <2>8
      <4> HIDE DEF z, last
      <4>2. last \in -1 .. z - 1
        BY <4>1
      <4> QED BY <3>1, <4>2 DEF z, last
    <3>3. Consistent(t.h)
      BY <1>4, <2>1, <3>1, <3>2 DEF Consistent
    <3>4. RowOf(t.h) = [chunk |-> p, row |-> last]
      BY <2>2, <3>1 DEF RowOf
    <3> QED BY <3>3, <3>4
  <2> HIDE DEF p, first, last
  <2>11. /\ hstmt' = t.h /\ ret' = t.ret /\ rowset' = t.rowset /\ call' = "idle"
         /\ cursor' = cursor /\ delivered' = [chunk |-> p, row |-> last] /\ parts' = NoParts
    BY <2>5, <2>8 DEF Return, HasRows, LastOf
  <2>12. t.h.res.sizes = hstmt.res.sizes /\ t.h.open = TRUE /\ t.h.retrieve_data = TRUE
         /\ t.h.bound_size = Columns
    BY <1>4, <2>1, <2>9 DEF SameResult, Keeps
  <2>13. RowsFollow
    <3>1. FirstOf(rowset') = NextRow(hstmt.res.sizes, delivered)
      BY <1>0, <2>1, <2>8, <2>11 DEF FirstOf, Reading, p, first
    <3>2. rowset'.last < hstmt'.res.sizes[rowset'.chunk]
      BY <1>4, <2>8, <2>11, <2>12
    <3> QED BY <2>11, <2>12, <3>1, <3>2 DEF RowsFollow
  <2>14. NoParts.ok = TRUE /\ NoParts.col = 0 /\ rowset'.from = 0
    BY <2>8, <2>11 DEF NoParts
  <2>15. Reading'
    <3>1. hstmt'.chunk_row >= 0 /\ hstmt'.last.row <= hstmt'.chunk_row
      BY <2>8, <2>9, <2>11 DEF last
    <3>2. delivered' = RowOf(hstmt')
      BY <2>10, <2>11 DEF RowOf
    <3>3. PartsKnown(hstmt', parts')
      BY <2>9, <2>11, <2>14 DEF PartsKnown, last
    <3>4. ret' # "NO_DATA"
      BY <2>9, <2>11
    <3> QED BY <3>1, <3>2, <3>3, <3>4 DEF Reading, RowOf, PartsKnown
  <2>16. Consistent(hstmt')
    BY <2>10, <2>11 DEF Consistent
  <2> QED BY <2>11, <2>12, <2>13, <2>14, <2>15, <2>16 DEF ForwardInv, Consistent
<1> QED BY <1>3, <1>5, <1>6 DEF NextReady

\* A fetch on a cursor whose result has failed.
LEMMA FailedFetchStep ==
  ASSUME Invs, cursor, ~hstmt.open \/ HasError(hstmt), NEW r \in {"ERROR", "NO_DATA"},
         HasError(hstmt) => r = "ERROR" \/ ~hstmt.open, Return(hstmt, r, NoRows)
  PROVE  ForwardInv' /\ RowsFollow
<1>1. /\ hstmt' = hstmt /\ ret' = r /\ rowset' = NoRows /\ call' = "idle"
      /\ cursor' = cursor /\ delivered' = delivered /\ parts' = NoParts
  BY DEF Return, HasRows, NoRows
<1>2. NoParts.ok = TRUE /\ NoRows.from = 0 /\ ~Succeeded(r)
  BY DEF NoParts, NoRows, Succeeded
<1>3. RowsFollow
  BY <1>1 DEF RowsFollow, HasRows, NoRows
<1>4. hstmt.open => r = "ERROR"
  OBVIOUS
<1>5. cursor' /\ hstmt'.open => Reading'
  BY <1>1, <1>2, <1>4 DEF Invs, ForwardInv, Reading, RowOf
<1> QED BY <1>1, <1>2, <1>3, <1>5 DEF Invs, ForwardInv, Consistent

\* A call that prepares, executes or closes.
LEMMA RestartStep ==
  ASSUME Invs, NEW h, NEW r \in {"SUCCESS", "ERROR"}, NEW open \in BOOLEAN,
         Consistent(h), h.retrieve_data = TRUE,
         h.prepared \/ open => h.bound_size = Columns,
         open => /\ h.open = TRUE /\ RowOf(h) = BeforeFirst
                 /\ h.last = NoLast /\ h.chunk_row = -1,
         Restart(h, r, open)
  PROVE  ForwardInv'
<1>1. /\ hstmt' = h /\ ret' = r /\ cursor' = open /\ rowset' = NoRows
      /\ delivered' = BeforeFirst /\ parts' = NoParts /\ call' = "idle"
  BY DEF Restart, Invs, ForwardInv
<1>2. /\ NoParts.ok = TRUE /\ NoRows.from = 0 /\ NoRows.chunk = NoChunk /\ NoLast.row = -1
      /\ ~HasRows(NoRows)
  BY DEF NoParts, NoRows, NoLast, HasRows
<1>4. cursor' => hstmt'.open /\ Reading'
  BY <1>1, <1>2 DEF Reading, RowOf
<1> QED BY <1>1, <1>2, <1>4 DEF ForwardInv, Consistent

\* SQLPrepare, SQLExecute, SQLExecDirect and closing.
LEMMA RestartActionsStep ==
  ASSUME Invs,
         \/ SQLPrepare \/ CloseStmt
         \/ \E sizes \in Results : SQLExecute(sizes) \/ SQLExecDirect(sizes)
  PROVE  ForwardInv'
<1>0. /\ HandleOK(hstmt) /\ hstmt \in HandleSet /\ hstmt.retrieve_data = TRUE
      /\ hstmt.prepared => hstmt.bound_size = Columns
  BY DEF Invs, TypeInv, ForwardInv, HandleOK
<1> DEFINE c == ClearChunks(hstmt)
           p == PrepareQuery(hstmt)
<1>1. /\ c \in HandleSet /\ c.chunks = << >> /\ c.current_chunk = NoChunk
      /\ c.chunk_row = -1 /\ c.resultset_end = FALSE /\ Keeps(c, hstmt)
  BY <1>0, Basics DEF HandleSet, ClearChunks, Keeps
<1> HIDE DEF c
<1>2. NoResult.pos = -1 /\ Len(NoResult.sizes) = 0
  BY DEF NoResult
<1>3. HandleOK(p) /\ Consistent(p) /\ p.retrieve_data = TRUE /\ ~p.prepared
  <2>1. /\ p.chunks = << >> /\ p.res = NoResult /\ p.current_chunk = NoChunk
        /\ p.chunk_row = -1 /\ p.resultset_end = FALSE
        /\ p.retrieve_data = c.retrieve_data /\ p.prepared = FALSE
    BY <1>1 DEF PrepareQuery, HandleSet, c
  <2>2. HandleOK(p)
    BY <1>0, PrepareOK
  <2> HIDE DEF p
  <2>3. Consistent(p)
    BY <1>2, <2>1 DEF Consistent
  <2> QED BY <1>0, <1>1, <2>1, <2>2, <2>3 DEF Keeps
<1> HIDE DEF p
<1>4. ASSUME NEW k, HandleOK(k), Consistent(k), k.retrieve_data = TRUE
      PROVE  LET f == FinalizeStmt(k)
             IN /\ HandleOK(f) /\ Consistent(f) /\ f.retrieve_data = TRUE
                /\ f.bound_size = Columns
  <2> DEFINE f == FinalizeStmt(k)
  <2>1. /\ f.chunks = k.chunks /\ f.res = k.res /\ f.current_chunk = k.current_chunk
        /\ f.current_chunk_idx = k.current_chunk_idx /\ f.chunk_row = k.chunk_row
        /\ f.resultset_end = k.resultset_end /\ f.retrieve_data = k.retrieve_data
        /\ f.bound_size = Columns
    BY <1>4 DEF HandleOK, HandleSet, FinalizeStmt
  <2>2. HandleOK(f)
    BY <1>4, PrepareOK
  <2> HIDE DEF f
  <2>3. Consistent(f)
    BY <1>4, <2>1 DEF Consistent
  <2>4. HandleOK(f) /\ Consistent(f) /\ f.retrieve_data = TRUE /\ f.bound_size = Columns
    BY <1>4, <2>1, <2>2, <2>3
  <2> QED BY <2>4 DEF f
<1>5. ASSUME SQLPrepare PROVE ForwardInv'
  <2>1. CASE Restart(FinalizeStmt(p), "SUCCESS", FALSE)
    BY <1>3, <1>4, <2>1, RestartStep
  <2>2. CASE Restart(p, "ERROR", FALSE)
    BY <1>3, <2>2, RestartStep
  <2> QED BY <1>5, <2>1, <2>2 DEF SQLPrepare, p
<1>6. ASSUME CloseStmt PROVE ForwardInv'
  <2> DEFINE g == [c EXCEPT !.open = FALSE, !.res = NoResult]
  <2>1. /\ g.chunks = << >> /\ g.res = NoResult /\ g.current_chunk = NoChunk
        /\ g.chunk_row = -1 /\ g.resultset_end = FALSE /\ Keeps(g, c)
    BY <1>1 DEF HandleSet, Keeps
  <2>2. Restart(g, "SUCCESS", FALSE)
    BY <1>6 DEF CloseStmt, c
  <2> HIDE DEF g
  <2>3. Consistent(g)
    BY <1>2, <2>1 DEF Consistent
  <2>4. g.retrieve_data = TRUE /\ (g.prepared => g.bound_size = Columns)
    BY <1>0, <1>1, <2>1 DEF Keeps
  <2> QED BY <2>2, <2>3, <2>4, RestartStep
<1>7. ASSUME NEW k, HandleOK(k), k.retrieve_data = TRUE, k.bound_size = Columns,
             NEW sizes \in Results, NEW fails \in BOOLEAN, NEW fetchFails \in BOOLEAN,
             LET o == BatchExecuteStmt(k, sizes, fails, fetchFails)
             IN Restart(o.h, o.ret, o.ret = "SUCCESS")
      PROVE  ForwardInv'
  <2> DEFINE o == BatchExecuteStmt(k, sizes, fails, fetchFails)
             open == o.ret = "SUCCESS"
  <2>1. /\ Consistent(o.h) /\ Keeps(o.h, k)
        /\ open => /\ o.h.open = TRUE /\ RowOf(o.h) = BeforeFirst
                   /\ o.h.last = NoLast /\ o.h.chunk_row = -1
    BY ZenonT(40), <1>7, BatchExecuteStmtForward
  <2>2. o.ret \in {"SUCCESS", "ERROR"}
    BY <1>7, BatchExecuteStmtOK
  <2>3. Restart(o.h, o.ret, open) /\ open \in BOOLEAN
    BY <1>7
  <2> HIDE DEF o, open
  <2>4. o.h.retrieve_data = TRUE /\ o.h.bound_size = Columns
    BY <1>7, <2>1 DEF Keeps
  <2> QED BY <2>1, <2>2, <2>3, <2>4, RestartStep
<1>8. ASSUME NEW sizes \in Results, SQLExecute(sizes) PROVE ForwardInv'
  BY <1>0, <1>7, <1>8 DEF SQLExecute
<1>9. ASSUME NEW sizes \in Results, SQLExecDirect(sizes) PROVE ForwardInv'
  <2>1. PICK earlier \in BOOLEAN, unprepared \in BOOLEAN, fails \in BOOLEAN,
             fetchFails \in BOOLEAN :
       LET k == IF earlier
                  THEN CloseStream(BatchExecuteStmt(FinalizeStmt(p), sizes, FALSE, FALSE).h)
                  ELSE p
           o == BatchExecuteStmt(FinalizeStmt(k), sizes, fails, fetchFails)
       IN IF unprepared
            THEN Restart([k EXCEPT !.prepared = FALSE], "ERROR", FALSE)
            ELSE Restart(o.h, o.ret, o.ret = "SUCCESS")
    BY <1>9 DEF SQLExecDirect, p
  <2> DEFINE e == BatchExecuteStmt(FinalizeStmt(p), sizes, FALSE, FALSE).h
             s == CloseStream(e)
             k == IF earlier THEN s ELSE p
             u == [k EXCEPT !.prepared = FALSE]
  <2>2. FALSE \in BOOLEAN /\ HandleOK(FinalizeStmt(p)) /\ FinalizeStmt(p).retrieve_data = TRUE
    BY <1>3, <1>4
  <2>3. HandleOK(e) /\ Consistent(e) /\ e.retrieve_data = TRUE
    BY <2>2, BatchExecuteStmtOK, BatchExecuteStmtForward DEF Keeps
  <2> HIDE DEF e
  <2>4. HandleOK(s) /\ Consistent(s) /\ s.retrieve_data = TRUE
    <3>1. SamePlace(s, e) /\ s.resultset_end = e.resultset_end
      BY <2>3, CloseStreamPlace
    <3>2. HandleOK(s)
      BY <2>3, CloseStreamOK
    <3> QED BY <2>3, <3>1, <3>2, SamePlaceConsistent DEF SamePlace, Keeps
  <2> HIDE DEF s
  <2>5. HandleOK(k) /\ Consistent(k) /\ k.retrieve_data = TRUE
    BY <1>3, <2>4
  <2>6. CASE unprepared
    <3>1. Restart(u, "ERROR", FALSE)
      BY <2>1, <2>6 DEF e, s
    <3> HIDE DEF k
    <3>2. /\ u.chunks = k.chunks /\ u.res = k.res /\ u.current_chunk = k.current_chunk
          /\ u.current_chunk_idx = k.current_chunk_idx /\ u.chunk_row = k.chunk_row
          /\ u.resultset_end = k.resultset_end /\ u.retrieve_data = k.retrieve_data
          /\ u.prepared = FALSE
      BY <2>5 DEF HandleOK, HandleSet
    <3> HIDE DEF u
    <3>3. Consistent(u)
      BY <2>5, <3>2 DEF Consistent
    <3> QED BY <2>5, <3>1, <3>2, <3>3, RestartStep
  <2>7. CASE ~unprepared
    <3>1. LET o == BatchExecuteStmt(FinalizeStmt(k), sizes, fails, fetchFails)
          IN Restart(o.h, o.ret, o.ret = "SUCCESS")
      BY <2>1, <2>7 DEF e, s
    <3> HIDE DEF k
    <3>2. /\ HandleOK(FinalizeStmt(k)) /\ FinalizeStmt(k).retrieve_data = TRUE
          /\ FinalizeStmt(k).bound_size = Columns
      BY <1>4, <2>5
    <3> QED BY <1>7, <3>1, <3>2
  <2> QED BY <2>6, <2>7
<1> QED BY <1>5, <1>6, <1>8, <1>9

\* A call that leaves the cursor where it is.
LEMMA StillStep ==
  ASSUME Invs, NEW h, SamePlace(h, hstmt) \/ (h.chunks = hstmt.chunks /\ h.res = hstmt.res
           /\ h.current_chunk = hstmt.current_chunk
           /\ h.current_chunk_idx = hstmt.current_chunk_idx /\ h.chunk_row = hstmt.chunk_row
           /\ h.retrieve_data = hstmt.retrieve_data /\ h.prepared = hstmt.prepared),
         h.resultset_end = hstmt.resultset_end, h.open = hstmt.open, h.last = hstmt.last,
         hstmt.bound_size = Columns => h.bound_size = Columns,
         hstmt' = h, UNCHANGED <<cursor, call, ret, rowset, delivered, parts>>
  PROVE  ForwardInv'
<1>1. /\ h.chunks = hstmt.chunks /\ h.res.pos = hstmt.res.pos /\ h.res.sizes = hstmt.res.sizes
      /\ h.current_chunk = hstmt.current_chunk
      /\ h.current_chunk_idx = hstmt.current_chunk_idx /\ h.chunk_row = hstmt.chunk_row
      /\ h.retrieve_data = hstmt.retrieve_data /\ h.prepared = hstmt.prepared
  BY DEF SamePlace, Keeps
<1>2. Consistent(hstmt')
  BY <1>1 DEF Invs, ForwardInv, Consistent
<1>3. hstmt'.open /\ cursor' => Reading'
  <2> SUFFICES ASSUME hstmt'.open, cursor' PROVE Reading'
    OBVIOUS
  <2>1. Reading
    BY DEF Invs, ForwardInv
  <2>2. delivered' = RowOf(hstmt') /\ (AtEnd(hstmt) => AtEnd(hstmt'))
        /\ (PartsKnown(hstmt, parts) => PartsKnown(hstmt', parts'))
    BY <1>1, <2>1 DEF Reading, RowOf, AtEnd, PartsKnown
  <2> QED BY <1>1, <2>1, <2>2 DEF Reading, RowOf, AtEnd, PartsKnown
<1> QED BY <1>1, <1>2, <1>3 DEF Invs, ForwardInv, Consistent

\* Binding and attributes, a rollback, and another query of the connection.
LEMMA ConfigureActionsStep ==
  ASSUME Invs,
         \/ \E kind \in {"fixed", "variable"} : SQLBindCol(kind)
         \/ \E n \in ArraySizes : SetArraySize(n)
         \/ \E fwd \in CursorTypes : SetCursorType(fwd)
         \/ \E b \in BOOLEAN : SetBindType(b)
         \/ OtherQuery \/ SQLEndTranRollback
  PROVE  ForwardInv'
<1> DEFINE Q(h) ==
      /\ h.chunks = hstmt.chunks /\ h.res = hstmt.res
      /\ h.current_chunk = hstmt.current_chunk
      /\ h.current_chunk_idx = hstmt.current_chunk_idx /\ h.chunk_row = hstmt.chunk_row
      /\ h.retrieve_data = hstmt.retrieve_data /\ h.prepared = hstmt.prepared
      /\ h.resultset_end = hstmt.resultset_end /\ h.open = hstmt.open /\ h.last = hstmt.last
<1>0. hstmt \in HandleSet /\ HandleOK(hstmt)
  BY DEF Invs, TypeInv, HandleOK
<1>1. ASSUME NEW h, NEW c, Q(h), hstmt.bound_size = Columns => h.bound_size = Columns,
             Configure(c, h)
      PROVE  ForwardInv'
  BY <1>1, StillStep DEF Configure
<1>2. ASSUME NEW kind \in {"fixed", "variable"}, SQLBindCol(kind)
      PROVE  ForwardInv'
  <2> DEFINE n == IF hstmt.bound_size = 0 THEN 1 ELSE hstmt.bound_size
             g == [hstmt EXCEPT !.cols = kind, !.bound_size = n]
  <2>1. hstmt.bound_size = Columns => n = Columns
    BY DEF Columns
  <2>2. Configure("bind", g)
    BY <1>2 DEF SQLBindCol
  <2> HIDE DEF n
  <2>3. Q(g) /\ g.bound_size = n
    BY <1>0 DEF HandleSet
  <2> HIDE DEF g
  <2> QED BY <1>1, <2>1, <2>2, <2>3
<1>3. ASSUME NEW n \in ArraySizes, SetArraySize(n) PROVE ForwardInv'
  <2> DEFINE g == [hstmt EXCEPT !.array_size = n]
  <2>1. Q(g) /\ g.bound_size = hstmt.bound_size
    BY <1>0 DEF HandleSet
  <2> QED BY <1>1, <1>3, <2>1 DEF SetArraySize
<1>4. ASSUME NEW fwd \in CursorTypes, SetCursorType(fwd) PROVE ForwardInv'
  <2> DEFINE g == [hstmt EXCEPT !.forward_only = fwd]
  <2>1. Q(g) /\ g.bound_size = hstmt.bound_size
    BY <1>0 DEF HandleSet
  <2> QED BY <1>1, <1>4, <2>1 DEF SetCursorType
<1>5. ASSUME NEW b \in BOOLEAN, SetBindType(b) PROVE ForwardInv'
  <2> DEFINE f == hstmt.by_column /\ b
             g == [hstmt EXCEPT !.by_column = f]
  <2>1. Configure("bind_type", g)
    BY <1>5 DEF SetBindType
  <2> HIDE DEF f
  <2>2. Q(g) /\ g.bound_size = hstmt.bound_size
    BY <1>0 DEF HandleSet
  <2> QED BY <1>1, <2>1, <2>2
<1>6. ASSUME OtherQuery \/ SQLEndTranRollback PROVE ForwardInv'
  <2> DEFINE g == CloseStream(hstmt)
  <2>1. /\ SamePlace(g, hstmt) /\ g.resultset_end = hstmt.resultset_end
        /\ g.open = hstmt.open /\ g.last = hstmt.last
    BY <1>0, CloseStreamPlace
  <2>2. hstmt' = g /\ UNCHANGED <<cursor, call, ret, rowset, delivered, parts>>
    BY <1>6 DEF OtherQuery, Configure, SQLEndTranRollback
  <2> HIDE DEF g
  <2>3. hstmt.bound_size = Columns => g.bound_size = Columns
    BY <2>1 DEF SamePlace, Keeps
  <2> QED BY <2>1, <2>2, <2>3, StillStep
<1> QED BY <1>2, <1>3, <1>4, <1>5, <1>6

\* SQLGetData.
LEMMA SQLGetDataStep ==
  ASSUME Invs, NEW col \in {2, 3}, NEW buf \in BufLens, SQLGetData(col, buf)
  PROVE  ForwardInv'
<1> DEFINE v == GetVariableValue(hstmt, col, ValLen, buf)
           next == IF parts.col = col THEN parts.next ELSE 0
           ok == v.from = next /\ (v.ret = "NO_DATA" => next = ValLen)
<1>0. /\ cursor /\ Succeeded(ret) /\ rowset.chunk # NoChunk /\ HandleOK(hstmt)
      /\ Consistent(hstmt) /\ call = "idle" /\ ret # "NO_DATA"
  BY DEF SQLGetData, Invs, ForwardInv, TypeInv, Succeeded
<1>1. hstmt.open /\ Reading
  <2>1. hstmt.open
    BY <1>0 DEF Invs, ForwardInv, Succeeded
  <2> QED BY <1>0, <2>1 DEF Invs, ForwardInv
<1>2. hstmt.chunk_row >= 0 /\ PartsKnown(hstmt, parts)
  BY <1>0, <1>1 DEF Reading
<1>3. Readable(hstmt) /\ hstmt.chunk_row \in 0 .. ChunkSize(hstmt) - 1
  <2>1. hstmt.chunks # << >>
    BY <1>0, <1>2 DEF Consistent
  <2> DEFINE z == hstmt.res.sizes[hstmt.res.pos]
  <2>2. /\ Readable(hstmt) /\ ChunkSize(hstmt) = z /\ z \in Nat
        /\ hstmt.chunk_row \in -1 .. z - 1
    BY <1>0, <2>1, CurrentPlace
  <2> HIDE DEF z
  <2> QED BY <1>2, <2>2
<1>4. /\ hstmt' = v.h /\ parts' = [col |-> col, next |-> v.from + v.out, ok |-> ok]
      /\ UNCHANGED <<cursor, call, loop, ret, tran, rowset, delivered>>
  BY <1>3 DEF SQLGetData
<1>5. col \in Nat /\ buf \in Buffers /\ ValLen \in Nat /\ parts.next \in Nat
  BY LengthsAssumption DEF Buffers, Invs, TypeInv, TypeOK
<1>6. PartOf(v, hstmt, col) /\ PartOK(v, hstmt)
  BY <1>0, <1>5, GetVariableValuePlace, GetVariableValueOK
<1> HIDE DEF v
<1>7. v.from = next /\ next <= ValLen /\ next \in Nat
  <2>1. v.from = Resume(hstmt, col)
    BY <1>6 DEF PartOf
  <2>2. CASE parts.col = 0
    BY <1>2, <1>5, <2>1, <2>2 DEF PartsKnown, Resume
  <2>3. CASE parts.col # 0
    BY <1>2, <1>5, <2>1, <2>3 DEF PartsKnown, Resume
  <2> QED BY <2>2, <2>3
<1> HIDE DEF next
<1>8. ok = TRUE
  BY <1>5, <1>6, <1>7 DEF PartOf
<1>9. v.from + v.out <= ValLen
  BY <1>6, <1>7 DEF PartOf
<1> HIDE DEF ok
<1>10. /\ SameResult(v.h, hstmt) /\ v.h.chunk_row = hstmt.chunk_row
       /\ v.h.last.col = col /\ v.h.last.row = hstmt.chunk_row
       /\ v.h.last.length = v.from + v.out
  BY <1>6 DEF PartOf
<1>11. PartsKnown(hstmt', parts')
  <2>1. parts'.col = col /\ parts'.next = v.from + v.out /\ col # 0
    BY <1>4
  <2> QED BY <1>4, <1>9, <1>10, <2>1 DEF PartsKnown
<1>12. hstmt.chunk_row \in Int
  BY <1>0, Fields DEF HandleOK
<1>13. Reading'
  <2>1. delivered' = RowOf(hstmt')
    BY <1>1, <1>4, <1>10 DEF Reading, RowOf, SameResult
  <2> QED BY <1>0, <1>2, <1>4, <1>10, <1>11, <1>12, <2>1
          DEF Reading, RowOf, AtEnd, PartsKnown
<1>14. Consistent(hstmt')
  BY <1>0, <1>4, <1>10 DEF Consistent, SameResult
<1>16. /\ hstmt'.retrieve_data = TRUE /\ hstmt'.bound_size = Columns /\ hstmt'.open
       /\ parts'.ok = TRUE /\ rowset'.from = 0
  BY <1>0, <1>1, <1>4, <1>8, <1>10 DEF SameResult, Keeps, Invs, ForwardInv
<1> QED BY <1>0, <1>4, <1>13, <1>14, <1>16 DEF ForwardInv, Consistent

\* SQLFetch and SQLFetchScroll(SQL_FETCH_NEXT).
LEMMA ForwardFetchStep ==
  ASSUME Invs, SQLFetch \/ SQLFetchNext
  PROVE  ForwardInv' /\ RowsFollow
<1>0. cursor /\ hstmt.retrieve_data = TRUE
  BY DEF SQLFetch, SQLFetchNext, SQLFetchScroll, Invs, ForwardInv
<1>1. CASE SQLFetch
  <2>1. CASE hstmt.open
    BY <1>0, <1>1, <2>1, FetchNextStep DEF SQLFetch
  <2>2. CASE ~hstmt.open
    <3>1. Return(hstmt, "NO_DATA", NoRows)
      BY <1>0, <1>1, <2>2 DEF SQLFetch
    <3> QED BY <1>0, <2>2, <3>1, FailedFetchStep
  <2> QED BY <2>1, <2>2
<1>2. CASE SQLFetchNext
  <2>1. CASE hstmt.open /\ ~HasError(hstmt)
    BY <1>0, <1>2, <2>1, FetchNextStep DEF SQLFetchNext, SQLFetchScroll
  <2>2. CASE HasError(hstmt)
    <3>1. Return(hstmt, "ERROR", NoRows)
      BY <1>2, <2>2 DEF SQLFetchNext, SQLFetchScroll
    <3> QED BY <1>0, <2>2, <3>1, FailedFetchStep
  <2>3. CASE ~hstmt.open /\ ~HasError(hstmt)
    <3>1. Return(hstmt, "NO_DATA", NoRows)
      BY <1>2, <2>3 DEF SQLFetchNext, SQLFetchScroll
    <3> QED BY <1>0, <2>3, <3>1, FailedFetchStep
  <2> QED BY <2>1, <2>2, <2>3
<1> QED BY <1>1, <1>2

\* A new handle satisfies the invariant.
LEMMA ForwardInit ==
  Init => ForwardInv
<1> SUFFICES ASSUME Init PROVE ForwardInv
  OBVIOUS
<1>1. PICK fwd \in CursorTypes : hstmt = [NewHandle EXCEPT !.forward_only = fwd]
  BY DEF Init
<1>2. /\ hstmt.chunks = << >> /\ hstmt.current_chunk = NoChunk /\ hstmt.chunk_row = -1
      /\ hstmt.res = NoResult /\ hstmt.resultset_end = FALSE /\ hstmt.retrieve_data = TRUE
      /\ hstmt.prepared = FALSE
  BY <1>1 DEF NewHandle
<1>3. NoResult.pos = -1 /\ NoParts.ok = TRUE /\ NoRows.from = 0
  BY DEF NoResult, NoParts, NoRows
<1>4. Consistent(hstmt)
  BY <1>2, <1>3 DEF Consistent
<1> QED BY <1>2, <1>3, <1>4 DEF Init, ForwardInv

\* Every step of an application that only reads forward keeps the invariant.
LEMMA ForwardNext ==
  ASSUME Calls \cap NotForward = {}, Invs, [Next]_vars
  PROVE  ForwardInv'
<1>1. CASE UNCHANGED vars
  BY <1>1 DEF vars, Invs, ForwardInv, Consistent, Reading, RowOf, AtEnd, PartsKnown
<1>2. ASSUME \/ SQLFetchPrior \/ SQLFetchFirst \/ Unbind \/ SQLEndTranCommit
             \/ \E offset \in Offsets : SQLFetchAbsolute(offset)
             \/ \E b \in BOOLEAN : SetRetrieveData(b)
             \/ AbsoluteStep \/ MaterializeStep
      PROVE  FALSE
  <2>1. /\ "prior" \notin Calls /\ "first" \notin Calls /\ "absolute" \notin Calls
        /\ "commit" \notin Calls /\ "unbind" \notin Calls /\ "retrieve_data" \notin Calls
    BY DEF NotForward
  <2>2. call = "idle"
    BY DEF Invs, ForwardInv
  <2> QED BY <1>2, <2>1, <2>2
          DEF SQLFetchPrior, SQLFetchFirst, Unbind, SQLEndTranCommit, SQLFetchAbsolute,
              SetRetrieveData, AbsoluteStep, MaterializeStep, Configure, Calling
<1>3. ASSUME \/ SQLPrepare \/ CloseStmt
             \/ \E sizes \in Results : SQLExecute(sizes) \/ SQLExecDirect(sizes)
      PROVE  ForwardInv'
  BY <1>3, RestartActionsStep
<1>4. ASSUME SQLFetch \/ SQLFetchNext PROVE ForwardInv'
  BY <1>4, ForwardFetchStep
<1>5. ASSUME NEW col \in {2, 3}, NEW buf \in BufLens, SQLGetData(col, buf)
      PROVE  ForwardInv'
  BY <1>5, SQLGetDataStep
<1>6. ASSUME \/ \E kind \in {"fixed", "variable"} : SQLBindCol(kind)
             \/ \E n \in ArraySizes : SetArraySize(n)
             \/ \E fwd \in CursorTypes : SetCursorType(fwd)
             \/ \E b \in BOOLEAN : SetBindType(b)
             \/ OtherQuery \/ SQLEndTranRollback
      PROVE  ForwardInv'
  BY <1>6, ConfigureActionsStep
<1>7. CASE Next
  BY <1>2, <1>3, <1>4, <1>5, <1>6, <1>7 DEF Next
<1> QED BY <1>1, <1>7

\* The invariant of forward reading holds.
THEOREM ForwardInvariance ==
  ASSUME Calls \cap NotForward = {}
  PROVE  Spec => []ForwardInv
<1>1. TypeInv /\ ForwardInv /\ [Next]_vars => ForwardInv'
  BY ForwardNext DEF Invs
<1> QED BY <1>1, TypeInvariance, ForwardInit, PTL DEF Spec

\* An application that reads forward, and neither commits nor unbinds, never
\* makes the driver read through a stray chunk pointer or past bound_cols, for
\* every result, array size, cursor type and order of its calls.
THEOREM ForwardNeverUndefined ==
  ASSUME Calls \cap NotForward = {}
  PROVE  Spec => []NeverUndefined
<1>1. ForwardInv => NeverUndefined
  BY DEF ForwardInv, NeverUndefined
<1> QED BY <1>1, ForwardInvariance, PTL

\* Under the same calls current_chunk, current_chunk_idx and the vector of chunks
\* always agree, also after errors and changes of the cursor type.
THEOREM ForwardCursorConsistent ==
  ASSUME Calls \cap NotForward = {}
  PROVE  Spec => []CursorConsistent
<1>1. TypeInv /\ ForwardInv => CursorConsistent
  <2> SUFFICES ASSUME TypeInv, ForwardInv, hstmt.current_chunk # NoChunk
               PROVE  /\ hstmt.current_chunk_idx + 1 \in 1..Len(hstmt.chunks)
                      /\ hstmt.current_chunk = hstmt.chunks[hstmt.current_chunk_idx + 1]
    BY DEF CursorConsistent, ForwardInv, Consistent
  <2>1. HandleOK(hstmt) /\ Consistent(hstmt) /\ hstmt \in HandleSet
    BY DEF TypeInv, ForwardInv, HandleOK
  <2>2. hstmt.chunks # << >>
    BY <2>1 DEF Consistent
  <2>3. hstmt.chunks \in Seq(Nat \ {0})
    BY <2>1, Fields
  <2> DEFINE n == Len(hstmt.chunks)
  <2>4. n \in Nat \ {0} /\ hstmt.current_chunk_idx = n - 1
    BY <2>1, <2>2, <2>3 DEF Consistent
  <2>5. hstmt.chunks[n] = hstmt.res.pos /\ hstmt.current_chunk = hstmt.res.pos
    BY <2>1, <2>2, CurrentPlace DEF LastChunk, Consistent
  <2> HIDE DEF n
  <2>6. hstmt.current_chunk_idx + 1 = n
    BY <2>4
  <2> QED BY <2>4, <2>5, <2>6 DEF n
<1> QED BY <1>1, TypeInvariance, ForwardInvariance, PTL

\* Under the same calls SQL_NO_DATA is returned only once every row of the result
\* has been delivered, however the rows are spread over chunks and rowsets.
THEOREM ForwardNoDataIsTheEnd ==
  ASSUME Calls \cap NotForward = {}
  PROVE  Spec => []NoDataIsTheEnd
<1>1. TypeInv /\ ForwardInv => NoDataIsTheEnd
  <2> SUFFICES ASSUME TypeInv, ForwardInv, ret = "NO_DATA", hstmt.open
               PROVE  AllDelivered
    BY DEF NoDataIsTheEnd
  <2>1. /\ HandleOK(hstmt) /\ hstmt \in HandleSet /\ Consistent(hstmt) /\ Reading
        /\ hstmt.res.pos \in Nat
    BY DEF TypeInv, ForwardInv, HandleOK
  <2>2. AtEnd(hstmt) /\ delivered = RowOf(hstmt) /\ hstmt.res.pos = Len(hstmt.res.sizes)
    BY <2>1 DEF Reading, AtEnd, Consistent
  <2>3. hstmt.res.sizes \in Seq(Nat \ {0})
    BY <2>1, Sizes
  <2>4. CASE hstmt.chunks = << >>
    <3>1. Len(hstmt.res.sizes) = 0 /\ delivered = [chunk |-> 1, row |-> -1]
      BY <2>1, <2>2, <2>4 DEF Consistent, RowOf
    <3>2. 1 \notin DOMAIN hstmt.res.sizes
      BY <2>3, <3>1
    <3> QED BY <3>1, <3>2 DEF AllDelivered, NextRow
  <2>5. CASE hstmt.chunks # << >>
    <3> DEFINE p == hstmt.res.pos
               z == hstmt.res.sizes[p]
    <3>1. p \in 1..Len(hstmt.res.sizes) /\ z \in Nat
      BY <2>1, <2>5, CurrentPlace
    <3>2. delivered = [chunk |-> p, row |-> z - 1]
      BY <2>1, <2>2, <2>5, <3>1 DEF AtEnd, RowOf
    <3> HIDE DEF z
    <3>3. ~(z - 1 + 1 < z) /\ p + 1 > Len(hstmt.res.sizes)
      BY <2>2, <2>3, <3>1
    <3>4. NextRow(hstmt.res.sizes, delivered).chunk = p + 1
      BY <3>2, <3>3 DEF NextRow, z
    <3> QED BY <3>3, <3>4 DEF AllDelivered
  <2> QED BY <2>4, <2>5
<1> QED BY <1>1, TypeInvariance, ForwardInvariance, PTL

\* Under the same calls SQLGetData returns every value in consecutive parts, and
\* a bound column is always transferred from its start.
THEOREM ForwardPartsInSequence ==
  ASSUME Calls \cap NotForward = {}
  PROVE  Spec => []PartsInSequence
<1>1. ForwardInv => PartsInSequence
  BY DEF ForwardInv, PartsInSequence
<1> QED BY <1>1, ForwardInvariance, PTL

\* Under the same calls every fetch that transfers rows transfers the rows right after
\* the last one delivered, within one chunk: no row is skipped and none delivered twice.
THEOREM ForwardInOrder ==
  ASSUME Calls \cap NotForward = {}
  PROVE  Spec => InOrder
<1>1. TypeInv /\ ForwardInv => [InOrderStep]_vars
  BY ForwardFetchStep DEF Invs, InOrderStep
<1> QED BY <1>1, TypeInvariance, ForwardInvariance, PTL DEF Spec, InOrder
============================================================================
