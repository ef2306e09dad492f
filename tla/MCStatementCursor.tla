------------------------- MODULE MCStatementCursor -------------------------
(***************************************************************************)
(* Constants for model checking StatementCursor.                           *)
(***************************************************************************)
EXTENDS StatementCursor

\* Empty, one chunk, equal chunks, a short last chunk, a long last chunk.
SmallResults  == {<< >>, <<2>>, <<2, 1>>, <<1, 2>>, <<2, 2, 1>>}
TwoChunks     == {<<2, 1>>, <<1, 2>>, <<2, 2>>}
OneChunk      == {<<1>>, <<3>>}
ScrollResults == {<<2>>, <<4>>}
UnequalChunks == {<<2, 1>>, <<1, 2>>}

\* An application that reads forward, by SQLFetch or SQLFetchScroll.
ForwardCalls  == {"prepare", "execute", "execdirect", "fetch", "next", "close", "bind",
                  "array_size", "cursor_type", "rollback", "other_query", "getdata"}
\* Block cursors that scroll over several chunks.
BlockScrollCalls == {"execdirect", "fetch", "next", "prior", "first", "absolute", "close",
                     "bind", "array_size", "retrieve_data", "commit"}
ScrollCalls   == {"prepare", "execute", "execdirect", "next", "prior", "first", "absolute",
                  "close", "commit", "rollback", "other_query", "unbind", "bind_type"}
NextPrior     == {"execdirect", "next", "prior"}
CommitCalls   == {"execdirect", "fetch", "commit"}
BlockCalls    == {"execdirect", "bind", "array_size", "fetch"}

\* A buffer shorter than the values, and a call for the length only.
SomeBuffers == {2, NullTarget}
============================================================================
