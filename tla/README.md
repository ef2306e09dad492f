# Verification of the Haybarn ODBC driver

TLA+ models of the driver in `src/src/odbc_api` and `src/src/odbc_driver`, the
TLC configurations that check them on small instances, and TLAPS proofs. The
driver is a shared library that a driver manager (unixODBC, iODBC, Windows)
calls on behalf of an application; behind it is the Haybarn/DuckDB engine, which
is vendored under `src/src/duckdb`.

## 1. The system

### Components

| Component | State it keeps | Operations | Depends on |
|---|---|---|---|
| Handles (`handle_api.cpp`, `driver.cpp`, `duckdb_odbc.cpp`) | environments, connections, statements, explicit descriptors; each connection's `vec_stmt_ref`; each statement's `cur_ard`/`cur_apd` | SQLAllocHandle, SQLFreeHandle, SQLFreeStmt, SQLDisconnect | the driver manager decides which handles are still passed on |
| Transactions (`transaction_api.cpp`, `SQL_ATTR_AUTOCOMMIT`) | `dbc->autocommit`, and the engine's own flag, transaction and active query | SQLEndTran, SQLSetConnectAttr | materializes the result of a statement before a commit |
| Statement execution (`statement_api.cpp`, `statement_functions.cpp`, `result_api.cpp`) | prepared statement, result, `open` | SQLPrepare, SQLExecute, SQLExecDirect, SQLMoreResults, SQLCancel, SQL_CLOSE | parameters, fetcher, engine |
| Fetch engine (`odbc_fetch.cpp`) | chunks held, current chunk (pointer and index), row in it, end seen, what was last returned of a long value | SQLFetch, SQLFetchScroll, SQLGetData, `Materialize` | the engine's stream, the bound columns |
| Parameters (`parameter_descriptor.cpp`, `parameter_api.cpp`) | descriptor records, pool of buffers, indexes of the current set and parameter | SQLBindParameter, SQLParamData, SQLPutData, `GetParamValues` | the application's arrays, by address |
| Descriptors (`descriptor.cpp`, `descriptor_api.cpp`, `row_descriptor.cpp`) | header and records | SQLSetDescField, SQLGetDescField, SQLCopyDesc | shared by statements |
| Connecting (`connect.cpp`, `connection_api.cpp`) | parsed options, `env->db` | SQLConnect, SQLDriverConnect, SQLDisconnect | the instance cache of the process (`db_instance_cache.cpp` of the engine), shared by all threads |
| Session initialisation (`session_init.cpp`) | none | runs a SQL file in two parts | connecting |
| Diagnostics (`odbc_diagnostic.cpp`, `diagnostic_api.cpp`) | records, which part of a message was read | SQLGetDiagRec, SQLGetDiagField | every other call |
| Wide characters (`widechar.cpp`) | none | UTF-16/UTF-8 conversion | |
| Catalog functions, information tables, stubs, Cupola | none | | |

They interact by direct calls and by raw pointers: an application's buffers are
kept by address until the next execution or fetch; a connection lists its
statements; a statement points to descriptors that another call may free; the
current chunk points into the vector of chunks. There is one engine query per
connection: a query of one statement ends the result another one is reading. The
database instances are shared between all environments of the process through one
cache: who opens, uses and shuts down a database is decided by shared and weak
pointers held by handles and by threads in the middle of a connect.

### What is hard here

The driver starts no thread of its own and a handle is used by one thread at a
time. The one place where threads meet is connecting: a connect may find an
instance that another thread is creating, failing to create or shutting down.
Elsewhere what is hard to test is the *order of calls*: state left by a call that
failed, was cancelled or was half done is read by a call much later (which set of
parameters is next, whether the end of the result was seen, what was returned of
a value, which engine mode is on), statements of one connection disturb each
other through the engine, and the size of the engine's chunks, which no test
chooses, decides which branch a fetch takes. `PROJECT.json` lists the hazards with
the properties aimed at them.

### What makes each component correct

* Fetch engine: every row once and in order; `SQL_NO_DATA` exactly at the end;
  scrolling moves as an abstract cursor would; long values in consecutive parts;
  no read through a stale chunk pointer; rows go into the bound arrays; its two
  data-dependent loops end.
* Parameters: each set of an execution is executed once, in order, with values
  supplied for that execution; a dialog asks for all data and ends; no access
  outside the application's arrays or to freed buffers.
* Handles: no usable handle leads to freed memory.
* Transactions: acknowledged work is kept until the application gives it up; work
  done in manual mode is permanent at a commit only; a commit leaves the open
  results readable.
* Connecting: one instance per database file that is written; a connect returns,
  whatever happens to the instance meanwhile; the database part of a session file
  is run once.
* Diagnostics: whoever reads record numbers up to `SQL_NO_DATA` gets every record,
  in order, and the parts of a message join without gap or overlap.
* Wide characters: text survives the way in and out; what cannot be converted is
  replaced, and a short buffer cuts between characters.

## 2. The modules

| Module | Models |
|---|---|
| `OdbcFetch` | class `OdbcFetch`: one operator per method, on a record that holds the fetcher and the parts of the statement handle it uses |
| `StatementCursor` (extends `OdbcFetch`) | a statement handle: one action per ODBC call; `Materialize` and `SetAbsoluteCurrentChunk` take a step per iteration |
| `ScrollCursor` | abstract specification of a scrolling cursor: a position and the orientations that move it, no chunks |
| `ParamExec` | `ParameterDescriptor`, the loop of `BatchExecuteStmt` over the sets, the data-at-execution dialog |
| `Connections` | connections, statements, descriptors and the pointers between them; the engine's transaction and active query; SQLEndTran over all statements |
| `InstanceCache` | SQLDriverConnect by several threads, the cache of database instances, opening and shutting down an instance, session initialisation |
| `Widechar` | the conversions between UTF-16 and UTF-8 and the writing of strings to buffers, as operators |
| `Diagnostics` (extends `Widechar`) | the diagnostic records of a handle, SQLGetDiagRec and SQLGetDiagField, and a wide output function |
| `MCStatementCursor`, `MCParamExec`, `MCConnections`, `MCInstanceCache`, `MCDiagnostics` | values of the constants |
| `StatementCursorProofs`, `ScrollProofs` | theorems about `StatementCursor`; the last one has its refinement of `ScrollCursor` |
| `ParamExecProofs`, `ParamDialogProofs` | theorems about `ParamExec`; the latter about data at execution |
| `ConnectionsProofs`, `InstanceCacheProofs`, `WidecharProofs`, `DiagnosticsProofs` | theorems about the modules they are named after; the last one uses those of `WidecharProofs` |

**OdbcFetch and StatementCursor.** A result is a sequence of chunk sizes with a
position: the engine delivers chunk after chunk, may fail at any of them, and is
cut off by a rollback or another query of the connection (`OtherQuery`). A chunk
pointer is the number of the chunk in the stream, so a pointer to a chunk no
longer in `chunks` is recognised as stale; a read through it leads to the state
`call = "undefined"`. Row contents are not kept; what was transferred is a range
of rows of a chunk (`rowset`). Of variable-length values the model keeps where the
part returned started and ended. `delivered` and `parts` are history variables.
`cursor` is the driver manager's view (external): it lets through fetches only on
an open cursor and executions only without one.

**ScrollCursor.** The refinement mapping (`Scroll` in `StatementCursor`) reads the
position off `chunk_row` and `prior_chunk_row`: after a fetch the latter lags one
behind, after `SQL_NO_DATA` it has caught up; during a commit's `Materialize` the
position is the one it saved. An absolute offset of 1 stops *before* the first
row, as `BeforeStart` does and as the test `declare_fetch_block.cpp` uses it.

**ParamExec.** A record is the pair of the APD's and the IPD's. A value is named by
the run (execution) it was supplied for, so executing with an old value is visible in
the history `exec`. A data pointer is null, the application's, into the pool or freed;
an indicator pointer is null or not (`ind_ptr`). A binding is by length, null
terminated (`SQL_NTS`, which the driver overwrites with the length: `ReadRecord`),
null, at execution by either of the two indicators that ask for data, or has one null
pointer. Of the lengths `SQL_LEN_DATA_AT_EXEC` can carry, that of the column is
modelled, the only one the driver compares with. A stray access ends in `call =
"undefined"`; a set past the arrays is also read on as a release build does, where the
assertion of `GetParamValues` is compiled out, with any outcome (`ReadPast`). The
states of the driver manager (`dm`) and the application's indicator arrays are
external. `Cleans` and `Habits` say what discipline the application keeps: which of
SQL_CLOSE and SQL_RESET_PARAMS it calls before running again, whether it binds
everything first, sends values to their full length, changes parameters only without
an open cursor.

**Connections.** `eng[d]` is the `ClientContext` behind `dbc->conn`: auto-commit
flag, transaction, active query, and the amounts of pending and saved work. Its
operators are translated from the vendored engine (`transaction_context.cpp`,
`client_context.cpp`), as the driver depends on what they leave behind. A
statement's result is `stream` while rows must still come from the engine; it is
cut off when the engine's active query is no longer its own, which is what
`StreamQueryResult::IsOpenInternal` tests. `valid` is the set of handles the driver
manager still accepts (external): SQLDisconnect invalidates the statements and
descriptors of the connection, while the driver keeps them allocated and listed.
Work that is pending at SQLDisconnect counts as given up. A commit that does not
return (finding `commit_hang`) is not a step.

**InstanceCache.** A thread is named by the connection it connects with; its `pc` says
where it is between two points at which others can get in: `lock` (about to take
`cache_lock`), `wait` (for the mutex of an entry), `spin` (the busy wait), `open` (in the
constructor of the engine, which holds the mutex), `check`, `assign`, and the two parts
of the session file. What happens under `cache_lock` is one step. An instance, the
`DuckDB` object that owns it and its cache entry have one name, and their lifetimes
are computed from who points to them: `DatabaseAlive` is the weak pointer of the
entry, `Owned` adds the connections and the statements that outlive SQLDisconnect
(`stmts`). Whoever lets the last pointer go runs the destructor (`LetGo`,
`ResetDatabases`, `EraseDatabasePath`, `ResetCacheEntry`) before it does anything else.
`db_paths` is the table of open files of `DatabaseFilePathManager`, with its own count of
attachments and the access mode of the first; an instance is entered before it opens its
file and erased, in a step of its own, after it has closed it. A path is canonical, and a
configuration is a value, of which `ReadOnly` has the read-only ones. Calls on the
handles of one environment do not overlap (`Quiet`, external: the driver manager's
locks), as `OdbcHandleEnv::db` has no lock of its own.

**Widechar and Diagnostics.** A UTF-16 unit is represented by the number of its UTF-8
bytes, or as a lead or trail surrogate; a byte by the character it belongs to and its
number in it. That is what the conversions tell apart. Records and their numbers
(`vec_record_idx`) are counted from 1; `walk` records what an application got that
reads the numbers one after the other from 1: for each part the bytes of the message it
covers (`Covered`), and whether it is cut at a byte rather than at a unit (`CutAtByte`).

## 3. The runs

| Run | Checks | Distinct states |
|---|---|---|
| `forward` | `TypeOK`, `NeverUndefined`, `CursorConsistent`, `NoDataIsTheEnd`, `PartsInSequence`, `InOrder` for an application that reads forward | 43,608 |
| `scroll` | `NeverUndefined`, `ImplementsScrollCursor`: refinement of `ScrollCursor`, one chunk, one-row rowsets | 29,104 |
| `blockscroll` | `NeverUndefined`, `CurrentChunkHeld`, `AbsoluteTerminates`: block cursors scrolling over unequal chunks, with commits | 125,636 |
| `params_batch` | `ParamTypeOK`, `ParamsNeverUndefined`, `WholeBatch`: arrays of bound parameters | 284,862 |
| `params_dialog` | `ParamsNeverUndefined`, `OwnValues`, `DataComplete`, `DialogEnds`: data at execution, two parameters, cancel, repeat | 7,325 |
| `params_array` | `ParamsNeverUndefined`, `SetsInOrder`, `DataComplete`, `BatchTerminates`: arrays supplied at execution | 32,926 |
| `connections` | `ConnTypeOK`, `NoDangling`, `ModeMatchesTransaction`, `WorkKept` | 170,904 |
| `cache` | `CacheTypeOK`, `SameDatabase`, `DbInitOnce`, `SpinIsShutdown`, `ConnectReturns`: three threads and one database file | 322,375 |
| `diagnostics` | `DiagTypeOK`, `WalkReachesAll`, `WalkEnds`, `PartsApart`, `WholeText`, `OutIsPrefix`: messages read in parts, narrow and wide | 104,562 |
| `commit_hang` | violates `CommitTerminates` | |
| `slots` | violates `SlotsInRowset` | |
| `manual_mode` | violates `ManualCommit` | |

**Bounds.** Results have at most three chunks of at most four rows, with the short
and the long chunk in every position: every comparison in the fetcher is between a
row or chunk index and the current, last or next chunk, so three chunks of two
sizes reach each outcome. Rowsets have one or two rows: shorter than, equal to and
straddling a chunk. Values are three bytes in buffers of two, so a value has a
first and a last part; a length-only call is the other buffer. `MaxRowCount` stops
fetching once `row_count`, which only grows, is past it; it lies above the rows of
any result. `MaxPrior` bounds `prior_chunk_row`, which repeated SQL_FETCH_PRIOR
before the start decreases without end. Parameters: one or two, up to three sets,
two runs (`MaxRuns`), which is what it takes to see the state one run leaves to
the next; `ColumnSize` 3 lets a value arrive in up to three pieces. Connections:
one connection, two statements and one descriptor, as connections of a process
share nothing in this module; two writes (`MaxWrites`); statements are a symmetry
set. Cache: three threads, each with an environment and a connection, so that one
creates or shuts down while two others wait for the same entry; four connects
(`MaxCalls`), so that one of them connects again; three names of instances (`Ids`),
more than exist at once; one file, as different files share no state, and a database
in memory. One connection (`Keepers`) leaves statements behind at SQLDisconnect.
Diagnostics: two records (`MaxRecords`), messages of up to five bytes or units in
buffers of one and three, so that a message has one, two or more parts; reading goes on
while there are at most four numbers (`MaxNumbers`), two parts of both records or more
of one; five can come about. `MaxShort` is the real 32767.

**Deadlock** is checked in every passing run but `cache`: whatever the application
has done, some call of it is still possible. In `cache` the application stops after
`MaxCalls` connects; that no thread is stuck in a call is `ConnectReturns`.

**Fairness.** The driver finishes the call it is in: weak fairness of
`MaterializeStep`, `AbsoluteStep` and `BatchStep`, which are iterations of loops in
driver code. In a dialog the application goes on: weak fairness of `SQLParamData`
and `SQLPutData`, which is what `SQL_NEED_DATA` asks of it. A thread inside
SQLDriverConnect, or inside a destructor, goes on: weak fairness of `ConnectStep` and
`CloseStep` for each thread, which is what a scheduler gives a runnable thread; no
fairness of the mutexes is assumed. Nothing else is fair; in particular no fetch,
execution, connect or disconnect ever has to happen.

## 4. Findings

* `commit_hang` — `Materialize` loops until `FetchNext` stops succeeding
  (`odbc_fetch.cpp:35`), but once the end was seen and a chunk is held `FetchNext`
  always succeeds. A second SQLEndTran(SQL_COMMIT), or one after the result was
  read to its end, does not return.
* `slots` — rows are written at their index in the chunk (`odbc_fetch.cpp:358`), not
  in the rowset: past the application's arrays from the second rowset on.
* `manual_mode` — the engine returns to auto-commit at every end of a transaction;
  the driver does not switch it off again although `SQL_ATTR_AUTOCOMMIT` is off.

Further deviations the models show, which the constants of the passing runs keep
out or the properties of the runs do not speak of (to reproduce one, add what is named
to the run and check the property):

* `RequireFetch` (`odbc_fetch.hpp:87`) measures the last chunk, not the current one:
  after scrolling back, SQL_FETCH_NEXT skips or repeats rows when chunks have
  different sizes, where `declare_fetch_block.cpp:98-102` expects every row on every
  pass: `scroll` with results of two unequal chunks (`TwoChunks`), `Adjacent`;
* a commit materializes only the statement allocated last (`duckdb_odbc.cpp:70`);
  another one that is being read loses its rows, although "ODBC can still fetch after a
  commit" (`transaction_api.cpp:31`) and SQLGetInfo reports `SQL_CB_PRESERVE`
  (`info_api.cpp:344`): `connections`, `CommitKeepsCursor`;
* a commit with a forward-only cursor over several chunks drops chunks
  (`odbc_fetch.cpp:81`): `forward` with call `commit`, `NoDataIsTheEnd`;
* SQL_FETCH_ABSOLUTE exactly one past the last row, once the end was seen
  (`odbc_fetch.cpp:199`): `scroll` with offset 3 or 5, `ImplementsScrollCursor`; and
  on an empty result (`:157`): `scroll` with an empty result, `NeverUndefined`;
* coming back to the same row of a bound variable-length column transfers it from
  where it stopped (`odbc_fetch.cpp:433`): scrolling calls, `PartsInSequence`;
* a fetch without bound columns moves by the array size (`odbc_fetch.cpp:295`):
  `forward` with call `unbind`, `InOrder`;
* an engine error while materializing reaches `D_ASSERT(resultset_end)`
  (`odbc_fetch.cpp:39`): no property, the model goes on as a release build does;
* parameters bound before ones supplied at execution end the dialog early
  (`parameter_descriptor.cpp:131`): `params_dialog` with binding `plain`,
  `DataComplete`; a value of a fixed type does not replace the application's
  indicator (`:149`): `params_dialog` with lengths for type `fixed`, `DataComplete`;
* executing again after SQL_CLOSE what was supplied at execution reads a freed
  buffer (`parameter_descriptor.cpp:43`) or asks for nothing (`:45`):
  `params_dialog` with `Cleans = {"close"}`, `ParamsNeverUndefined` and `OwnValues`;
* a statement without a result that is executed again, without SQL_CLOSE or
  SQL_RESET_PARAMS, reads the set behind the arrays, against the assertion at `:70`, and a
  release build's loop looks for an end it has passed (`:448`): `params_batch` with
  `Cleans = {}`, `WithinSets` and `WholeBatch`;
* a parameter bound without an indicator is executed as NULL (`:255`): `params_batch` with
  `OwnValues`; when a dialog comes to it, its indicator is read through the null pointer
  (`:131`): `params_dialog` with binding `no_indicator`, `ParamsNeverUndefined`;
* a parameter to be supplied at execution whose token is null is executed as NULL and
  never asked for (`:255`): `params_dialog` with binding `null_token`, `OwnValues`;
* `SQL_NTS` is overwritten with the length of the value (`:282-323`), which the next run
  takes for the length of its own value: `params_batch` with `OwnValues`. The tests set the
  indicator again before each run (`bools_as_char.cpp:56`);
* `SQL_LEN_DATA_AT_EXEC` starts a dialog (`:262`) in which SQLParamData, which knows
  `SQL_DATA_AT_EXEC` only (`:131`), does not ask for the value: `params_dialog` with binding
  `len_at_exec`, `DataComplete`;
* SQLMoreResults returns SQL_STILL_EXECUTING (`result_api.cpp:119`) to the
  application between two sets; with one set the parameter status array is indexed by
  the parameter that comes next (`parameter_descriptor.cpp:196`), behind its one element
  once a value is full: `params_dialog` with call `status_ptr`, `ParamsNeverUndefined`;
* switching auto-commit on inside a transaction: the next statement fails, and its
  successor discards the work (`Connections`, field `left`); the commit of an invalid
  transaction is a rollback that returns SQL_SUCCESS; a commit that fails throws
  through the C interface (`transaction_api.cpp:39`);
* connections of one environment to a file and to another database: `env->db` is
  overwritten (`connect.cpp:238`), the file's `DuckDB` object is gone while its first
  connection is in use, and the next connect to the file waits in the busy loop
  (`db_instance_cache.cpp:85`) until that connection is closed, although the comment
  there says "the database is being shut down": `cache` with `EnvOf <- OneEnv` and
  `FilesOf <- FileAndMemory`, `SpinIsShutdown`. The same follows from statements left
  allocated by SQLDisconnect when their environment connects elsewhere, and from two
  instances of one read-only file (next item): four threads, two of them of one
  environment, `Configs = {"ro"}` and five connects;
* a thread that has waited erases the key of the cache whichever entry is there by
  now (`db_instance_cache.cpp:90`). A read-write database is then saved by the table
  of open files (`SameDatabase`), at the price of a connect that fails with "Unique
  file handle conflict"; a read-only one gets a second instance, although the cache
  is there "so that multiple connections to the same file point to the same database
  object" (`connect.cpp:13`): `cache` with `Configs = {"ro"}`, an invariant that says
  so without the exception for `ReadOnly`;
* a connection that finds the instance succeeds while its creator still runs the
  database part of the session file (`session_init.cpp:123`), and after that part has
  failed nobody runs it (`:124`);
* a waiting connect may starve if other connections open and fail for ever; the
  `cache` run bounds them (`MaxCalls`);
* SQLGetDiagField for record 1 starts the numbering again in the middle of a walk
  (`odbc_diagnostic.cpp:255`): `diagnostics` with `FieldRecords = {1}`,
  `WalkReachesAll`; a buffer of length 0 takes the whole message
  (`odbc_utils.cpp:281`) and a walk with it does not end: `Buffers = {0}`;
* `GetMessage` moves on by the length of the buffer (`odbc_diagnostic.cpp:330`), whose last
  place holds the zero: between two parts a byte is lost, where the tests join the parts
  (`test/common.cpp:63`), and so is the last byte of a message as long as the buffer, for
  which SQL_SUCCESS is returned: `diagnostics`, `PartsJoin`;
* a wide part of longer characters begins inside a character, or repeats characters of
  the part before it, as offsets are counted in bytes and what was written in units
  (`diagnostic_api.cpp:247`): of four characters of three bytes, a buffer of three takes
  the first two, and the next part begins with the second. `diagnostics` with such texts,
  `PartsApart` without its condition `at_byte`;
* of two lead surrogates in a row the second is copied unpaired
  (`widechar_utf16.hpp:41`), and a lone trail in the last place counts as valid
  (`:20`), giving UTF-8 that is not:
  `diagnostics` with such texts, `WholeText`; a wide output buffer of more than 10922
  units is filled only so far (`widechar.cpp:96`): a small `MaxShort`, `OutIsPrefix`;
* SQLSetDescRec stores the address of its own parameters (`descriptor_api.cpp:547`),
  SQLCopyDesc within a connection assigns a local pointer (`:592`), SQL_DIAG_NUMBER is
  never counted: not modelled.

## 5. What is proved

Every safety property of the passing runs is a theorem, for every value of the
constants: results of any number of chunks of any size, any array sizes, offsets and
buffer lengths; any number of parameters, sets and runs; any number of connections,
statements, descriptors, environments, files and instances; any texts. Where a
property does not hold for every application, the theorem has a hypothesis on the
constants that say what the application does. Each excludes a deviation of section 4
or one given with it below: TLC finds the property violated on a small instance
without it. Two parts of `Careful` are stronger than TLC shows to be needed, the
exclusion of unsupported types and of changes while sets may still be executed.

* `StatementCursorProofs`, `TypeCorrect`: `TypeOK` for every application, scrolling and
  committing included. `TypeOK` is not inductive: that `chunks[i]` is a chunk of the
  result, hence has a size, needs `TypeInv`, which adds `HandleOK` (the position in
  the stream is within the result, the chunks held lie before it) and `ResultKnown`
  (no loop is in progress on a handle without a result).

* `StatementCursorProofs`, for an application that reads forward (`Calls \cap NotForward = {}`: its
  calls exclude prior, first, absolute, commit, unbind and retrieve_data):
  `ForwardNeverUndefined`, `ForwardCursorConsistent`, `ForwardNoDataIsTheEnd`,
  `ForwardPartsInSequence`, `ForwardInOrder`. They rest on one inductive invariant,
  `ForwardInv`: the chunks held are consecutive and end with the one delivered last,
  the current chunk is that one, the row is within it, and the end is noted only
  when the stream is exhausted (`Consistent`); the last row delivered is the current
  row, nothing is remembered of a later row, and SQL_NO_DATA was returned only at the
  end (`Reading`). `InOrder` is about every fetch that delivers rows, also one that would
  deliver the last rows again. Alone it says nothing of where the fetcher stands; it
  follows because the row fetched next is computed from the position that
  `Reading` equates with the last row delivered. That the last chunk is the current
  one is also why `RequireFetch`, wrong in general (section 4), is right here.

* `StatementCursorProofs`, `AbsoluteBounded` and `CommitBounded`, for every application: the
  safety half of `AbsoluteTerminates` and `CommitTerminates`. A level of
  `SetAbsoluteCurrentChunk` that recurses had a positive offset and passes on a smaller
  one, since the chunk it moved to has rows; an iteration of `Materialize` takes a chunk
  from the engine unless the end was seen before the commit, which is exactly the case
  in which `commit_hang` finds the loop endless. With weak fairness of the two steps a
  decreasing number is all that termination needs; that conclusion is TLC's.

* `ScrollProofs`, for applications that scroll. `ChunkHeld` (`CurrentChunkHeld`) needs only
  `Holdable`: a forward-only cursor does not commit, since `Materialize` returns to a
  chunk such a cursor has dropped. `ScrollNeverUndefined` (`NeverUndefined`) needs
  `Compatible`: no absolute fetch on an empty result, whose null chunk it reads, and none
  beside SQLGetData, as offset 1 stops before the first row; no SQL_UNBIND beside
  SQLBindCol, which leaves `bound_cols` short, or beside SQLGetData, as a fetch without
  bound columns stops behind the end of a chunk. Both follow from `CursorInvariance`. Its
  invariant `CursorInv` says that pointer and index lie within the vector of chunks and
  so does the position `Materialize` has saved (`HeldInv`: without the latter the
  restored pointer could be anything), and for compatible calls that rows and
  `bound_cols` fit (`ScrollInv`).

* `ScrollProofs`, `ScrollRefinement`: `StatementCursor` implements `ScrollCursor`
  (`ImplementsScrollCursor`). The hypothesis `OneRowScroll`: results of one chunk (with
  more, `RequireFetch` measures the wrong one), one-row rowsets, no variable-length
  column bound (the second transfer of a row starts where the first stopped),
  SQL_ATTR_RETRIEVE_DATA on where SQLFetch is used, and no absolute offset one past the
  last row (taken for the start once the end was seen). `PlaceInv` says what makes the
  mapping a function of the handle: the one chunk is held, and `chunk_row` and
  `prior_chunk_row` are in one of three relations (`Placed`: at the start, on a row,
  behind the last one), during a commit those `Materialize` has saved. There is a lemma
  for each kind of abstract step (`Simulates...`), one for each operator of `OdbcFetch`
  on one chunk, and one for each action; an iteration of `Materialize` or of
  `SetAbsoluteCurrentChunk` is a stutter except the last.

* `ParamExecProofs`. `ParamTyped` (`ParamTypeOK`) holds for every application, by
  `ParamInv`: the records are no fewer than the count says, a record nobody bound has
  no buffer, and the set index of the dialog stays within the arrays.
  `SetsExecutedInOrder` (`SetsInOrder`) and `WholeBatchExecuted` (`WholeBatch`) hold
  for a `Tidy` application, one that calls SQL_CLOSE or SQL_RESET_PARAMS before it
  runs the statement again and does not reset parameters while SQLFetch or
  SQLMoreResults, which needs no cursor, may still execute sets: nothing else sets the
  index of the next set back to 0. `OrderInv` relates that index to the number of sets
  executed, which `SetsInOrder` alone does not, and keeps it below the number of sets
  in the loop. `TidyWithinSets` (`WithinSets`) is the latter: the assertion at
  `parameter_descriptor.cpp:70` holds for tidy applications. `BatchBounded`, for tidy
  applications too, and `DialogBounded`, for every application, are the safety half of
  `BatchTerminates` and `DialogEnds`: an iteration that goes on has executed a set and
  left another (without `Tidy` the index may be past the end, and a release build goes
  on); SQLParamData asks only while a parameter is left, and each piece SQLPutData
  then takes leads to the next parameter, the next set, or a longer value still short
  of the column size.

* `ParamDialogProofs`. `CarefulDefined` (`ParamsNeverUndefined`) and `CarefulOwnValues`
  (`OwnValues`) hold for a `Careful` application: it binds every parameter, to types the
  driver knows, with both pointers, and gives lengths, nulls or `SQL_DATA_AT_EXEC` (not
  `SQL_NTS` or `SQL_LEN_DATA_AT_EXEC`, section 4), and cleans up before it runs again; with
  data at execution it does so by SQL_RESET_PARAMS (the records keep pointers into the
  freed pool), sets no status array (it is written behind its end), sends whole values
  (a piece too many goes to the next parameter, whether it asks or not) and no null for
  a string (it is taken for a length), and has one parameter or one set (the pool
  holds the array of one parameter). `CareInv` says at every point of a run where the data pointers
  lead and which elements hold a value of this run. `DialogComplete` (`DataComplete`)
  needs `AsksAll` besides: with several parameters all ask for data, as the dialog ends
  at the first that does not, and a fixed-length one is sent as null, as its indicator
  is not replaced otherwise. Its invariant `AskInv` is the progress of the dialog:
  parameters before the current one are answered, those after it ask.

* `ConnectionsProofs`, for every application: `ConnTyped` (`ConnTypeOK`), `NothingDangles`
  (`NoDangling`), `ModeMatches` (`ModeMatchesTransaction`) and `WorkStays` (`WorkKept`).
  `ConnInv` adds to the properties: each statement is
  on the list of its connection exactly once, handles are accepted only while their
  connection is open, descriptors belong to the connection of the statement that uses
  them (`Handles`: without it freeing a descriptor, which visits the statements of its
  own connection, could leave a pointer behind), and every row written is counted once,
  as pending or saved, with no row pending in automatic mode or without a transaction
  (`Engines`: this is what `WorkKept` needs of the state before a step).

* `InstanceCacheProofs`: `OneInstancePerDatabase` (`SameDatabase`), `DatabasePartOnce`
  (`DbInitOnce`) and `CacheTypes` (`CacheTypeOK`), for every application. They rest on
  `CacheInv`: what a thread
  holds at each point of a connect (`Holds`), that its pointers lead to instances in the
  state they imply and of the file it connects to (`Points`), that cache entries and
  environments do too (`Entries`), and that an instance has at most one creator, which
  has not yet run the database part (`Created`). `DbInitOnce` needs the last: it alone
  does not exclude a second thread about to run the part. The uniqueness of the
  creator needs `Points`: a name that is given to a new instance is one nobody still
  points to. `SameDatabase` is about the table of open files, whose guard knows only a
  count and the mode of the first attachment. `PathInv` says what the table knows: the
  count of a path is the number of instances that have registered it (those with the file
  open and those that have closed it and not yet erased the path), and if there are
  several, the first and all others read only. That the count is right needs the order in
  which an instance registers, opens, closes and erases, the steps of other instances
  between them, and that no step takes a registered instance out of the table otherwise
  (`TableStays`, for every other step). It needs nothing of which instance the cache has:
  so the property survives `EraseKey`, which can erase an entry that is not the one it
  waited for.

* `InstanceCacheProofs`, `WaitsForShutdown` (`SpinIsShutdown`), if each environment is
  `Loyal`: it has one connection, which leaves no statements behind, or all its
  connections open one database and nothing is opened read-only. The invariant
  `SpinInv` says that what the connections and statements of an environment use is
  what the environment owns (`Homed`), so that an open instance always has its object
  and a thread that finds none has found one that is shut down. In the second case
  `Homed` rests on `SameDatabase`: a connect that comes to another instance than its
  environment owns would have opened the file twice. The `cache` run is outside this
  hypothesis (statements are left behind and a configuration is read-only); there the
  property holds up to its bounds.

* `WidecharProofs`: what the conversions make of a text of any length. They are folds over
  the units or bytes, and what a fold computes needs induction over the sequence. The
  induction theorems of the library cannot be used by these provers; the module takes the
  least number principle instead (`SmallestNat`, from `WFMin`) and derives from it that a set
  which has the empty sequence and, with a sequence, what `Append` makes of it, has every
  sequence (`SequencesReached`), and that a fold over `Append(s, u)` is its step on the fold
  over s (`IteratesAppend`, then `DecodingSteps`, `EncodingSteps`, `ReplacingSteps` and
  `SearchingSteps`). A claim about a conversion is then a set of sequences shown closed
  under `Append`. `RoundTrip`: to UTF-8 and back, a text is `Repaired`: each unit without a
  partner is replaced and nothing else changes. Its induction states are relative to the
  units before a trailing lead (`StandsAt`), since the converters hold a lead back until
  they see the next unit; that `utf16_find_invalid` returns the end for a lone trail in
  the last place does no harm, as the decoder replaces it (`FoundPaired`). The hypothesis
  `NoTwoLeads` is needed: `utf16_replace_invalid` copies the unit after a lead unchecked.
  `OutputWhole`: the bytes of a character follow one another (`Regular`), a whole
  character has at most three bytes for a unit and a cut one at most three bytes
  (`DecodingDense`), and the units of the first bytes are the first units
  (`DecodingStarts`); so three bytes for each unit of the buffer are enough.

* `DiagnosticsProofs`: `DiagTypeCorrect` (`DiagTypeOK`) for every application;
  `AllRecordsReached` (`WalkReachesAll`) if SQLGetDiagField is not called for record 1
  meanwhile (`Undisturbed`: it goes back to the first number); `PartsDoNotOverlap`
  (`PartsApart`, of parts cut at a byte) and `WalkBounded` (`WalkEnds`) if besides no
  buffer has length 0 (`HaveRoom`). `DiagInv`: every record has a number, in the order
  of the records, offsets lie within the messages, which are not empty (`RecordsInv`);
  those not yet walked are one per record (`WalkInv`: without it a number inserted
  behind the walk could hide a record); a record that is read again starts behind what
  was returned of it (`PartsInv`). For `WalkEnds` the places where the parts start are
  an injection into the bytes. `TextReadBack` (`WholeText`) follows from `RoundTrip`
  and that a record's message is the conversion of its text, if no text has two leads
  in a row (`NoLeadsInRow`); `OutputIsPrefix` (`OutIsPrefix`) from `OutputWhole`, if
  besides three bytes for each unit of the buffer, or of the text, are within an
  SQLSMALLINT (`EnoughBytes`: beyond it the narrow buffer ends early). TLC evaluates
  these hypotheses on the run's constants (`HypothesesAssumption`).

The proofs have a lemma per operator of the model, then one per action, or per kind of
step where actions are alike (`StepOfOne`, `Releases`, `SpinStep`, `Shuts`). The
constants' assumptions are the ones named in the modules.

**Model-checked only.** Liveness (`AbsoluteTerminates`, `BatchTerminates`,
`DialogEnds`, `ConnectReturns`) is out of this prover's reach; for the first three the
measure that decreases is proved (above), for the last, a busy wait on other threads,
there is none. `params_array` checks
`ParamsNeverUndefined` and `DataComplete` also for a single parameter that is not bound, or
bound to a type the driver does not know, and `params_batch` the former for parameters with
one null pointer and null-terminated values, which `Careful` excludes.

## 6. Not modelled

Conversions of values to C types (`GetDataStmtResult`'s switch, numbers,
intervals): arithmetic of the engine's types, without state. Strides and offsets
at which the application's arrays are read, beyond which element is used. The
contents of explicit descriptors: SQLSetDescField and its kin are single assignments;
fetching reads `bound_cols` and the header of the implicit row descriptor only, and
SQLBindParameter writes to the implicit descriptors whichever one is associated, so an
explicit parameter descriptor is filled by SQLSetDescField alone. Parsing of
connection strings and ini files: they are read before anything is changed. Catalog
functions: they build one SQL text. Information tables and stubs: constant. Cupola
connections: Windows credential I/O; that attaching one fails is part of
`InitFails`. The engine beyond its instance cache, its transaction context and the
end of a query: planning, execution and storage are vendored, and the driver sees
them as a stream of chunks.

## 7. Plan

Done: the fetch engine and its abstract cursor; parameters; connections, handles and
transactions; connecting, session initialisation and the instance cache; diagnostics
and wide characters; the proofs of all their safety properties that section 5 lists.
Next:

1. Proofs: `Careful` without the exclusion of unbound parameters and unsupported types,
   so that it covers `params_array`; `WaitsForShutdown` for an environment whose one
   connection leaves statements behind; order and completeness (`InOrder`,
   `NoDataIsTheEnd`) for applications that also commit with a scrollable cursor.
2. The contents of explicit descriptors, composed with the pointers of
   `Connections`.
