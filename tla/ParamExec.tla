----------------------------- MODULE ParamExec -----------------------------
(***************************************************************************)
(* Parameters of a prepared statement: class ParameterDescriptor, the loop *)
(* of BatchExecuteStmt over the parameter sets, and the data-at-execution  *)
(* dialog of SQLParamData and SQLPutData, after which it is SQLFetch and   *)
(* SQLMoreResults that execute the statement.                              *)
(*                                                                         *)
(* The APD and the IPD are the implicit ones; they always have the same    *)
(* number of records, so a record here is the pair.  A value is named by   *)
(* the run (the SQLExecute or SQLExecDirect call) the application supplied *)
(* it for.  Parameters are counted from 0 as in the code, sets too.        *)
(***************************************************************************)
EXTENDS Integers, Sequences

CONSTANTS
  NumParams,   \* parameter markers of the statement
  Query,       \* the statement returns rows, so executing it opens a cursor
  ArraySizes,  \* values given to SQL_ATTR_PARAMSET_SIZE
  Bindings,    \* how the application binds parameters, see Bound
  ColumnSize,  \* column size of the bound parameters
  Pieces,      \* what SQLPutData is given for a type: lengths, or SQL_NULL_DATA
  Calls,       \* names of the ODBC calls the application makes
  Cleans,      \* calls one of which the application makes before it runs the
               \* statement again; {} for an application that does not
  Habits,      \* what else the application keeps to, see AllHabits
  MaxRuns      \* bound: executions of the statement

AllCalls == {"prepare", "execdirect", "bind", "rebind", "paramset_size", "status_ptr",
             "reset_params", "close", "cancel", "fetch", "more_results"}
\* It binds every parameter before it runs the statement, sends every value up to
\* the column size, and changes the number of sets or resets the parameters only
\* when no set of an execution can still be executed.
AllHabits == {"binds_all", "whole_values", "changes_closed"}
AllBindings == {"plain", "nts", "null", "at_exec", "len_at_exec", "fixed_at_exec",
                "unsupported", "no_indicator", "null_token"}

\* C types PutData tells apart: SQL_C_CHAR or SQL_C_BINARY, any other, and
\* SQL_C_BINARY for a SQL type SetValue does not know.
Types == {"char", "fixed", "unsupported"}

SQL_NULL_DATA    == -1
SQL_DATA_AT_EXEC == -2
SQL_NTS          == -3
\* SQL_LEN_DATA_AT_EXEC(length), for the length of the column.
SQL_LEN_DATA_AT_EXEC == -100 - ColumnSize
AtExecIndicators     == {SQL_DATA_AT_EXEC, SQL_LEN_DATA_AT_EXEC}

ASSUME ParamsAssumption == NumParams \in Nat \ {0} /\ ColumnSize \in Nat \ {0}
ASSUME ParamSetsAssumption ==
  ArraySizes \subseteq Nat \ {0} /\ ArraySizes # {}
ASSUME ParamCallsAssumption ==
  /\ Calls \subseteq AllCalls /\ Bindings \subseteq AllBindings
  /\ Query \in BOOLEAN /\ Habits \subseteq AllHabits /\ Cleans \subseteq {"close", "reset_params"}
ASSUME PiecesAssumption ==
  Pieces \in [Types -> SUBSET ((Nat \ {0}) \cup {SQL_NULL_DATA})] /\ MaxRuns \in Nat

VARIABLES
  pd,      \* the ParameterDescriptor
  res,     \* the result of the handle: "none", "ok" or "error"
  dm,      \* state of the handle in the driver manager
  call,    \* "idle", "batch" in the loop of BatchExecuteStmt, "undefined" after a stray access
  ret,     \* SQLRETURN of the last call that executes, asks for data or takes it
  run,     \* history: number of the current run
  exec,    \* history: what the engine was asked to execute in this run
  dirty    \* history: the handle ran since the application last made one of Cleans

vars == <<pd, res, dm, call, ret, run, exec, dirty>>
----------------------------------------------------------------------------
(***************************************************************************)
(* ParameterDescriptor.                                                    *)
(***************************************************************************)
Sets == UNION {0 .. n - 1 : n \in ArraySizes}

\* A record nobody bound: both pointers are null.
NoRecord == [type |-> "char", data |-> "null", ind_ptr |-> FALSE,
             ind |-> [s \in Sets |-> 0], value |-> [s \in Sets |-> 0]]

\* The indicator array of the application, element by element.
Indicators(b) ==
  [s \in Sets |-> CASE b \in {"at_exec", "fixed_at_exec", "null_token"} -> SQL_DATA_AT_EXEC
                    [] b = "len_at_exec" -> SQL_LEN_DATA_AT_EXEC
                    [] b = "null" -> SQL_NULL_DATA
                    [] b = "nts" -> SQL_NTS
                    [] b \in {"plain", "unsupported"} -> ColumnSize
                    [] b = "no_indicator" -> 0]

\* Either pointer may be null: a value without an indicator is not null, and data at
\* execution needs no token.
Bound(b) ==
  [NoRecord EXCEPT !.type = CASE b = "fixed_at_exec" -> "fixed"
                              [] b = "unsupported" -> "unsupported"
                              [] b \notin {"fixed_at_exec", "unsupported"} -> "char",
                   !.data = IF b = "null_token" THEN "null" ELSE "app",
                   !.ind_ptr = (b # "no_indicator"), !.ind = Indicators(b)]

NewDescriptor ==
  [records |-> << >>, count |-> 0, array_size |-> 1, status_ptr |-> FALSE, processed |-> 0,
   paramset_idx |-> 0, cur_paramset_idx |-> 0, cur_param_idx |-> 0,
   pool |-> FALSE, values |-> << >>]

\* pool_allocated_ptr.clear(): records keep the pointers into it.
FreePool(p) ==
  [p EXCEPT !.pool = FALSE,
            !.records = [i \in DOMAIN p.records |->
                           [p.records[i] EXCEPT !.data = IF @ = "pool" THEN "freed" ELSE @]]]

\* Mutants: the indexes are set to -1 as those of the fetcher are, or one of them
\* is not reset.
ResetToMinusOne(p) ==
  [FreePool(p) EXCEPT !.count = 0, !.paramset_idx = -1,
                      !.cur_paramset_idx = -1, !.cur_param_idx = -1]
ResetKeepsParam(p) ==
  [FreePool(p) EXCEPT !.count = 0, !.paramset_idx = 0, !.cur_paramset_idx = 0]
ResetKeepsParamset(p) ==
  [FreePool(p) EXCEPT !.count = 0, !.cur_paramset_idx = 0, !.cur_param_idx = 0]

Reset(p) ==
  [FreePool(p) EXCEPT !.count = 0, !.paramset_idx = 0,
                      !.cur_paramset_idx = 0, !.cur_param_idx = 0]

\* Mutants: the records are kept, with their buffers or without.
ClearKeepsRecords(p) == Reset(p)
ClearIndexesOnly(p) ==
  [p EXCEPT !.paramset_idx = 0, !.cur_paramset_idx = 0, !.cur_param_idx = 0]

Clear(p) == [Reset(p) EXCEPT !.records = << >>]

Resized(records, n) ==
  [i \in 1..n |-> IF i <= Len(records) THEN records[i] ELSE NoRecord]

\* One record per parameter marker; the indexes stay.
ResetParams(p) ==
  [FreePool(p) EXCEPT !.records = Resized(FreePool(p).records, NumParams), !.count = NumParams]

\* GetDescRecord of both descriptors: records are added up to the i-th.
GetDescRecord(p, i) ==
  IF i <= Len(p.records) THEN p
  ELSE [p EXCEPT !.records = Resized(p.records, i), !.count = i]

\* Mutant: off by one.
HasParamSetOrEqual(p) == p.paramset_idx <= p.array_size /\ p.records # << >>

HasParamSetToProcess(p) == p.paramset_idx < p.array_size /\ p.records # << >>

\* SetValue(rec_idx): what reading record r for set s amounts to.  A record with one
\* null pointer is read as NULL.
ReadAsNull(r, s) == r.data = "null" \/ ~r.ind_ptr \/ r.ind[s] = SQL_NULL_DATA

SetValueCode(r, s) ==
  CASE r.data = "null" /\ ~r.ind_ptr -> "ERROR"
    [] (r.data # "null" \/ r.ind_ptr) /\ ReadAsNull(r, s) -> "SUCCESS"
    [] ~ReadAsNull(r, s) /\ r.ind[s] \in AtExecIndicators -> "NEED_DATA"
    [] ~ReadAsNull(r, s) /\ r.ind[s] \notin AtExecIndicators ->
         IF r.type = "unsupported" THEN "ERROR" ELSE "SUCCESS"

\* The value read: a pool buffer holds what SQLPutData copied into it, the buffer of
\* the application what it is for now, as far as the length left by an earlier run
\* reaches.  0 is the value of nobody, a NULL the application did not ask for.
ValueRead(r, s) ==
  IF ReadAsNull(r, s) THEN IF r.ind_ptr /\ r.ind[s] = SQL_NULL_DATA THEN run ELSE 0
  ELSE IF r.data = "pool" \/ r.value[s] # 0 THEN r.value[s] ELSE run

\* What reading leaves: the length of a terminated string replaces SQL_NTS in the
\* array of the application, for this value and for those of later runs.
ReadRecord(r, s) ==
  IF r.type = "char" /\ ~ReadAsNull(r, s) /\ r.ind[s] = SQL_NTS
    THEN [r EXCEPT !.ind[s] = ColumnSize, !.value[s] = run] ELSE r

\* A pool buffer that was freed, or that ends in no terminator.
ReadsStray(r, s) ==
  /\ SetValueCode(r, s) = "SUCCESS" /\ ~ReadAsNull(r, s)
  /\ r.data = "freed" \/ (r.data = "pool" /\ r.ind[s] = SQL_NTS)

\* Mutant: the end is seen one set early.
SetParamIndexEarly(p) ==
  [p |-> [p EXCEPT !.paramset_idx = @ + 1, !.processed = p.paramset_idx + 1],
   ret |-> IF p.paramset_idx + 2 >= p.array_size THEN "SUCCESS" ELSE "STILL_EXECUTING"]

SetParamIndex(p) ==
  [p |-> [p EXCEPT !.paramset_idx = @ + 1, !.processed = p.paramset_idx + 1],
   ret |-> IF p.paramset_idx + 1 = p.array_size THEN "SUCCESS" ELSE "STILL_EXECUTING"]

\* Records of set s, in order, up to the first one that ends the loop of
\* GetParamValues: data is missing, or an error without a status array.
Ends(p, s) ==
  {i \in DOMAIN p.records :
     \/ SetValueCode(p.records[i], s) = "NEED_DATA"
     \/ SetValueCode(p.records[i], s) = "ERROR" /\ ~p.status_ptr}

\* The member `values` once the records before the n-th are read.  A record in
\* error keeps the value an earlier set or run left.
ReadValues(p, s, n) ==
  [i \in 1 .. (IF Len(p.values) < n THEN n - 1 ELSE Len(p.values)) |->
     IF i < n /\ SetValueCode(p.records[i], s) = "SUCCESS"
       THEN ValueRead(p.records[i], s) ELSE p.values[i]]

\* Reading set s is defined: the application's arrays have an element for it
\* (the assertion at the start), no pool buffer read has been freed, and a
\* record in error finds a value to keep.
CanRead(p, s, n) ==
  /\ s < p.array_size
  /\ \A i \in 1 .. n - 1 :
       /\ ~ReadsStray(p.records[i], s)
       /\ SetValueCode(p.records[i], s) = "ERROR" => i <= Len(p.values)

GetParamValues(p) ==
  LET s    == p.paramset_idx
      stop == Ends(p, s)
      n    == CHOOSE i \in 1 .. Len(p.records) + 1 :
                /\ i \in stop \cup {Len(p.records) + 1}
                /\ \A j \in stop : i <= j
      read == [p EXCEPT !.values = ReadValues(p, s, n),
                        !.records = [i \in DOMAIN p.records |->
                                       IF i < n THEN ReadRecord(p.records[i], s) ELSE p.records[i]]]
      next == SetParamIndex(read)
      Got(q, r, vals, ok) == [p |-> q, ret |-> r, vals |-> vals, ok |-> ok]
  IN IF p.records = << >> THEN Got(p, "SUCCESS", << >>, TRUE)
     ELSE IF s >= p.array_size \/ ~CanRead(p, s, n) THEN Got(p, "ERROR", << >>, FALSE)
     ELSE IF stop # {} THEN Got(read, SetValueCode(p.records[n], s), << >>, TRUE)
     ELSE Got(next.p, next.ret, SubSeq(read.values, 1, n - 1), TRUE)

\* The assertion on the set is compiled out of a release build: a set past the arrays
\* is read like any other, and what lies there may pass for a value, for missing data
\* or for an error at any record.
PastArrays(p) == p.records # << >> /\ p.paramset_idx >= p.array_size

ReadPast(p) ==
  LET len == Len(p.records)
      Read(n) ==
        [p EXCEPT !.values = [i \in 1 .. (IF Len(p.values) < n THEN n - 1 ELSE Len(p.values)) |->
                                IF i < n THEN 0 ELSE p.values[i]]]
      next == SetParamIndex(Read(len + 1))
  IN {[p |-> Read(n), ret |-> r, vals |-> << >>, ok |-> TRUE] :
        n \in 1 .. len, r \in {"NEED_DATA", "ERROR"}}
     \cup {[p |-> next.p, ret |-> next.ret, vals |-> [i \in 1 .. len |-> 0], ok |-> TRUE]}

Outcomes(p) == IF PastArrays(p) THEN ReadPast(p) ELSE {GetParamValues(p)}

\* GetNextParam, with the indicator of the record the dialog has come to.
GetNextParam(p) ==
  LET r == p.records[p.cur_param_idx + 1]
  IN IF p.cur_param_idx >= p.count THEN [p |-> p, ret |-> "NO_DATA"]
     ELSE [p   |-> [p EXCEPT !.processed = @ + 1],
           ret |-> IF r.ind[p.cur_paramset_idx] = SQL_DATA_AT_EXEC THEN "NEED_DATA" ELSE "SUCCESS"]

\* Mutant: the indicator holds the length of the last piece, not of all of them.
FillParamLastPieceLength(p, len) ==
  LET i    == p.cur_param_idx + 1
      full == len >= ColumnSize
  IN [p EXCEPT !.pool = TRUE,
               !.records[i] = [@ EXCEPT !.data = "pool", !.value[0] = run,
                                        !.ind[0] = IF full THEN ColumnSize ELSE len],
               !.cur_param_idx = IF full THEN @ + 1 ELSE @]

\* FillParamCharDataBuffer: one parameter set, a value that comes in pieces.
\* The indicator counts the bytes received.
FillParamCharDataBuffer(p, len) ==
  LET i      == p.cur_param_idx + 1
      r      == p.records[i]
      fresh  == r.ind[0] = SQL_DATA_AT_EXEC
      offset == IF fresh THEN 0 ELSE r.ind[0]
      full   == len >= ColumnSize - offset
  IN [p EXCEPT !.pool = TRUE,
               !.records[i] = [r EXCEPT !.data = "pool",
                                        !.ind[0] = IF full THEN ColumnSize ELSE offset + len,
                                        !.value[0] = run],
               !.cur_param_idx = IF full THEN @ + 1 ELSE @]

\* Mutant: the length is not stored.
FillCurParamCharSetNoLength(p, len) ==
  LET i    == p.cur_param_idx + 1
      s    == p.cur_paramset_idx
      last == s + 1 >= p.array_size
  IN [p EXCEPT !.pool = TRUE, !.records[i] = [@ EXCEPT !.data = "pool", !.value[s] = run],
               !.cur_paramset_idx = IF last THEN 0 ELSE s + 1,
               !.cur_param_idx = IF last THEN @ + 1 ELSE @]

\* FillCurParamCharSet: several sets, one piece per value; every set of a
\* parameter before the next parameter.
FillCurParamCharSet(p, len) ==
  LET i    == p.cur_param_idx + 1
      s    == p.cur_paramset_idx
      last == s + 1 >= p.array_size
      size == IF len >= ColumnSize THEN ColumnSize ELSE len
  IN [p EXCEPT !.pool = TRUE,
               !.records[i] = [@ EXCEPT !.data = "pool", !.ind[s] = size, !.value[s] = run],
               !.cur_paramset_idx = IF last THEN 0 ELSE s + 1,
               !.cur_param_idx = IF last THEN @ + 1 ELSE @]

\* A null of a fixed-length value is noted in the indicator.  Any other value is copied
\* to a buffer of the pool: it is allocated for the first piece, in an array only if
\* the pool is empty.  SQL_NULL_DATA is a length like any other there, and there is no
\* data to copy.  With one set, the status of the parameter after it, once the value
\* is full, is written to the element of the status array with that number.
CanPut(p, len) ==
  LET r == p.records[p.cur_param_idx + 1]
      s == p.cur_paramset_idx
      CanPutPiece ==
        /\ r.ind[0] = SQL_DATA_AT_EXEC \/ (r.data = "pool" /\ r.ind[0] >= 0)
        /\ p.status_ptr => FillParamCharDataBuffer(p, len).cur_param_idx = 0
      CanPutSet ==
        /\ s < p.array_size
        /\ r.data = "pool" \/ (r.ind[s] = SQL_DATA_AT_EXEC /\ ~p.pool)
  IN /\ r.type = "fixed" => (len = SQL_NULL_DATA => r.ind_ptr)
     /\ r.type # "fixed" =>
          r.ind_ptr /\ len # SQL_NULL_DATA /\ (IF p.array_size = 1 THEN CanPutPiece ELSE CanPutSet)

\* PutData.  A fixed-length value is the application's buffer from now on; its
\* indicator is left alone, except that a null is noted in the first one.
PutData(p, len) ==
  LET i == p.cur_param_idx + 1
  IN CASE p.cur_param_idx >= p.count -> p
       [] p.cur_param_idx < p.count /\ p.records[i].type = "fixed" ->
            IF len = SQL_NULL_DATA
              THEN [p EXCEPT !.cur_param_idx = @ + 1, !.records[i].ind[0] = SQL_NULL_DATA]
              ELSE [p EXCEPT !.cur_param_idx = @ + 1, !.records[i].data = "app"]
       [] p.cur_param_idx < p.count /\ p.records[i].type # "fixed" ->
            IF p.array_size = 1 THEN FillParamCharDataBuffer(p, len)
                                ELSE FillCurParamCharSet(p, len)
----------------------------------------------------------------------------
Init ==
  /\ pd = NewDescriptor
  /\ res = "none" /\ dm = "allocated" /\ call = "idle"
  /\ ret = "SUCCESS"
  /\ run = 0 /\ exec = << >> /\ dirty = FALSE

\* States in which the driver manager is in the middle of the dialog and refuses
\* all but SQLParamData, SQLPutData and SQLCancel: S8, S9 and S10.
InDialog == dm \in {"need_data", "must_put", "can_put"}

Calling(c) == c \in Calls /\ call = "idle" /\ ~InDialog
CursorOpen == dm = "executed" /\ Query
\* Sets of an execution that is over may still be executed, by SQLFetch or SQLMoreResults.
MoreToCome == dm = "executed" /\ (Query \/ "more_results" \in Calls)

Undefined ==
  /\ call' = "undefined"
  /\ UNCHANGED <<pd, res, dm, ret, run, exec, dirty>>

Configure(c, p) ==
  /\ Calling(c)
  /\ pd' = p
  /\ UNCHANGED <<res, dm, call, ret, run, exec, dirty>>

\* SQLPrepare: PrepareQuery, then FinalizeStmt if the engine accepts the text.
SQLPrepare ==
  /\ Calling("prepare") /\ ~CursorOpen
  /\ res' = "none"
  /\ \/ pd' = ResetParams(pd) /\ dm' = "prepared"
     \/ pd' = pd /\ dm' = "allocated"
  /\ UNCHANGED <<call, ret, run, exec, dirty>>

\* SQLBindParameter; a call refused for its types has added the record already.
SQLBindParameter(i, b) ==
  \E refused \in BOOLEAN :
    LET p == GetDescRecord(pd, i)
    IN Configure("bind", IF refused THEN p ELSE [p EXCEPT !.records[i] = Bound(b)])

\* The application writes its indicators anew, the binding stays.  No length of an
\* earlier value of its own is left.
WriteIndicators(i, b) ==
  /\ i <= Len(pd.records) /\ pd.records[i].ind_ptr
  /\ Configure("rebind",
       [pd EXCEPT !.records[i].ind = Indicators(b),
                  !.records[i].value = IF pd.records[i].data = "app" THEN [s \in Sets |-> 0] ELSE @])

ChangeOfSets == "changes_closed" \in Habits => ~MoreToCome

SetParamsetSize(n) ==
  ChangeOfSets /\ Configure("paramset_size", [pd EXCEPT !.array_size = n])
SetStatusPtr(b)    == Configure("status_ptr", [pd EXCEPT !.status_ptr = b])

\* SQLFreeStmt(SQL_RESET_PARAMS), and SQLFreeStmt(SQL_CLOSE).
ResetParameters ==
  /\ Calling("reset_params") /\ ChangeOfSets
  /\ pd' = Clear(pd) /\ dirty' = (dirty /\ "reset_params" \notin Cleans)
  /\ UNCHANGED <<res, dm, call, ret, run, exec>>

CloseStmt ==
  /\ Calling("close")
  /\ pd' = Reset(pd) /\ res' = "none" /\ dirty' = ("close" \notin Cleans)
  /\ dm' = IF dm = "executed" THEN "prepared" ELSE dm
  /\ UNCHANGED <<call, ret, run, exec>>

\* SQLCancel during the dialog: the driver only interrupts the engine.
SQLCancel ==
  /\ "cancel" \in Calls /\ call = "idle" /\ InDialog
  /\ dm' = "prepared"
  /\ UNCHANGED <<pd, res, call, ret, run, exec, dirty>>
----------------------------------------------------------------------------
(***************************************************************************)
(* Execution.                                                              *)
(***************************************************************************)
\* A run starts: BatchExecuteStmt is entered.
StartRun(p) ==
  /\ ~CursorOpen /\ run < MaxRuns /\ (Cleans # {} => ~dirty)
  /\ "binds_all" \in Habits =>
       /\ Len(p.records) = NumParams
       /\ \A i \in 1..NumParams : p.records[i].data # "null" \/ p.records[i].ind_ptr
  /\ pd' = p /\ call' = "batch"
  /\ run' = run + 1 /\ exec' = << >> /\ dirty' = TRUE
  /\ res' = "none"
  /\ UNCHANGED ret

\* The driver manager would ask for a SQLPrepare between a direct execution and a
\* SQLExecute; the driver does not, and the model leaves that to Calls.
SQLExecute    == call = "idle" /\ dm \in {"prepared", "executed"} /\ StartRun(pd) /\ UNCHANGED dm
SQLExecDirect == Calling("execdirect") /\ StartRun(ResetParams(pd)) /\ dm' = "prepared"

ReturnCodes == {"SUCCESS", "ERROR", "NO_DATA", "NEED_DATA", "STILL_EXECUTING"}

\* SingleExecuteStmt returns r: the next parameter set, if there are parameters.  The
\* engine may fail, and does when the values do not match the parameter markers.
SingleExecuteStmt(r) ==
  \E g \in Outcomes(pd) :
  LET stops == g.ret \in {"NEED_DATA", "ERROR"}
  IN /\ g.ok /\ pd' = g.p
     /\ \/ stops /\ r = g.ret /\ res' = "none" /\ UNCHANGED exec
        \/ /\ ~stops
           /\ exec' = Append(exec, [set |-> pd.paramset_idx, vals |-> g.vals])
           /\ \/ Len(g.vals) = NumParams /\ r = g.ret /\ res' = "ok"
              \/ r = "ERROR" /\ res' = "error"
     /\ UNCHANGED <<run, dirty>>

StrayRead == ~GetParamValues(pd).ok /\ Undefined

\* What the loop makes of a return code.
LoopGoesOn    == UNCHANGED <<call, ret, dm>>
LoopEnds(r)   == call' = "idle" /\ ret' = r /\ dm' = IF r = "SUCCESS" THEN "executed" ELSE "prepared"
DialogOpens   == call' = "idle" /\ ret' = "NEED_DATA" /\ dm' = "need_data"

\* Mutant: the loop also goes on while data is missing.
BatchStepWaits ==
  /\ call = "batch"
  /\ \/ StrayRead
     \/ \E r \in {"STILL_EXECUTING", "NEED_DATA"} : SingleExecuteStmt(r) /\ LoopGoesOn
     \/ \E r \in {"SUCCESS", "ERROR"} : SingleExecuteStmt(r) /\ LoopEnds(r)

\* One iteration of the loop of BatchExecuteStmt.  A failure of the fetch of the
\* first chunk that follows the last set leaves what a failed execution leaves.
BatchStep ==
  /\ call = "batch"
  /\ \/ StrayRead
     \/ SingleExecuteStmt("STILL_EXECUTING") /\ LoopGoesOn
     \/ SingleExecuteStmt("NEED_DATA") /\ DialogOpens
     \/ \E r \in {"SUCCESS", "ERROR"} : SingleExecuteStmt(r) /\ LoopEnds(r)

\* ExecuteBeforeFetch: SQLFetch executes the next set if there is no result.
SQLFetch ==
  /\ Calling("fetch") /\ CursorOpen
  /\ \/ /\ res # "ok" /\ HasParamSetToProcess(pd)
        /\ \/ StrayRead
           \/ \E r \in ReturnCodes :
                /\ SingleExecuteStmt(r)
                /\ ret' = IF r = "STILL_EXECUTING" THEN "SUCCESS" ELSE r
                /\ UNCHANGED <<call, dm>>
     \/ /\ res = "ok" \/ ~HasParamSetToProcess(pd)
        /\ ret' = IF res = "ok" THEN "SUCCESS" ELSE "NO_DATA"
        /\ UNCHANGED <<pd, res, dm, call, run, exec, dirty>>

\* Unlike SQLFetch it needs no cursor.
SQLMoreResults ==
  /\ Calling("more_results") /\ dm = "executed"
  /\ \/ /\ HasParamSetToProcess(pd)
        /\ \/ StrayRead
           \/ \E r \in ReturnCodes : SingleExecuteStmt(r) /\ ret' = r /\ UNCHANGED <<call, dm>>
     \/ /\ ~HasParamSetToProcess(pd)
        /\ ret' = "NO_DATA" /\ UNCHANGED <<pd, res, dm, call, run, exec, dirty>>
----------------------------------------------------------------------------
(***************************************************************************)
(* Data at execution.                                                      *)
(***************************************************************************)
\* The application is in the middle of a value.
MidValue ==
  /\ dm = "can_put" /\ pd.cur_param_idx < pd.count
  /\ pd.records[pd.cur_param_idx + 1].ind[pd.cur_paramset_idx] \in 0 .. ColumnSize - 1

\* SQLParamData: a missing parameter is asked for; otherwise the dialog is over.
SQLParamData ==
  /\ call = "idle" /\ dm \in {"need_data", "can_put"} /\ ("whole_values" \in Habits => ~MidValue)
  /\ IF /\ pd.cur_param_idx < pd.count
        /\ ~pd.records[pd.cur_param_idx + 1].ind_ptr \/ pd.cur_paramset_idx >= pd.array_size
       THEN Undefined
       ELSE LET g == GetNextParam(pd)
            IN /\ pd' = g.p
               /\ ret' = IF g.ret = "NO_DATA" THEN "SUCCESS" ELSE g.ret
               /\ dm' = IF g.ret = "NEED_DATA" THEN "must_put" ELSE "executed"
               /\ UNCHANGED <<res, call, run, exec, dirty>>

\* What the application sends for the parameter the dialog has come to.
AllPieces == UNION {Pieces[t] : t \in Types}
Sends(len) ==
  pd.cur_param_idx < pd.count => len \in Pieces[pd.records[pd.cur_param_idx + 1].type]

\* SQLPutData reports success whatever PutData returns.
SQLPutData(len) ==
  /\ call = "idle" /\ dm \in {"must_put", "can_put"} /\ Sends(len)
  /\ "whole_values" \in Habits /\ dm = "can_put" => MidValue
  /\ IF pd.cur_param_idx < pd.count /\ ~CanPut(pd, len) THEN Undefined
     ELSE /\ pd' = PutData(pd, len)
          /\ ret' = "SUCCESS" /\ dm' = "can_put"
          /\ UNCHANGED <<res, call, run, exec, dirty>>
----------------------------------------------------------------------------
Next ==
  \/ SQLPrepare \/ SQLExecute \/ SQLExecDirect \/ BatchStep
  \/ \E i \in 1..NumParams, b \in Bindings : SQLBindParameter(i, b) \/ WriteIndicators(i, b)
  \/ \E n \in ArraySizes : SetParamsetSize(n)
  \/ \E b \in BOOLEAN : SetStatusPtr(b)
  \/ ResetParameters \/ CloseStmt \/ SQLCancel
  \/ SQLFetch \/ SQLMoreResults
  \/ SQLParamData \/ \E len \in AllPieces : SQLPutData(len)

Spec == Init /\ [][Next]_vars

\* The driver finishes the call it is in, and the application goes on with a
\* dialog: it asks again as long as it is asked for data, which it has.
FairSpec ==
  /\ Spec
  /\ WF_vars(BatchStep) /\ WF_vars(SQLParamData)
  /\ WF_vars(\E len \in AllPieces : SQLPutData(len))
----------------------------------------------------------------------------
(***************************************************************************)
(* Properties.                                                             *)
(***************************************************************************)
RecordSet ==
  [type : Types, data : {"null", "app", "pool", "freed"},
   ind_ptr : BOOLEAN, ind : [Sets -> Int], value : [Sets -> Nat]]

DescriptorSet ==
  [records : Seq(RecordSet), count : Nat, array_size : ArraySizes \cup {1},
   status_ptr : BOOLEAN, processed : Nat,
   paramset_idx : Nat, cur_paramset_idx : Nat, cur_param_idx : Nat,
   pool : BOOLEAN, values : Seq(Nat)]

\* Type invariant of the descriptor, the handle and the histories.
ParamTypeOK ==
  /\ pd \in DescriptorSet
  /\ res \in {"none", "ok", "error"}
  /\ dm \in {"allocated", "prepared", "need_data", "must_put", "can_put", "executed"}
  /\ call \in {"idle", "batch", "undefined"}
  /\ ret \in ReturnCodes
  /\ run \in Nat /\ dirty \in BOOLEAN
  /\ exec \in Seq([set : Nat, vals : Seq(Nat)])

\* No execution and no SQLPutData reads or writes past the application's
\* parameter arrays, through a null indicator, or into a buffer that is not or no
\* longer of the pool (parameter_descriptor.cpp keeps raw pointers to all of them).
ParamsNeverUndefined == call # "undefined"

\* The sets of a run are executed from the first on, each one once, whichever of
\* SQLExecute, SQLFetch and SQLMoreResults executes them and whatever failed before.
SetsInOrder == \A k \in 1..Len(exec) : exec[k].set = k - 1

\* A statement is executed with the values the application supplied for this
\* run, never with those of an earlier one.
OwnValues ==
  \A k \in 1..Len(exec) : \A i \in 1..Len(exec[k].vals) : exec[k].vals[i] = run

\* When an execution succeeds without a dialog, every set was executed, and the
\* application's count of processed sets says so.
WholeBatchStep ==
  call = "batch" /\ call' = "idle" /\ ret' = "SUCCESS" =>
    Len(exec') = pd.array_size /\ pd'.processed = pd.array_size
WholeBatch == [][WholeBatchStep]_vars

\* Once SQLParamData stops asking for data, no parameter of any set lacks it.
Missing(p) ==
  {x \in (DOMAIN p.records) \X (0 .. p.array_size - 1) :
     p.records[x[1]].ind[x[2]] \in AtExecIndicators}
DataCompleteStep == InDialog /\ dm' = "executed" => Missing(pd) = {}
DataComplete == [][DataCompleteStep]_vars

\* The loop reads only sets the application has: the assertion at the start of
\* GetParamValues, on which the end of the loop rests.  It holds for an application that
\* cleans up between its runs (README section 4).
WithinSets == call = "batch" => ~PastArrays(pd)

\* The loop over the parameter sets ends.
BatchTerminates == call = "batch" ~> call # "batch"

\* A data-at-execution dialog ends with the execution the application asked for:
\* the driver does not ask forever.
DialogEnds == InDialog ~> ~InDialog
============================================================================
