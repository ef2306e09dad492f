------------------------- MODULE ParamDialogProofs -------------------------
(***************************************************************************)
(* What a careful application may rely on, with and without data at        *)
(* execution: nothing undefined happens, and the statement is executed     *)
(* with the values supplied for this run.                                  *)
(***************************************************************************)
EXTENDS ParamExecProofs

\* The application sends data at execution.
AtExec == Bindings \cap {"at_exec", "fixed_at_exec"} # {}

\* An application that binds every parameter, to types the driver knows, and cleans the
\* statement before it runs it again.  It gives each a buffer and an indicator, which is a
\* length, SQL_NULL_DATA or SQL_DATA_AT_EXEC: a null pointer makes the driver execute a
\* NULL, SQL_NTS is overwritten, and SQL_LEN_DATA_AT_EXEC is never asked for.  One that
\* sends data at execution drops the records when it cleans the statement, since they keep
\* pointers into the freed pool; it sends every value up to the column size and none as
\* SQL_NULL_DATA; it has no status array, which SQLPutData writes past; and it has one
\* parameter or one set, since the pool holds the buffers of one parameter's array only.
Careful ==
  /\ Bindings \subseteq {"plain", "null", "at_exec", "fixed_at_exec"} /\ Cleans # {}
  /\ "binds_all" \in Habits
  /\ Query \/ "more_results" \in Calls => "changes_closed" \in Habits
  /\ AtExec => /\ Cleans = {"reset_params"} /\ "whole_values" \in Habits
               /\ "status_ptr" \notin Calls
               /\ SQL_NULL_DATA \notin Pieces["char"]
               /\ ArraySizes = {1} \/ NumParams = 1

\* Every element of the application's indicator array is the same, and asks for data only
\* if the application sends some.
Uniform(r) ==
  \E c \in {ColumnSize, SQL_NULL_DATA, SQL_DATA_AT_EXEC} :
    (AtExec \/ c # SQL_DATA_AT_EXEC) /\ \A s \in Sets : r.ind[s] = c

\* A record: it has both pointers or none, only a string moves to the pool, and until then
\* its indicators are the application's and no length of an earlier run is left.
Kept(r) ==
  /\ r.ind_ptr <=> r.data # "null"
  /\ \A s \in Sets : r.ind[s] >= SQL_DATA_AT_EXEC
  /\ r.data = "app" => \A s \in Sets : r.value[s] = 0
  /\ r.type # "unsupported" /\ (r.type = "char" \/ "fixed_at_exec" \in Bindings)
  /\ r.type = "fixed" => r.data = "app"
  /\ r.data \in {"pool", "freed"} => AtExec
  /\ r.data = "app" /\ r.type = "char" => Uniform(r)

\* Every parameter has a buffer that was not freed.
Supplied(p) ==
  /\ Len(p.records) = NumParams
  /\ \A i \in 1 .. NumParams : p.records[i].ind_ptr /\ p.records[i].data # "freed"

\* Nothing of an earlier dialog is left.
Fresh(p) ==
  /\ \A i \in DOMAIN p.records : p.records[i].data \in {"null", "app"}
  /\ ~p.pool /\ p.cur_paramset_idx = 0

\* The pool buffer of record r holds this run's values for the first n sets.
Filled(r, n) == \A t \in Sets : t < n => r.value[t] = run

\* The dialog has come to parameter i, and to one of its sets: those before hold their
\* values, the others ask for them.
Filling(p, i) ==
  /\ p.cur_param_idx = i - 1 /\ i <= p.count
  /\ Filled(p.records[i], p.cur_paramset_idx)
  /\ \A t \in Sets : t >= p.cur_paramset_idx => p.records[i].ind[t] = SQL_DATA_AT_EXEC

\* The buffers of the pool in the dialog: a value is asked for before it is put, and the
\* one array of several sets is allocated with its first value.
DialogOK(p) ==
  /\ AtExec /\ p.cur_paramset_idx < p.array_size
  /\ NumParams = 1 => p.records[1].data = "pool" \/ (~p.pool /\ p.cur_paramset_idx = 0)
  /\ \A i \in 1 .. NumParams :
       p.records[i].data = "pool" => Filled(p.records[i], p.array_size) \/ Filling(p, i)
AskedFor(p) ==
  p.cur_param_idx < p.count =>
    p.records[p.cur_param_idx + 1].ind[p.cur_paramset_idx] = SQL_DATA_AT_EXEC

CareInv ==
  /\ call # "undefined"
  /\ \A i \in DOMAIN pd.records : Kept(pd.records[i])
  /\ MayExecute => Supplied(pd)
  /\ AtExec /\ (~dirty \/ call = "batch") => Fresh(pd)
  /\ call = "batch" => pd.paramset_idx < pd.array_size
  /\ InDialog => DialogOK(pd)
  /\ dm = "must_put" => AskedFor(pd)
  /\ MoreToCome => \A i \in 1 .. NumParams :
                     pd.records[i].data = "pool" => Filled(pd.records[i], pd.array_size)
  /\ OwnValues

\* There is no status array in a dialog.
NoStatusArray == AtExec => ~pd.status_ptr

USE ParamsAssumption, ParamSetsAssumption, ParamCallsAssumption, PiecesAssumption
    DEF SQL_NULL_DATA, SQL_DATA_AT_EXEC
----------------------------------------------------------------------------
(***************************************************************************)
(* Reading a set.                                                          *)
(***************************************************************************)
\* A record with a buffer gives a value or asks for it.
LEMMA SuppliedCode ==
  ASSUME NEW r, RecOK(r), NEW s \in Sets, Kept(r), r.ind_ptr, r.data # "freed"
  PROVE  /\ SetValueCode(r, s) \in {"SUCCESS", "NEED_DATA"} /\ ~ReadsStray(r, s)
         /\ SetValueCode(r, s) = "NEED_DATA" <=> r.ind[s] = SQL_DATA_AT_EXEC
         /\ (r.data = "pool" => r.value[s] = run) => ValueRead(r, s) = run
<1> DEFINE x == r.ind[s]
<1>1. /\ x \in Int /\ x >= -2 /\ r.data \in {"app", "pool"} /\ r.ind_ptr = TRUE
      /\ r.type # "unsupported"
  BY DEF RecOK, RecordSet, Kept
<1>2. x \in AtExecIndicators <=> x = -2
  BY <1>1 DEF AtExecIndicators, SQL_LEN_DATA_AT_EXEC
<1>3. SetValueCode(r, s) = "NEED_DATA" <=> x = -2
  BY <1>1, <1>2, CodeOK
<1>4. ReadAsNull(r, s) <=> x = -1
  BY <1>1 DEF ReadAsNull
<1>5. SetValueCode(r, s) \in {"SUCCESS", "NEED_DATA"}
  <2>1. CASE x = -1
    BY <1>1, <1>4, <2>1 DEF SetValueCode
  <2>2. CASE x # -1
    BY <1>1, <1>4, <2>2 DEF SetValueCode
  <2> QED
    BY <2>1, <2>2
<1>6. ~ReadsStray(r, s)
  BY <1>1 DEF ReadsStray, SQL_NTS
<1>7. ASSUME r.data = "pool" => r.value[s] = run PROVE ValueRead(r, s) = run
  <2>1. r.data = "app" => r.value[s] = 0
    BY DEF Kept
  <2> QED
    BY <1>1, <1>4, <1>7, <2>1 DEF ValueRead
<1> QED
  BY <1>3, <1>5, <1>6, <1>7 DEF x

\* A set whose parameters all have their buffers is read without a stray access; it
\* gives this run's values, or some parameter asks for data.
LEMMA ReadsSet ==
  ASSUME NEW p, PDOK(p), run \in Nat, Supplied(p), \A i \in DOMAIN p.records : Kept(p.records[i]),
         p.paramset_idx < p.array_size,
         \A i \in 1 .. NumParams : p.records[i].data = "pool" => p.records[i].value[p.paramset_idx] = run
  PROVE  LET g == GetParamValues(p)
         IN  /\ g.ok /\ g.ret # "ERROR" /\ p.records # << >>
             /\ g.ret = "NEED_DATA" => \E i \in 1 .. NumParams :
                                         p.records[i].ind[p.paramset_idx] = SQL_DATA_AT_EXEC
             /\ \A i \in 1 .. Len(g.vals) : g.vals[i] = run
<1> DEFINE s == p.paramset_idx
           stop == Ends(p, s)
           n == First(stop, Len(p.records))
           v == ReadValues(p, s, n)
           recs == [i \in DOMAIN p.records |-> IF i < n THEN ReadRecord(p.records[i], s) ELSE p.records[i]]
           read == [p EXCEPT !.values = v, !.records = recs]
           next == SetParamIndex(read)
           g == GetParamValues(p)
<1>1. p \in DescriptorSet /\ s \in Nat /\ p.array_size \in ArraySizes \cup {1} /\ Len(p.records) \in Nat
      /\ DOMAIN p.records = 1 .. Len(p.records) /\ p.array_size \in Nat /\ p.records \in Seq(RecordSet)
  BY PDFields
<1>2. s \in Sets /\ Len(p.records) = NumParams /\ DOMAIN p.records = 1 .. NumParams
  BY <1>1, SetsOK DEF Supplied
<1>3. p.records # << >>
  BY <1>2
<1>4. g = IF p.records = << >> THEN [p |-> p, ret |-> "SUCCESS", vals |-> << >>, ok |-> TRUE]
          ELSE IF s >= p.array_size \/ ~CanRead(p, s, n)
                 THEN [p |-> p, ret |-> "ERROR", vals |-> << >>, ok |-> FALSE]
          ELSE IF stop # {}
                 THEN [p |-> read, ret |-> SetValueCode(p.records[n], s), vals |-> << >>, ok |-> TRUE]
          ELSE [p |-> next.p, ret |-> next.ret, vals |-> SubSeq(read.values, 1, n - 1), ok |-> TRUE]
  BY DEF GetParamValues, First
<1>5. ASSUME NEW i \in 1 .. NumParams
      PROVE  /\ SetValueCode(p.records[i], s) \in {"SUCCESS", "NEED_DATA"} /\ ~ReadsStray(p.records[i], s)
             /\ SetValueCode(p.records[i], s) = "NEED_DATA" <=> p.records[i].ind[s] = SQL_DATA_AT_EXEC
             /\ ValueRead(p.records[i], s) = run
  <2>1. RecOK(p.records[i]) /\ p.records[i].ind_ptr /\ Kept(p.records[i])
        /\ p.records[i].data # "freed"
    BY <1>2 DEF PDOK, Supplied
  <2> QED
    BY <1>2, <2>1, SuppliedCode
<1>6. stop \subseteq 1 .. Len(p.records)
  BY <1>1 DEF Ends
<1>7. /\ n \in 1 .. NumParams + 1 /\ (stop # {} => n \in stop) /\ (stop = {} => n = NumParams + 1)
  BY <1>1, <1>2, <1>6, FirstOK
<1>8. CanRead(p, s, n)
  <2>1. \A i \in 1 .. n - 1 : i \in 1 .. NumParams
    BY <1>7
  <2> HIDE DEF n
  <2> QED
    BY <1>5, <2>1 DEF CanRead
<1>9. ~(s >= p.array_size)
  BY <1>1
<1> HIDE DEF g
<1>10. CASE stop # {}
  <2>1. g.ok /\ g.ret = SetValueCode(p.records[n], s) /\ g.vals = << >>
    BY <1>3, <1>4, <1>8, <1>9, <1>10
  <2>2. n \in 1 .. NumParams /\ n \in stop
    BY <1>2, <1>6, <1>7, <1>10
  <2>3. SetValueCode(p.records[n], s) = "NEED_DATA"
    BY <1>5, <2>2 DEF Ends
  <2>4. g.ret = "NEED_DATA" /\ p.records[n].ind[s] = SQL_DATA_AT_EXEC
    BY <1>5, <2>1, <2>2, <2>3
  <2> HIDE DEF n
  <2> QED
    BY <1>3, <2>1, <2>2, <2>4 DEF g
<1>11. CASE stop = {}
  <2>1. n = NumParams + 1
    BY <1>7, <1>11
  <2>2. /\ v \in Seq(Nat) /\ n - 1 <= Len(v)
        /\ \A i \in 1 .. n - 1 :
             v[i] = IF SetValueCode(p.records[i], s) = "SUCCESS"
                      THEN ValueRead(p.records[i], s) ELSE p.values[i]
    BY <1>2, <1>8, ReadValuesOK
  <2> HIDE DEF n, v
  <2>3. ASSUME NEW i \in 1 .. NumParams PROVE v[i] = run
    <3>1. i \notin stop /\ i \in DOMAIN p.records
      BY <1>2, <1>11
    <3>2. SetValueCode(p.records[i], s) = "SUCCESS"
      BY <1>5, <3>1 DEF Ends
    <3>3. v[i] = ValueRead(p.records[i], s)
      BY <2>1, <2>2, <3>2
    <3> QED
      BY <1>5, <3>3
  <2>4. read.values = v
    <3> HIDE DEF recs
    <3> QED
      BY <1>1 DEF DescriptorSet
  <2>5. g.ok /\ g.ret = next.ret /\ g.vals = SubSeq(v, 1, NumParams)
    BY <1>3, <1>4, <1>8, <1>9, <1>11, <2>1, <2>4
  <2>6. next.ret \in {"SUCCESS", "STILL_EXECUTING"}
    BY DEF SetParamIndex
  <2>7. Len(v) \in Nat /\ NumParams <= Len(v)
    BY <2>1, <2>2
  <2>8. Len(SubSeq(v, 1, NumParams)) = NumParams /\ \A i \in 1 .. NumParams : SubSeq(v, 1, NumParams)[i] = v[i]
    BY <2>2, <2>7, SubSeqProperties
  <2> HIDE DEF next
  <2> QED
    BY <1>3, <2>3, <2>5, <2>6, <2>8 DEF g
<1> QED
  BY <1>10, <1>11

\* Whoever executes the next set of the run finds it supplied.
LEMMA NextSetSupplied ==
  ASSUME ParamInv, CareInv, call = "batch" \/ MoreToCome, pd.paramset_idx < pd.array_size
  PROVE  LET g == GetParamValues(pd)
         IN  /\ g.ok /\ g.ret # "ERROR" /\ pd.records # << >>
             /\ g.ret = "NEED_DATA" => \E i \in 1 .. NumParams :
                                         pd.records[i].ind[pd.paramset_idx] = SQL_DATA_AT_EXEC
             /\ \A i \in 1 .. Len(g.vals) : g.vals[i] = run
<1>1. PDOK(pd) /\ run \in Nat /\ Supplied(pd) /\ \A i \in DOMAIN pd.records : Kept(pd.records[i])
  BY DEF ParamInv, HandleOK, CareInv, MayExecute
<1>2. /\ pd.paramset_idx \in Nat /\ pd.array_size \in ArraySizes \cup {1}
      /\ DOMAIN pd.records = 1 .. NumParams
  BY <1>1, PDFields DEF Supplied
<1>3. pd.paramset_idx \in Sets
  BY <1>2, SetsOK
<1>4. ASSUME NEW i \in 1 .. NumParams, pd.records[i].data = "pool"
      PROVE  pd.records[i].value[pd.paramset_idx] = run
  <2>1. AtExec
    BY <1>1, <1>2, <1>4 DEF Kept
  <2>2. call # "batch"
    BY <1>2, <1>4, <2>1 DEF CareInv, Fresh
  <2>3. Filled(pd.records[i], pd.array_size)
    BY <1>4, <2>2 DEF CareInv
  <2> QED
    BY <1>3, <2>3 DEF Filled
<1> QED
  BY <1>1, <1>4, ReadsSet

\* Executing it leaves the records and the dialog, and adds this run's values.
LEMMA ExecutesOwnValues ==
  ASSUME ParamInv, CareInv, call = "batch" \/ MoreToCome, pd.paramset_idx < pd.array_size,
         NEW r, SingleExecuteStmt(r)
  PROVE  /\ pd'.records = pd.records /\ pd'.array_size = pd.array_size /\ pd'.pool = pd.pool
         /\ pd'.cur_paramset_idx = pd.cur_paramset_idx /\ pd'.cur_param_idx = pd.cur_param_idx
         /\ pd'.count = pd.count
         /\ OwnValues' /\ UNCHANGED <<run, dirty>>
         /\ r = "NEED_DATA" => \E i \in 1 .. NumParams :
                                 pd.records[i].ind[pd.paramset_idx] = SQL_DATA_AT_EXEC
         /\ r = "STILL_EXECUTING" => pd'.paramset_idx < pd'.array_size
<1> DEFINE g == GetParamValues(pd)
           E == [set : Nat, vals : Seq(Nat)]
           x == [set |-> pd.paramset_idx, vals |-> g.vals]
<1>1. PDOK(pd) /\ run \in Nat /\ exec \in Seq(E)
  BY DEF ParamInv, HandleOK
<1>2. /\ g.ok /\ g.ret # "ERROR" /\ pd.records # << >>
      /\ g.ret = "NEED_DATA" => \E i \in 1 .. NumParams :
                                  pd.records[i].ind[pd.paramset_idx] = SQL_DATA_AT_EXEC
      /\ \A i \in 1 .. Len(g.vals) : g.vals[i] = run
  BY NextSetSupplied
<1>3. Outcome(pd, g)
  BY <1>1, GetParamValuesOK
<1>4. /\ pd' = g.p
      /\ \/ g.ret \in {"NEED_DATA", "ERROR"} /\ r = g.ret /\ exec' = exec
         \/ /\ g.ret \notin {"NEED_DATA", "ERROR"} /\ exec' = Append(exec, x)
            /\ r \in {g.ret, "ERROR"}
      /\ UNCHANGED <<run, dirty>>
  <2>1. Outcomes(pd) = {g}
    <3>1. pd.paramset_idx \in Nat /\ pd.array_size \in Nat
      BY <1>1, PDFields
    <3>2. ~PastArrays(pd)
      BY <3>1 DEF PastArrays
    <3> QED
      BY <3>2 DEF Outcomes
  <2> HIDE DEF g
  <2> QED
    BY <2>1 DEF SingleExecuteStmt
<1>5. x.vals = g.vals /\ x \in E
  BY <1>1, <1>3, PDFields DEF Outcome
<1> HIDE DEF g, x
<1>6. /\ pd'.records = pd.records /\ pd'.array_size = pd.array_size /\ pd'.pool = pd.pool
      /\ pd'.cur_paramset_idx = pd.cur_paramset_idx /\ pd'.cur_param_idx = pd.cur_param_idx
      /\ pd'.count = pd.count
      /\ SetStays(pd, g) \/ SetRead(pd, g)
  <2>1. /\ PDOK(g.p) /\ Reread(pd, g.p) /\ SameDialog(pd, g.p)
        /\ SetStays(pd, g) \/ SetRead(pd, g)
    BY <1>2, <1>3 DEF Outcome
  <2>2. /\ pd.paramset_idx \in Sets /\ pd.records \in Seq(RecordSet) /\ g.p.records \in Seq(RecordSet)
        /\ Len(g.p.records) = Len(pd.records)
    BY <1>1, <2>1, PDFields, SetsOK DEF Reread
  <2>3. ASSUME NEW i \in DOMAIN pd.records PROVE g.p.records[i] = pd.records[i]
    <3>1. RecOK(pd.records[i]) /\ Kept(pd.records[i])
      BY <1>1 DEF PDOK, CareInv
    <3>2. pd.records[i].ind[pd.paramset_idx] # SQL_NTS
      BY <2>2, <3>1 DEF Kept, SQL_NTS, RecOK, RecordSet
    <3> QED
      BY <1>1, <2>1, <2>2, <3>1, <3>2, ReadRecordOK DEF Reread
  <2>4. g.p.records = pd.records
    BY <2>2, <2>3
  <2> QED
    BY <1>4, <2>1, <2>4 DEF SameDialog
<1>7. OwnValues'
  <2>1. OwnValues /\ run' = run
    BY <1>4 DEF CareInv
  <2>2. CASE exec' = exec
    BY <2>1, <2>2 DEF OwnValues
  <2>3. CASE exec' = Append(exec, x)
    <3>1. /\ Len(exec) \in Nat /\ Len(exec') = Len(exec) + 1 /\ exec'[Len(exec) + 1] = x
          /\ \A k \in 1 .. Len(exec) : exec'[k] = exec[k]
      BY <1>1, <1>5, <2>3
    <3>2. ASSUME NEW k \in 1 .. Len(exec'), NEW i \in 1 .. Len(exec'[k].vals)
          PROVE  exec'[k].vals[i] = run
      <4>1. CASE k = Len(exec) + 1
        BY <1>2, <1>5, <3>1, <4>1
      <4>2. CASE k \in 1 .. Len(exec)
        BY <2>1, <3>1, <4>2 DEF OwnValues
      <4> QED
        BY <3>1, <4>1, <4>2
    <3> QED
      BY <2>1, <3>2 DEF OwnValues
  <2> QED
    BY <1>4, <2>2, <2>3
<1>8. r = "NEED_DATA" => g.ret = "NEED_DATA"
  BY <1>4
<1>9. ASSUME r = "STILL_EXECUTING" PROVE pd'.paramset_idx < pd'.array_size
  <2>1. g.ret = "STILL_EXECUTING"
    BY <1>4, <1>9
  <2>2. pd.paramset_idx + 1 # pd.array_size /\ pd'.paramset_idx = pd.paramset_idx + 1
    BY <1>4, <1>6, <2>1 DEF SetStays, SetRead
  <2>3. pd.paramset_idx \in Nat /\ pd.array_size \in Nat
    BY <1>1, PDFields
  <2> QED
    BY <1>6, <2>2, <2>3
<1> QED
  BY <1>2, <1>4, <1>6, <1>7, <1>8, <1>9
----------------------------------------------------------------------------
(***************************************************************************)
(* The records.                                                            *)
(***************************************************************************)
\* A record nobody bound is kept.
LEMMA NoRecordKept == Kept(NoRecord) /\ NoRecord.data = "null"
<1>1. /\ NoRecord.type = "char" /\ NoRecord.data = "null" /\ ~NoRecord.ind_ptr
      /\ \A s \in Sets : NoRecord.ind[s] = 0
  BY DEF NoRecord
<1> QED
  BY <1>1 DEF Kept

\* The indicators of an application that is careful are uniform, and so are the
\* records it binds.
LEMMA BoundKept ==
  ASSUME Careful, NEW b \in Bindings
  PROVE  /\ \E c \in {ColumnSize, SQL_NULL_DATA, SQL_DATA_AT_EXEC} :
              (AtExec \/ c # SQL_DATA_AT_EXEC) /\ \A s \in Sets : Indicators(b)[s] = c
         /\ Kept(Bound(b)) /\ Bound(b).data = "app" /\ Bound(b).ind_ptr
<1>1. b \in AllBindings /\ (b \in {"at_exec", "fixed_at_exec"} => AtExec)
  BY DEF Careful, AtExec
<1>2. b \in {"plain", "null", "at_exec", "fixed_at_exec"}
  BY DEF Careful
<1>3. \E c \in {ColumnSize, SQL_NULL_DATA, SQL_DATA_AT_EXEC} :
        (AtExec \/ c # SQL_DATA_AT_EXEC) /\ \A s \in Sets : Indicators(b)[s] = c
  <2>1. CASE b = "plain"
    BY <2>1 DEF Indicators
  <2>2. CASE b = "null"
    BY <2>2 DEF Indicators
  <2>3. CASE b \in {"at_exec", "fixed_at_exec"}
    BY <1>1, <2>3 DEF Indicators
  <2> QED
    BY <1>2, <2>1, <2>2, <2>3
<1>4. NoRecord \in RecordSet
  BY NoRecordOK DEF RecOK
<1>5. /\ Bound(b).data = "app" /\ Bound(b).ind_ptr /\ Bound(b).ind = Indicators(b)
      /\ \A s \in Sets : Bound(b).value[s] = 0
  <2>1. /\ Bound(b).ind_ptr = (b # "no_indicator") /\ Bound(b).ind = Indicators(b)
        /\ Bound(b).data = (IF b = "null_token" THEN "null" ELSE "app")
        /\ Bound(b).value = [s \in Sets |-> 0]
    BY <1>1, BoundOK
  <2>2. b # "no_indicator" /\ b # "null_token"
    BY <1>2
  <2>3. Bound(b).ind_ptr
    BY <2>1, <2>2, Zenon
  <2> QED
    BY <2>1, <2>2, <2>3
<1>6. Bound(b).type = IF b = "fixed_at_exec" THEN "fixed" ELSE "char"
  BY <1>2, <1>4 DEF Bound, RecordSet
<1>7. Uniform(Bound(b)) /\ \A s \in Sets : Bound(b).ind[s] >= -2
  BY <1>3, <1>5 DEF Uniform
<1> QED
  BY <1>1, <1>3, <1>5, <1>6, <1>7 DEF Kept

\* Freeing the pool and adding records keeps them.
LEMMA FreedKept ==
  ASSUME NEW p, PDOK(p), \A i \in DOMAIN p.records : Kept(p.records[i])
  PROVE  LET q == FreePool(p)
         IN  /\ \A i \in DOMAIN q.records : Kept(q.records[i])
             /\ Fresh(p) => Fresh(q)
<1> DEFINE q == FreePool(p)
<1>1. /\ PDOK(q) /\ Len(q.records) = Len(p.records) /\ q.pool = FALSE
      /\ q.cur_paramset_idx = p.cur_paramset_idx
      /\ \A i \in DOMAIN p.records :
           /\ q.records[i].type = p.records[i].type /\ q.records[i].ind_ptr = p.records[i].ind_ptr
           /\ q.records[i].ind = p.records[i].ind /\ q.records[i].value = p.records[i].value
           /\ q.records[i].data = (IF p.records[i].data = "pool" THEN "freed" ELSE p.records[i].data)
  BY ZenonT(40), FreePoolOK
<1> HIDE DEF q
<1>2. DOMAIN q.records = DOMAIN p.records
  BY <1>1, PDFields
<1>3. ASSUME NEW i \in DOMAIN p.records PROVE Kept(q.records[i])
  BY <1>1 DEF Kept, Uniform
<1>4. ASSUME Fresh(p) PROVE Fresh(q)
  BY <1>1, <1>2, <1>4 DEF Fresh
<1> QED
  BY <1>2, <1>3, <1>4 DEF q

\* So does resizing.
LEMMA ResizedKept ==
  ASSUME NEW recs \in Seq(RecordSet), \A i \in DOMAIN recs : RecOK(recs[i]) /\ Kept(recs[i]), NEW n \in Nat
  PROVE  LET q == Resized(recs, n)
         IN  /\ \A i \in DOMAIN q : Kept(q[i])
             /\ (\A i \in DOMAIN recs : recs[i].data \in {"null", "app"}) =>
                  \A i \in DOMAIN q : q[i].data \in {"null", "app"}
<1> DEFINE q == Resized(recs, n)
<1>1. /\ DOMAIN q = 1 .. n
      /\ \A i \in 1 .. n : q[i] = IF i <= Len(recs) THEN recs[i] ELSE NoRecord
  BY ResizedOK
<1>2. Len(recs) \in Nat /\ DOMAIN recs = 1 .. Len(recs)
  OBVIOUS
<1> HIDE DEF q
<1>3. \A i \in DOMAIN q : \/ i \in DOMAIN recs /\ q[i] = recs[i]
                          \/ q[i] = NoRecord
  BY <1>1, <1>2
<1> QED
  BY <1>3, NoRecordKept DEF q

\* ResetParams keeps the records, and nothing of an earlier dialog comes back.
LEMMA ResetParamsKept ==
  ASSUME NEW p, PDOK(p), \A i \in DOMAIN p.records : Kept(p.records[i])
  PROVE  LET q == ResetParams(p)
         IN  (\A i \in DOMAIN q.records : Kept(q.records[i])) /\ (Fresh(p) => Fresh(q))
<1> DEFINE f == FreePool(p)
           q == ResetParams(p)
<1>1. PDOK(f) /\ f.pool = FALSE /\ f.cur_paramset_idx = p.cur_paramset_idx
  BY FreePoolOK
<1>2. /\ \A i \in DOMAIN f.records : Kept(f.records[i])
      /\ Fresh(p) => Fresh(f)
  BY FreedKept
<1>3. /\ q.records = Resized(f.records, NumParams) /\ q.pool = FALSE
      /\ q.cur_paramset_idx = p.cur_paramset_idx
  BY ResetParamsOK
<1> HIDE DEF f, q
<1>4. f.records \in Seq(RecordSet) /\ \A i \in DOMAIN f.records : RecOK(f.records[i])
  BY <1>1, PDFields DEF PDOK
<1>5. /\ \A i \in DOMAIN q.records : Kept(q.records[i])
      /\ (\A i \in DOMAIN f.records : f.records[i].data \in {"null", "app"}) =>
           \A i \in DOMAIN q.records : q.records[i].data \in {"null", "app"}
  BY <1>2, <1>3, <1>4, ResizedKept
<1>6. ASSUME Fresh(p) PROVE Fresh(q)
  BY <1>1, <1>2, <1>3, <1>5, <1>6 DEF Fresh
<1> QED
  BY <1>5, <1>6 DEF q

\* Binding keeps the records, and does not touch those of an open cursor that are in
\* the pool but to take them out of it.
LEMMA BindKept ==
  ASSUME Careful, PDOK(pd), \A j \in DOMAIN pd.records : Kept(pd.records[j]),
         NEW i \in 1 .. NumParams, NEW b \in Bindings, SQLBindParameter(i, b)
  PROVE  /\ \A j \in DOMAIN pd'.records : Kept(pd'.records[j])
         /\ Fresh(pd) => Fresh(pd')
         /\ Supplied(pd) => /\ Supplied(pd')
                            /\ \A j \in 1 .. NumParams :
                                 pd'.records[j] = pd.records[j] \/ pd'.records[j].data = "app"
<1> DEFINE p == GetDescRecord(pd, i)
<1>1. /\ PDOK(pd') /\ SamePlace(pd, pd')
      /\ i \in DOMAIN p.records /\ (pd'.records = p.records \/ pd'.records = [p.records EXCEPT ![i] = Bound(b)])
  BY BindOK
<1>2. /\ PDOK(p) /\ i <= Len(p.records)
      /\ p = pd \/ (Len(pd.records) < i /\ p.records = Resized(pd.records, i))
  BY GetDescRecordOK
<1>3. Kept(Bound(b)) /\ Bound(b).data = "app" /\ Bound(b).ind_ptr
  BY BoundKept
<1>4. /\ \A j \in DOMAIN p.records : Kept(p.records[j])
      /\ (\A j \in DOMAIN pd.records : pd.records[j].data \in {"null", "app"}) =>
           \A j \in DOMAIN p.records : p.records[j].data \in {"null", "app"}
  <2>1. CASE p = pd
    BY <2>1
  <2>2. CASE p.records = Resized(pd.records, i)
    <3>1. pd.records \in Seq(RecordSet) /\ \A j \in DOMAIN pd.records : RecOK(pd.records[j])
      BY PDFields DEF PDOK
    <3> QED
      BY <2>2, <3>1, ResizedKept
  <2> QED
    BY <1>2, <2>1, <2>2
<1> HIDE DEF p
<1>5. p.records \in Seq(RecordSet) /\ DOMAIN p.records = 1 .. Len(p.records) /\ Len(p.records) \in Nat
  BY <1>2, PDFields
<1>6. /\ DOMAIN pd'.records = DOMAIN p.records /\ Len(pd'.records) = Len(p.records)
      /\ \A j \in DOMAIN p.records : pd'.records[j] \in {p.records[j], Bound(b)}
  <2>1. CASE pd'.records = p.records
    BY <2>1
  <2>2. CASE pd'.records = [p.records EXCEPT ![i] = Bound(b)]
    BY <1>5, <2>2
  <2> QED
    BY <1>1, <2>1, <2>2
<1>7. \A j \in DOMAIN pd'.records : Kept(pd'.records[j])
  BY <1>3, <1>4, <1>6
<1>8. ASSUME Fresh(pd) PROVE Fresh(pd')
  BY <1>1, <1>3, <1>4, <1>6, <1>8 DEF Fresh, SamePlace
<1>9. ASSUME Supplied(pd)
      PROVE  /\ Supplied(pd')
             /\ \A j \in 1 .. NumParams : pd'.records[j] = pd.records[j] \/ pd'.records[j].data = "app"
  <2>1. p = pd
    BY <1>2, <1>9 DEF Supplied
  <2>2. Len(pd'.records) = NumParams /\ DOMAIN p.records = 1 .. NumParams
    BY <1>5, <1>6, <1>9, <2>1 DEF Supplied
  <2> QED
    BY <1>3, <1>6, <1>9, <2>1, <2>2 DEF Supplied
<1> QED
  BY <1>7, <1>8, <1>9

\* Writing the indicators anew keeps the records where they are.
LEMMA WriteKept ==
  ASSUME Careful, PDOK(pd), \A j \in DOMAIN pd.records : Kept(pd.records[j]),
         NEW i \in 1 .. NumParams, NEW b \in Bindings, WriteIndicators(i, b)
  PROVE  /\ \A j \in DOMAIN pd'.records : Kept(pd'.records[j])
         /\ Fresh(pd) => Fresh(pd')
         /\ Supplied(pd) => /\ Supplied(pd')
                            /\ \A j \in 1 .. NumParams :
                                 /\ pd'.records[j].data = pd.records[j].data
                                 /\ pd.records[j].data = "pool" => pd'.records[j].value = pd.records[j].value
<1>0. PICK v \in [Sets -> Nat] :
        /\ pd'.records = [pd.records EXCEPT ![i] = [pd.records[i] EXCEPT !.ind = Indicators(b), !.value = v]]
        /\ v = IF pd.records[i].data = "app" THEN [s \in Sets |-> 0] ELSE pd.records[i].value
  BY WriteIndicatorsOK
<1> DEFINE new == [pd.records[i] EXCEPT !.ind = Indicators(b), !.value = v]
<1>1. /\ PDOK(pd') /\ SamePlace(pd, pd') /\ i \in DOMAIN pd.records /\ pd.records[i].ind_ptr
      /\ pd'.records = [pd.records EXCEPT ![i] = new]
  BY <1>0, WriteIndicatorsOK
<1>2. pd.records \in Seq(RecordSet) /\ pd.records[i] \in RecordSet
  BY <1>1, PDFields
<1>3. \E c \in {ColumnSize, SQL_NULL_DATA, SQL_DATA_AT_EXEC} :
        (AtExec \/ c # SQL_DATA_AT_EXEC) /\ \A s \in Sets : Indicators(b)[s] = c
  BY BoundKept
<1>4. /\ new.type = pd.records[i].type /\ new.data = pd.records[i].data /\ new.ind_ptr
      /\ new.ind = Indicators(b) /\ new.value = v
  BY <1>1, <1>2 DEF RecordSet
<1> HIDE DEF new
<1>5. Kept(pd.records[i]) /\ (pd.records[i].data = "app" => \A s \in Sets : v[s] = 0)
  BY <1>0, <1>1
<1>6. Kept(new)
  <2>1. \A s \in Sets : new.ind[s] >= -2
    BY <1>3, <1>4
  <2> QED
    BY <1>1, <1>3, <1>4, <1>5, <2>1 DEF Kept, Uniform
<1>7. /\ DOMAIN pd'.records = DOMAIN pd.records /\ Len(pd'.records) = Len(pd.records)
      /\ pd'.records[i] = new /\ \A j \in DOMAIN pd.records : j # i => pd'.records[j] = pd.records[j]
  BY <1>1, <1>2
<1>8. \A j \in DOMAIN pd'.records : Kept(pd'.records[j])
  BY <1>6, <1>7
<1>9. ASSUME Fresh(pd) PROVE Fresh(pd')
  BY <1>1, <1>4, <1>7, <1>9 DEF Fresh, SamePlace
<1>10. ASSUME Supplied(pd)
       PROVE  /\ Supplied(pd')
              /\ \A j \in 1 .. NumParams :
                   /\ pd'.records[j].data = pd.records[j].data
                   /\ pd.records[j].data = "pool" => pd'.records[j].value = pd.records[j].value
  <2>1. Len(pd'.records) = NumParams /\ DOMAIN pd.records = 1 .. NumParams
    BY <1>2, <1>7, <1>10 DEF Supplied
  <2> QED
    BY <1>0, <1>4, <1>7, <1>10, <2>1 DEF Supplied
<1> QED
  BY <1>8, <1>9, <1>10
----------------------------------------------------------------------------
(***************************************************************************)
(* A piece of data.                                                        *)
(***************************************************************************)
\* What PutData does to the record the dialog has come to: a fixed-length value stays
\* in the application's buffer; a piece of the only set moves to the pool; and so does
\* the value of a set, after which the dialog goes on to the next one.
PutFixed(p, q, len) ==
  LET i == p.cur_param_idx + 1
  IN  /\ p.records[i].type = "fixed" /\ q.records[i].type = "fixed"
      /\ q.records[i].data \in {p.records[i].data, "app"} /\ q.records[i].value = p.records[i].value
      /\ q.pool = p.pool /\ q.cur_paramset_idx = p.cur_paramset_idx /\ q.cur_param_idx = i
      /\ q.records[i].ind = IF len = SQL_NULL_DATA THEN [p.records[i].ind EXCEPT ![0] = SQL_NULL_DATA]
                                                   ELSE p.records[i].ind
PutPiece(p, q, len) ==
  LET i      == p.cur_param_idx + 1
      offset == IF p.records[i].ind[0] = SQL_DATA_AT_EXEC THEN 0 ELSE p.records[i].ind[0]
      full   == len >= ColumnSize - offset
  IN  /\ p.records[i].type # "fixed" /\ p.array_size = 1
      /\ q.records[i].type = p.records[i].type /\ q.records[i].data = "pool"
      /\ q.records[i].value = [p.records[i].value EXCEPT ![0] = run]
      /\ q.records[i].ind = [p.records[i].ind EXCEPT ![0] = IF full THEN ColumnSize ELSE offset + len]
      /\ q.cur_paramset_idx = p.cur_paramset_idx
      /\ q.cur_param_idx = IF full THEN i ELSE p.cur_param_idx
PutSet(p, q, len) ==
  LET i == p.cur_param_idx + 1
      s == p.cur_paramset_idx
      last == s + 1 >= p.array_size
  IN  /\ p.records[i].type # "fixed" /\ p.array_size # 1
      /\ q.records[i].type = p.records[i].type /\ q.records[i].data = "pool"
      /\ q.records[i].value = [p.records[i].value EXCEPT ![s] = run]
      /\ q.records[i].ind = [p.records[i].ind EXCEPT ![s] = IF len >= ColumnSize THEN ColumnSize ELSE len]
      /\ q.cur_paramset_idx = IF last THEN 0 ELSE s + 1
      /\ q.cur_param_idx = IF last THEN i ELSE p.cur_param_idx

\* PutData is one of the three, and leaves the other records.
LEMMA PutDataIs ==
  ASSUME NEW p, PDOK(p), run \in Nat, NEW len \in (Nat \ {0}) \cup {SQL_NULL_DATA},
         p.cur_param_idx < p.count, CanPut(p, len)
  PROVE  LET q == PutData(p, len)
             i == p.cur_param_idx + 1
         IN  /\ PDOK(q) /\ q.paramset_idx = p.paramset_idx /\ q.array_size = p.array_size
             /\ q.count = p.count /\ i \in DOMAIN p.records /\ q.status_ptr = p.status_ptr
             /\ DOMAIN q.records = DOMAIN p.records /\ Len(q.records) = Len(p.records)
             /\ \A j \in DOMAIN p.records : j # i => q.records[j] = p.records[j]
             /\ q.records[i].ind_ptr /\ p.records[i].ind_ptr
             /\ PutFixed(p, q, len) \/ PutPiece(p, q, len) \/ PutSet(p, q, len)
<1> DEFINE i == p.cur_param_idx + 1
           s == p.cur_paramset_idx
           r == p.records[i]
           q == PutData(p, len)
<1>1. PutStep(p, q)
  BY PutDataOK
<1>2. /\ p \in DescriptorSet /\ p.cur_param_idx \in Nat /\ p.count \in Nat /\ s \in Nat /\ s \in Sets
      /\ p.array_size \in Nat \ {0} /\ p.records \in Seq(RecordSet) /\ p.pool \in BOOLEAN
  BY PDFields DEF PDOK
<1>3. i \in DOMAIN p.records /\ r.ind_ptr
  BY <1>1 DEF PutStep
<1>4. r \in RecordSet /\ 0 \in Sets
  BY <1>2, <1>3, SetsOK
<1>5. r.ind \in [Sets -> Int] /\ r.value \in [Sets -> Nat] /\ r.ind_ptr = TRUE
  BY <1>3, <1>4 DEF RecordSet
<1> HIDE DEF q
<1>6. /\ PDOK(q) /\ q.paramset_idx = p.paramset_idx /\ q.array_size = p.array_size /\ q.count = p.count
      /\ q.status_ptr = p.status_ptr
      /\ DOMAIN q.records = DOMAIN p.records /\ Len(q.records) = Len(p.records)
      /\ \A j \in DOMAIN p.records : j # i => q.records[j] = p.records[j]
  <2>1. PICK new \in RecordSet : q.records = [p.records EXCEPT ![i] = new]
    BY <1>1 DEF PutStep
  <2> QED
    BY <1>1, <1>2, <1>3, <2>1 DEF PutStep
<1> HIDE DEF i, s
<1>7. CASE r.type = "fixed" /\ len = SQL_NULL_DATA
  <2> DEFINE new == [r EXCEPT !.ind = [r.ind EXCEPT ![0] = -1]]
  <2>1. q = [p EXCEPT !.cur_param_idx = @ + 1, !.records[i].ind[0] = -1]
    BY <1>2, <1>7 DEF q, i, PutData
  <2>2. [p EXCEPT !.cur_param_idx = @ + 1, !.records[i].ind[0] = -1]
        = [p EXCEPT !.cur_param_idx = i, !.records = [p.records EXCEPT ![i] = new]]
    BY <1>2, <1>3, <1>4, <1>5 DEF DescriptorSet, RecordSet, i
  <2>3. new.type = r.type /\ new.data = r.data /\ new.ind_ptr /\ new.ind = [r.ind EXCEPT ![0] = -1]
        /\ new.value = r.value
    BY <1>4, <1>5 DEF RecordSet
  <2> HIDE DEF new
  <2>4. q.records[i] = new /\ q.cur_param_idx = i /\ q.pool = p.pool /\ q.cur_paramset_idx = s
    <3>1. q = [p EXCEPT !.cur_param_idx = i, !.records = [p.records EXCEPT ![i] = new]]
      BY <2>1, <2>2
    <3> HIDE DEF r
    <3> QED
      BY <1>2, <1>3, <3>1 DEF DescriptorSet, s
  <2>5. PutFixed(p, q, len)
    BY <1>7, <2>3, <2>4 DEF PutFixed, i, s
  <2> QED
    BY <1>3, <1>6, <2>3, <2>4, <2>5 DEF i, q
<1>8. CASE r.type = "fixed" /\ len # SQL_NULL_DATA
  <2> DEFINE new == [r EXCEPT !.data = "app"]
  <2>1. q = [p EXCEPT !.cur_param_idx = @ + 1, !.records[i].data = "app"]
    BY <1>2, <1>8 DEF q, i, PutData
  <2>2. [p EXCEPT !.cur_param_idx = @ + 1, !.records[i].data = "app"]
        = [p EXCEPT !.cur_param_idx = i, !.records = [p.records EXCEPT ![i] = new]]
    BY <1>2, <1>3, <1>4, <1>5 DEF DescriptorSet, RecordSet, i
  <2>3. new.type = r.type /\ new.data = "app" /\ new.ind_ptr /\ new.ind = r.ind
        /\ new.value = r.value
    BY <1>4, <1>5 DEF RecordSet
  <2> HIDE DEF new
  <2>4. q.records[i] = new /\ q.cur_param_idx = i /\ q.pool = p.pool /\ q.cur_paramset_idx = s
    <3>1. q = [p EXCEPT !.cur_param_idx = i, !.records = [p.records EXCEPT ![i] = new]]
      BY <2>1, <2>2
    <3> HIDE DEF r
    <3> QED
      BY <1>2, <1>3, <3>1 DEF DescriptorSet, s
  <2>5. PutFixed(p, q, len)
    BY <1>8, <2>3, <2>4 DEF PutFixed, i, s
  <2> QED
    BY <1>3, <1>6, <2>3, <2>4, <2>5 DEF i, q
<1>9. CASE r.type # "fixed" /\ p.array_size = 1
  <2> DEFINE offset == IF r.ind[0] = -2 THEN 0 ELSE r.ind[0]
             full == len >= ColumnSize - offset
             x == IF full THEN ColumnSize ELSE offset + len
             k == IF full THEN p.cur_param_idx + 1 ELSE p.cur_param_idx
             new == [r EXCEPT !.data = "pool", !.ind[0] = x, !.value[0] = run]
  <2>1. q = [p EXCEPT !.pool = TRUE, !.records[i] = new, !.cur_param_idx = k]
    BY <1>2, <1>9 DEF q, i, PutData, FillParamCharDataBuffer
  <2>2. /\ new.type = r.type /\ new.data = "pool" /\ new.ind_ptr
        /\ new.ind = [r.ind EXCEPT ![0] = x] /\ new.value = [r.value EXCEPT ![0] = run]
    <3> HIDE DEF x
    <3> QED
      BY <1>4, <1>5 DEF RecordSet
  <2> HIDE DEF new
  <2>3. q.records[i] = new /\ q.cur_param_idx = k /\ q.cur_paramset_idx = s
    <3> HIDE DEF k
    <3> QED
      BY <1>2, <1>3, <2>1 DEF DescriptorSet, s
  <2>4. PutPiece(p, q, len)
    BY <1>9, <2>2, <2>3 DEF PutPiece, i, s
  <2> QED
    BY <1>3, <1>6, <2>2, <2>3, <2>4 DEF i, q
<1>10. CASE r.type # "fixed" /\ p.array_size # 1
  <2> DEFINE last == s + 1 >= p.array_size
             x == IF len >= ColumnSize THEN ColumnSize ELSE len
             k == IF last THEN p.cur_param_idx + 1 ELSE p.cur_param_idx
             c == IF last THEN 0 ELSE s + 1
             new == [r EXCEPT !.data = "pool", !.ind[s] = x, !.value[s] = run]
  <2>1. q = [p EXCEPT !.pool = TRUE, !.records[i] = new, !.cur_paramset_idx = c, !.cur_param_idx = k]
    BY <1>2, <1>3, <1>10 DEF q, i, s, PutData, FillCurParamCharSet
  <2>2. /\ new.type = r.type /\ new.data = "pool" /\ new.ind_ptr
        /\ new.ind = [r.ind EXCEPT ![s] = x] /\ new.value = [r.value EXCEPT ![s] = run]
    <3> HIDE DEF x
    <3> QED
      BY <1>2, <1>4, <1>5 DEF RecordSet
  <2> HIDE DEF new
  <2>3. q.records[i] = new /\ q.cur_param_idx = k /\ q.cur_paramset_idx = c
    <3> HIDE DEF k, c
    <3> QED
      BY <1>2, <1>3, <2>1 DEF DescriptorSet
  <2>4. PutSet(p, q, len)
    BY <1>10, <2>2, <2>3 DEF PutSet, i, s
  <2> QED
    BY <1>3, <1>6, <2>2, <2>3, <2>4 DEF i, q
<1> QED
  BY <1>7, <1>8, <1>9, <1>10

\* A string that is not in the pool yet has been asked for, in all its sets; in an array
\* the dialog is at the first one and the pool is empty.
LEMMA AskedBefore ==
  ASSUME Careful, ParamInv, CareInv, NEW len \in AllPieces, SQLPutData(len),
         pd.cur_param_idx < pd.count, pd.records[pd.cur_param_idx + 1].type = "char",
         pd.records[pd.cur_param_idx + 1].data # "pool"
  PROVE  /\ \A t \in Sets : pd.records[pd.cur_param_idx + 1].ind[t] = SQL_DATA_AT_EXEC
         /\ pd.array_size # 1 => pd.cur_paramset_idx = 0 /\ ~pd.pool
<1> DEFINE i == pd.cur_param_idx + 1
           s == pd.cur_paramset_idx
           r == pd.records[i]
<1>1. /\ PDOK(pd) /\ InDialog /\ Supplied(pd) /\ DialogOK(pd) /\ dm \in {"must_put", "can_put"}
      /\ \A j \in DOMAIN pd.records : Kept(pd.records[j])
  BY DEF ParamInv, CareInv, SQLPutData, InDialog, MayExecute
<1>2. /\ pd.cur_param_idx \in Nat /\ pd.count \in Nat /\ DOMAIN pd.records = 1 .. Len(pd.records)
      /\ Len(pd.records) = NumParams /\ pd.count <= NumParams /\ s \in Sets
      /\ pd.array_size \in ArraySizes \cup {1}
  BY <1>1, PDFields DEF PDOK, Supplied
<1>3. i \in 1 .. NumParams /\ i \in DOMAIN pd.records
  BY <1>2
<1>4. RecOK(r) /\ r.ind_ptr /\ r.data # "freed" /\ Kept(r)
  BY <1>1, <1>3 DEF PDOK, Supplied
<1>5. r.data = "app"
  BY <1>4 DEF RecOK, RecordSet, Kept
<1>6. Uniform(r)
  BY <1>4, <1>5 DEF Kept
<1>7. PICK c \in {ColumnSize, SQL_NULL_DATA, SQL_DATA_AT_EXEC} : \A t \in Sets : r.ind[t] = c
  BY <1>6 DEF Uniform
<1>8. r.ind[s] = c
  BY <1>2, <1>7
<1>9. c = SQL_DATA_AT_EXEC
  <2>1. CASE dm = "must_put"
    BY <1>8, <2>1 DEF CareInv, AskedFor
  <2>2. CASE dm = "can_put"
    <3>1. MidValue
      BY <1>1, <2>2 DEF SQLPutData, Careful, DialogOK
    <3>2. r.ind[s] \in 0 .. ColumnSize - 1
      BY <3>1 DEF MidValue
    <3> QED
      BY <1>7, <1>8, <3>2
  <2> QED
    BY <1>1, <2>1, <2>2
<1>10. ASSUME pd.array_size # 1 PROVE s = 0 /\ ~pd.pool
  <2>1. NumParams = 1
    BY <1>1, <1>2, <1>10 DEF Careful, DialogOK
  <2>2. i = 1
    BY <1>3, <2>1
  <2> QED
    BY <1>1, <2>1, <2>2 DEF DialogOK
<1> QED
  BY <1>7, <1>9, <1>10

\* A piece finds its buffer.
LEMMA PutDefined ==
  ASSUME Careful, ParamInv, CareInv, NoStatusArray, NEW len \in AllPieces, SQLPutData(len),
         pd.cur_param_idx < pd.count
  PROVE  CanPut(pd, len)
<1> DEFINE i == pd.cur_param_idx + 1
           s == pd.cur_paramset_idx
           r == pd.records[i]
<1>1. /\ PDOK(pd) /\ InDialog /\ Supplied(pd) /\ AtExec /\ ~pd.status_ptr /\ s < pd.array_size
      /\ \A j \in DOMAIN pd.records : Kept(pd.records[j])
  BY DEF ParamInv, CareInv, SQLPutData, InDialog, MayExecute, DialogOK, NoStatusArray
<1>2. /\ pd.cur_param_idx \in Nat /\ pd.count \in Nat /\ DOMAIN pd.records = 1 .. Len(pd.records)
      /\ Len(pd.records) = NumParams /\ pd.count <= NumParams /\ s \in Sets /\ s \in Nat
      /\ pd.array_size \in Nat
  BY <1>1, PDFields DEF PDOK, Supplied
<1>3. i \in DOMAIN pd.records /\ i \in 1 .. NumParams
  BY <1>2
<1>4. RecOK(r) /\ Kept(r) /\ r.ind_ptr
  BY <1>1, <1>3 DEF PDOK, Supplied
<1>5. r.type = "fixed" \/ r.type = "char"
  BY <1>4 DEF RecOK, RecordSet, Types, Kept
<1> HIDE DEF r
<1>6. CASE r.type = "fixed"
  BY <1>4, <1>6 DEF CanPut, r
<1>7. CASE r.type = "char"
  <2>1. len \in Pieces["char"]
    BY <1>7 DEF SQLPutData, Sends, r
  <2>2. len # SQL_NULL_DATA
    BY <1>1, <2>1 DEF Careful
  <2>3. r.ind[s] = SQL_DATA_AT_EXEC \/ r.ind[s] \in 0 .. ColumnSize - 1
    <3>1. CASE dm = "must_put"
      BY <3>1 DEF CareInv, AskedFor, r
    <3>2. CASE dm = "can_put"
      BY <1>1, <3>2 DEF SQLPutData, Careful, MidValue, r
    <3> QED
      BY <3>1, <3>2 DEF SQLPutData
  <2>4. r.data # "pool" =>
          /\ \A t \in Sets : r.ind[t] = SQL_DATA_AT_EXEC
          /\ pd.array_size # 1 => ~pd.pool
    BY <1>7, AskedBefore DEF r
  <2>5. CASE pd.array_size = 1
    <3>1. s = 0
      BY <1>1, <1>2, <2>5
    <3>2. r.ind[0] = SQL_DATA_AT_EXEC \/ (r.data = "pool" /\ r.ind[0] >= 0)
      BY <1>2, <2>3, <2>4, <3>1
    <3> QED
      BY <1>1, <1>4, <1>7, <2>2, <2>5, <3>2 DEF CanPut, r
  <2>6. CASE pd.array_size # 1
    BY <1>1, <1>2, <1>4, <1>7, <2>2, <2>4, <2>6 DEF CanPut, r
  <2> QED
    BY <2>5, <2>6
<1> QED
  BY <1>5, <1>6, <1>7

\* After it, the buffers are as the dialog expects them.
LEMMA PutKeepsDialog ==
  ASSUME Careful, ParamInv, CareInv, NoStatusArray, NEW len \in AllPieces, SQLPutData(len),
         pd.cur_param_idx < pd.count,
         NEW q, q = PutData(pd, len)
  PROVE  (\A j \in DOMAIN q.records : Kept(q.records[j])) /\ Supplied(q) /\ DialogOK(q)
<1> DEFINE i == pd.cur_param_idx + 1
           s == pd.cur_paramset_idx
           r == pd.records[i]
           new == q.records[i]
<1>1. /\ PDOK(pd) /\ run \in Nat /\ Supplied(pd) /\ DialogOK(pd) /\ AtExec
      /\ \A j \in DOMAIN pd.records : Kept(pd.records[j])
  BY DEF ParamInv, HandleOK, CareInv, SQLPutData, InDialog, MayExecute, DialogOK
<1>2. /\ pd.cur_param_idx \in Nat /\ DOMAIN pd.records = 1 .. NumParams /\ s \in Sets /\ s \in Nat
      /\ pd.array_size \in Nat \ {0} /\ pd.records \in Seq(RecordSet) /\ pd.count \in Nat
      /\ 0 \in Sets /\ Sets \subseteq Nat
  BY <1>1, PDFields, SetsOK DEF PDOK, Supplied
<1>3. CanPut(pd, len) /\ len \in (Nat \ {0}) \cup {SQL_NULL_DATA}
  BY PutDefined DEF AllPieces
<1>4. /\ PDOK(q) /\ q.array_size = pd.array_size /\ q.count = pd.count /\ i \in DOMAIN pd.records
      /\ DOMAIN q.records = DOMAIN pd.records /\ Len(q.records) = Len(pd.records)
      /\ \A j \in DOMAIN pd.records : j # i => q.records[j] = pd.records[j]
      /\ new.ind_ptr /\ r.ind_ptr
      /\ PutFixed(pd, q, len) \/ PutPiece(pd, q, len) \/ PutSet(pd, q, len)
  BY <1>1, <1>3, PutDataIs
<1>5. Kept(r) /\ r \in RecordSet /\ r.type \in {"fixed", "char"}
  <2>1. r \in RecordSet
    BY <1>2, <1>4
  <2> QED
    BY <1>1, <1>4, <2>1 DEF Kept, RecordSet, Types
<1>6. r.value \in [Sets -> Nat] /\ r.ind \in [Sets -> Int]
  BY <1>5 DEF RecordSet
<1> HIDE DEF r, new
<1>7. new.type = r.type /\ new.data \in {"app", "pool"} /\ (r.type = "fixed" => new.data = "app")
      /\ (r.type = "char" => new.data = "pool")
  BY <1>4, <1>5 DEF Kept, PutFixed, PutPiece, PutSet, r, new
<1>8. Kept(new)
  <2>1. \A t \in Sets : new.ind[t] >= -2
    <3>1. \A t \in Sets : r.ind[t] >= -2
      BY <1>5 DEF Kept
    <3>2. CASE PutFixed(pd, q, len)
      <4>1. new.ind = IF len = -1 THEN [r.ind EXCEPT ![0] = -1] ELSE r.ind
        BY <3>2 DEF PutFixed, r, new
      <4> QED
        BY <1>6, <3>1, <4>1
    <3>3. CASE PutPiece(pd, q, len)
      <4> DEFINE offset == IF r.ind[0] = -2 THEN 0 ELSE r.ind[0]
                 x == IF len >= ColumnSize - offset THEN ColumnSize ELSE offset + len
      <4>1. new.ind = [r.ind EXCEPT ![0] = x]
        BY <3>3 DEF PutPiece, r, new
      <4>2. r.ind[0] \in Int /\ r.ind[0] >= -2
        BY <1>2, <1>6, <3>1
      <4>3. x >= -2
        BY <1>3, <4>2
      <4> HIDE DEF x
      <4> QED
        BY <1>6, <3>1, <4>1, <4>3
    <3>4. CASE PutSet(pd, q, len)
      <4> DEFINE x == IF len >= ColumnSize THEN ColumnSize ELSE len
      <4>1. new.ind = [r.ind EXCEPT ![s] = x]
        BY <3>4 DEF PutSet, r, new
      <4>2. x >= -2
        BY <1>3
      <4> HIDE DEF x
      <4> QED
        BY <1>6, <3>1, <4>1, <4>2
    <3> QED
      BY <1>4, <3>2, <3>3, <3>4
  <2>2. ASSUME new.data = "app" PROVE \A t \in Sets : new.value[t] = 0
    <3>1. PutFixed(pd, q, len) /\ r.type = "fixed"
      BY <1>4, <1>5, <1>7, <2>2 DEF PutPiece, PutSet, new
    <3>2. new.value = r.value /\ r.data = "app"
      BY <1>5, <3>1 DEF PutFixed, Kept, r, new
    <3> QED
      BY <1>5, <3>2 DEF Kept
  <2>3. new.ind_ptr /\ new.data # "null"
    BY <1>4, <1>7
  <2> QED
    BY <1>1, <1>5, <1>7, <2>1, <2>2, <2>3 DEF Kept
<1>9. \A j \in DOMAIN q.records : Kept(q.records[j])
  BY <1>1, <1>4, <1>8 DEF new
<1>10. Supplied(q)
  BY <1>1, <1>2, <1>4, <1>7 DEF Supplied, new
<1>11. ASSUME NumParams = 1 PROVE q.records[1].data = "pool" \/ (~q.pool /\ q.cur_paramset_idx = 0)
  <2>1. i = 1
    BY <1>2, <1>4, <1>11
  <2>2. CASE r.type = "char"
    BY <1>7, <2>1, <2>2 DEF new
  <2>3. CASE r.type = "fixed"
    <3>1. q.pool = pd.pool /\ q.cur_paramset_idx = s
      BY <1>4, <2>3 DEF PutFixed, PutPiece, PutSet, r
    <3>2. pd.records[1].data # "pool"
      BY <1>5, <2>1, <2>3 DEF Kept, r
    <3> QED
      BY <1>1, <1>11, <3>1, <3>2 DEF DialogOK
  <2> QED
    BY <1>5, <2>2, <2>3
<1>12. ASSUME NEW j \in 1 .. NumParams, q.records[j].data = "pool"
       PROVE  Filled(q.records[j], q.array_size) \/ Filling(q, j)
  <2>1. CASE j # i
    <3>1. q.records[j] = pd.records[j]
      BY <1>2, <1>4, <2>1
    <3>2. ~Filling(pd, j)
      BY <1>2, <2>1 DEF Filling
    <3>3. Filled(pd.records[j], pd.array_size)
      BY <1>1, <1>12, <3>1, <3>2 DEF DialogOK
    <3> QED
      BY <1>4, <3>1, <3>3
  <2>2. CASE j = i /\ PutPiece(pd, q, len)
    <3>1. pd.array_size = 1 /\ new.value = [r.value EXCEPT ![0] = run]
      BY <2>2 DEF PutPiece, new, r
    <3>2. \A t \in Sets : t < 1 => new.value[t] = run
      BY <1>2, <1>6, <3>1
    <3> QED
      BY <1>4, <2>2, <3>1, <3>2 DEF Filled, new
  <2>3. CASE j = i /\ PutSet(pd, q, len)
    <3> DEFINE last == s + 1 >= pd.array_size
    <3>1. /\ r.type # "fixed" /\ pd.array_size # 1
          /\ new.value = [r.value EXCEPT ![s] = run]
          /\ q.cur_paramset_idx = IF last THEN 0 ELSE s + 1
          /\ q.cur_param_idx = IF last THEN i ELSE pd.cur_param_idx
      BY <2>3 DEF PutSet, new, r
    <3>2. new.ind = [r.ind EXCEPT ![s] = IF len >= ColumnSize THEN ColumnSize ELSE len]
      BY <2>3 DEF PutSet, new, r
    <3>3. \/ Filled(r, pd.array_size)
          \/ Filled(r, s) /\ \A t \in Sets : t >= s => r.ind[t] = SQL_DATA_AT_EXEC
      <4>1. CASE r.data = "pool"
        <5>1. Filled(r, pd.array_size) \/ Filling(pd, i)
          BY <1>1, <1>2, <1>4, <4>1 DEF DialogOK, r
        <5> QED
          BY <5>1 DEF Filling, r
      <4>2. CASE r.data # "pool"
        <5>1. (\A t \in Sets : r.ind[t] = SQL_DATA_AT_EXEC) /\ s = 0
          BY <1>5, <3>1, <4>2, AskedBefore DEF r
        <5>2. Filled(r, s)
          BY <1>2, <5>1 DEF Filled
        <5> QED
          BY <5>1, <5>2
      <4> QED
        BY <4>1, <4>2
    <3>4. \A t \in Sets : new.value[t] = run \/ new.value[t] = r.value[t]
      BY <1>6, <3>1
    <3>5. new.value[s] = run
      BY <1>2, <1>6, <3>1
    <3>6. CASE Filled(r, pd.array_size)
      <4>1. Filled(new, pd.array_size)
        BY <3>4, <3>6 DEF Filled
      <4> QED
        BY <1>4, <2>3, <4>1 DEF new
    <3>7. CASE Filled(r, s) /\ (\A t \in Sets : t >= s => r.ind[t] = SQL_DATA_AT_EXEC)
      <4>1. Filled(new, s + 1)
        <5>1. ASSUME NEW t \in Sets, t < s + 1 PROVE new.value[t] = run
          <6>1. t = s \/ t < s
            BY <1>2, <5>1
          <6> QED
            BY <3>4, <3>5, <3>7, <6>1 DEF Filled
        <5> QED
          BY <5>1 DEF Filled
      <4>2. CASE last
        <5>1. Filled(new, pd.array_size)
          BY <1>2, <4>1, <4>2 DEF Filled
        <5> QED
          BY <1>4, <2>3, <5>1 DEF new
      <4>3. CASE ~last
        <5>1. q.cur_paramset_idx = s + 1 /\ q.cur_param_idx = i - 1 /\ i <= q.count
          BY <1>2, <1>4, <3>1, <4>3
        <5>2. ASSUME NEW t \in Sets, t >= s + 1 PROVE new.ind[t] = SQL_DATA_AT_EXEC
          <6>1. t # s /\ t >= s
            BY <1>2, <5>2
          <6> QED
            BY <1>6, <3>2, <3>7, <6>1
        <5> QED
          BY <2>3, <4>1, <5>1, <5>2 DEF Filling, new
      <4> QED
        BY <4>2, <4>3
    <3> QED
      BY <3>3, <3>6, <3>7
  <2>4. CASE j = i /\ PutFixed(pd, q, len)
    <3>1. r.type = "fixed"
      BY <2>4 DEF PutFixed, r
    <3> QED
      BY <1>7, <1>12, <2>4, <3>1 DEF new
  <2> QED
    BY <1>4, <2>1, <2>2, <2>3, <2>4
<1>13. q.cur_paramset_idx < q.array_size
  <2>1. s < pd.array_size
    BY <1>1 DEF DialogOK
  <2>2. CASE PutSet(pd, q, len)
    <3>1. q.cur_paramset_idx = IF s + 1 >= pd.array_size THEN 0 ELSE s + 1
      BY <2>2 DEF PutSet
    <3> QED
      BY <1>2, <1>4, <3>1
  <2>3. CASE PutFixed(pd, q, len) \/ PutPiece(pd, q, len)
    BY <1>4, <2>1, <2>3 DEF PutFixed, PutPiece
  <2> QED
    BY <1>4, <2>2, <2>3
<1> QED
  BY <1>1, <1>9, <1>10, <1>11, <1>12, <1>13 DEF DialogOK
----------------------------------------------------------------------------
(***************************************************************************)
(* The invariant.                                                          *)
(***************************************************************************)
\* A new handle has no records, and has executed nothing.
LEMMA CareInitOK == Init => CareInv
<1> SUFFICES ASSUME Init PROVE CareInv
  OBVIOUS
<1>1. /\ pd.records = << >> /\ pd.pool = FALSE /\ pd.cur_paramset_idx = 0
      /\ call = "idle" /\ dm = "allocated" /\ exec = << >>
  BY DEF Init, NewDescriptor
<1>2. DOMAIN << >> = {} /\ Len(<< >>) = 0
  OBVIOUS
<1>3. Fresh(pd) /\ OwnValues
  BY <1>1, <1>2 DEF Fresh, OwnValues
<1>4. ~MayExecute /\ ~InDialog /\ ~MoreToCome
  BY <1>1 DEF MayExecute, InDialog, MoreToCome
<1> QED
  BY <1>1, <1>2, <1>3, <1>4 DEF CareInv

\* A handle that executes nothing needs its records kept, and to be fresh if it is clean.
LEMMA IdleCare ==
  ASSUME call' = "idle", ~InDialog', ~MoreToCome', OwnValues',
         \A i \in DOMAIN pd'.records : Kept(pd'.records[i]),
         AtExec /\ ~dirty' => Fresh(pd)'
  PROVE  CareInv'
<1>1. ~MayExecute' /\ dm' # "must_put"
  BY DEF MayExecute, InDialog
<1>2. (\A i \in DOMAIN pd.records : Kept(pd.records[i]))'
  BY DEF Kept, Uniform
<1> QED
  BY <1>1, <1>2 DEF CareInv

\* The start of a run.
LEMMA StartCare ==
  ASSUME Careful, ParamInv, OrderInv, CareInv, NEW p, StartRun(p), ~InDialog', ~MoreToCome',
         PDOK(p), \A i \in DOMAIN p.records : Kept(p.records[i]), Fresh(pd) => Fresh(p),
         p.paramset_idx = pd.paramset_idx
  PROVE  CareInv'
<1>1. /\ ~dirty /\ pd' = p /\ call' = "batch" /\ exec' = << >>
      /\ Len(p.records) = NumParams
      /\ \A i \in 1 .. NumParams : p.records[i].data # "null" \/ p.records[i].ind_ptr
  <2>1. dirty \in BOOLEAN
    BY DEF ParamInv, HandleOK
  <2> QED
    BY <2>1 DEF StartRun, Careful
<1>2. AtExec => Fresh(p)
  BY <1>1 DEF CareInv
<1>3. p.array_size \in Nat \ {0} /\ DOMAIN p.records = 1 .. Len(p.records)
  BY PDFields
<1>4. p.paramset_idx < p.array_size
  BY <1>1, <1>3 DEF OrderInv
<1>5. ASSUME NEW i \in 1 .. NumParams PROVE p.records[i].data # "freed" /\ p.records[i].ind_ptr
  <2>1. i \in DOMAIN p.records
    BY <1>1, <1>3
  <2>2. Kept(p.records[i])
    BY <2>1
  <2> QED
    BY <1>1, <1>2, <2>1, <2>2 DEF Kept, Fresh
<1>6. Supplied(p)
  BY <1>1, <1>5 DEF Supplied
<1>7. OwnValues'
  <2>1. Len(<< >>) = 0
    OBVIOUS
  <2> QED
    BY <1>1, <2>1 DEF OwnValues
<1>8. (\A i \in DOMAIN pd.records : Kept(pd.records[i]))' /\ Supplied(pd)' /\ (AtExec => Fresh(pd)')
  BY <1>1, <1>2, <1>6 DEF Kept, Uniform, Supplied, Fresh
<1>9. dm' # "must_put"
  BY DEF InDialog
<1> QED
  BY <1>1, <1>4, <1>7, <1>8, <1>9 DEF CareInv

\* A change that is the application's own.
LEMMA ConfigureCare ==
  ASSUME CareInv, UNCHANGED <<res, dm, call, ret, run, exec, dirty>>, call = "idle", ~InDialog,
         \A j \in DOMAIN pd'.records : Kept(pd'.records[j]), Fresh(pd) => Fresh(pd)',
         MoreToCome => /\ Supplied(pd)'
                       /\ pd'.array_size = pd.array_size
                       /\ \A j \in 1 .. NumParams :
                            pd'.records[j].data = "pool" => /\ pd.records[j].data = "pool"
                                                            /\ pd'.records[j].value = pd.records[j].value
  PROVE  CareInv'
<1>1. /\ ~InDialog' /\ (MoreToCome' <=> MoreToCome) /\ dm' # "must_put" /\ call' = "idle"
      /\ MayExecute' <=> MoreToCome
  BY DEF InDialog, MoreToCome, MayExecute
<1>2. OwnValues'
  BY DEF CareInv, OwnValues
<1>3. (\A i \in DOMAIN pd.records : Kept(pd.records[i]))'
  BY DEF Kept, Uniform
<1>4. ASSUME MoreToCome, NEW j \in 1 .. NumParams, pd'.records[j].data = "pool"
      PROVE  \A t \in Sets : t < pd'.array_size => pd'.records[j].value[t] = run'
  BY <1>4 DEF CareInv, Filled
<1>5. AtExec /\ ~dirty' => Fresh(pd)'
  BY DEF CareInv
<1> QED
  BY <1>1, <1>2, <1>3, <1>4, <1>5 DEF CareInv, Filled

\* Executing a set leaves what the invariant says of the descriptor.
SameBuffers(p, q) ==
  /\ q.records = p.records /\ q.array_size = p.array_size /\ q.pool = p.pool /\ q.count = p.count
  /\ q.cur_paramset_idx = p.cur_paramset_idx /\ q.cur_param_idx = p.cur_param_idx

\* The next set is executed: by the loop, which goes on or ends, or for an open cursor.
LEMMA ExecuteCare ==
  ASSUME Careful, ParamInv, CareInv, call = "batch" \/ MoreToCome, pd.paramset_idx < pd.array_size,
         NEW r, SingleExecuteStmt(r),
         \/ LoopGoesOn /\ call = "batch" /\ r = "STILL_EXECUTING"
         \/ DialogOpens /\ call = "batch" /\ r = "NEED_DATA"
         \/ LoopEnds(r) /\ call = "batch" /\ r \in {"SUCCESS", "ERROR"}
         \/ UNCHANGED <<call, dm>> /\ call = "idle"
  PROVE  CareInv'
<1>1. /\ SameBuffers(pd, pd') /\ OwnValues' /\ UNCHANGED <<run, dirty>>
      /\ r = "NEED_DATA" => \E i \in 1 .. NumParams :
                              pd.records[i].ind[pd.paramset_idx] = SQL_DATA_AT_EXEC
      /\ r = "STILL_EXECUTING" => pd'.paramset_idx < pd'.array_size
  BY ExecutesOwnValues DEF SameBuffers
<1>2. /\ PDOK(pd) /\ Supplied(pd) /\ \A i \in DOMAIN pd.records : Kept(pd.records[i])
  BY DEF ParamInv, CareInv, MayExecute
<1>3. /\ Supplied(pd)' /\ (\A i \in DOMAIN pd.records : Kept(pd.records[i]))'
      /\ Fresh(pd) => Fresh(pd)'
  BY <1>1, <1>2 DEF SameBuffers, Supplied, Kept, Uniform, Fresh
<1>4. /\ DialogOK(pd) => DialogOK(pd)'
      /\ AskedFor(pd) => AskedFor(pd)'
      /\ \A i \in 1 .. NumParams : Filled(pd.records[i], pd.array_size) => Filled(pd.records[i], pd.array_size)'
  BY <1>1 DEF SameBuffers, DialogOK, AskedFor, Filled, Filling
<1>5. ASSUME call = "batch", NEW i \in 1 .. NumParams PROVE pd.records[i].data = "app"
  <2>1. i \in DOMAIN pd.records
    BY <1>2, PDFields DEF Supplied
  <2>2. Kept(pd.records[i]) /\ RecOK(pd.records[i]) /\ pd.records[i].ind_ptr
    BY <1>2, <2>1 DEF PDOK, Supplied
  <2>3. pd.records[i].data \in {"null", "app"}
    BY <1>2, <1>5, <2>1, <2>2 DEF CareInv, Fresh, Kept, Supplied, RecOK, RecordSet
  <2> QED
    BY <2>2, <2>3 DEF Kept
<1>6. CASE UNCHANGED <<call, dm>>
  <2>1. (MayExecute' <=> MayExecute) /\ (InDialog' <=> InDialog) /\ (MoreToCome' <=> MoreToCome)
    BY <1>6 DEF MayExecute, InDialog, MoreToCome
  <2>2. call = "batch" => r = "STILL_EXECUTING"
    BY <1>6 DEF LoopEnds, DialogOpens
  <2>3. ASSUME MoreToCome, NEW i \in 1 .. NumParams, pd'.records[i].data = "pool"
        PROVE  Filled(pd.records[i], pd.array_size)'
    BY <1>1, <1>4, <2>3 DEF CareInv, SameBuffers
  <2> QED
    BY <1>1, <1>3, <1>4, <1>6, <2>1, <2>2, <2>3 DEF CareInv
<1>7. CASE LoopEnds(r) /\ call = "batch"
  <2>1. call' = "idle" /\ ~InDialog' /\ dm' # "must_put"
    BY <1>7 DEF LoopEnds, InDialog
  <2>2. \A i \in 1 .. NumParams : pd'.records[i].data # "pool"
    BY <1>1, <1>5, <1>7 DEF SameBuffers
  <2>3. AtExec => Fresh(pd)'
    BY <1>3, <1>7 DEF CareInv
  <2> QED
    BY <1>1, <1>3, <2>1, <2>2, <2>3 DEF CareInv
<1>8. CASE DialogOpens /\ call = "batch" /\ r = "NEED_DATA"
  <2>1. call' = "idle" /\ InDialog' /\ dm' # "must_put" /\ ~MoreToCome'
    BY <1>8 DEF DialogOpens, InDialog, MoreToCome
  <2>2. PICK i \in 1 .. NumParams : pd.records[i].ind[pd.paramset_idx] = SQL_DATA_AT_EXEC
    BY <1>1, <1>8
  <2>3. AtExec
    <3>1. SUFFICES ASSUME ~AtExec PROVE FALSE
      OBVIOUS
    <3>2. i \in DOMAIN pd.records /\ pd.records[i].data = "app"
      BY <1>2, <1>5, <1>8, PDFields DEF Supplied
    <3>3. Uniform(pd.records[i])
      BY <1>2, <3>1, <3>2 DEF Kept, AtExec
    <3>4. pd.paramset_idx \in Sets
      BY <1>2, PDFields, SetsOK
    <3> QED
      BY <2>2, <3>1, <3>3, <3>4 DEF Uniform
  <2>4. Fresh(pd) /\ Fresh(pd)'
    BY <1>3, <1>8, <2>3 DEF CareInv
  <2>5. \A k \in 1 .. NumParams : pd'.records[k].data # "pool"
    BY <1>1, <1>5, <1>8 DEF SameBuffers
  <2>6. DialogOK(pd)'
    <3>1. pd.array_size \in Nat \ {0} /\ pd'.array_size = pd.array_size
      BY <1>1, <1>2, PDFields DEF SameBuffers
    <3>2. pd'.cur_paramset_idx < pd'.array_size
      BY <2>4, <3>1 DEF Fresh
    <3> QED
      BY <2>3, <2>4, <2>5, <3>2 DEF DialogOK, Fresh
  <2> QED
    BY <1>1, <1>3, <2>1, <2>4, <2>6 DEF CareInv
<1> QED
  BY <1>6, <1>7, <1>8 DEF LoopGoesOn

\* SQLParamData asks for a parameter, or ends the dialog with every buffer filled.
LEMMA ParamDataCare ==
  ASSUME Careful, ParamInv, OrderInv, CareInv, SQLParamData
  PROVE  CareInv'
<1> DEFINE g == GetNextParam(pd)
           i == pd.cur_param_idx + 1
           s == pd.cur_paramset_idx
<1>1. /\ PDOK(pd) /\ InDialog /\ MayExecute /\ Supplied(pd) /\ DialogOK(pd) /\ call = "idle" /\ dirty
      /\ \A k \in DOMAIN pd.records : Kept(pd.records[k])
  BY DEF ParamInv, HandleOK, OrderInv, CareInv, SQLParamData, InDialog, MayExecute
<1>2. /\ pd.cur_param_idx \in Nat /\ pd.count \in Nat /\ pd.count <= NumParams /\ s \in Sets
      /\ Sets \subseteq Nat
  BY <1>1, PDFields, SetsOK DEF PDOK, Supplied
<1>3. (pd.cur_param_idx < pd.count => pd.records[i].ind_ptr) /\ ~(s >= pd.array_size)
  <2>1. pd.array_size \in Nat /\ s \in Nat
    BY <1>1, PDFields
  <2> QED
    BY <1>1, <1>2, <2>1 DEF Supplied, DialogOK
<1>4. /\ pd' = g.p /\ dm' = (IF g.ret = "NEED_DATA" THEN "must_put" ELSE "executed")
      /\ UNCHANGED <<res, call, run, exec, dirty>>
  BY <1>3 DEF SQLParamData
<1>5. SameBuffers(pd, g.p)
  BY <1>1, GetNextParamOK DEF SameBuffers, GetNextParam
<1>6. g.ret = "NEED_DATA" <=> (pd.cur_param_idx < pd.count /\ pd.records[i].ind[s] = SQL_DATA_AT_EXEC)
  BY <1>2 DEF GetNextParam
<1> HIDE DEF g
<1>7. /\ Supplied(pd)' /\ (\A k \in DOMAIN pd.records : Kept(pd.records[k]))' /\ DialogOK(pd)'
  BY <1>1, <1>4, <1>5 DEF SameBuffers, Supplied, Kept, Uniform, DialogOK, Filled, Filling
<1>8. OwnValues' /\ call' = "idle" /\ dirty'
  BY <1>1, <1>4 DEF CareInv, OwnValues
<1>9. CASE g.ret = "NEED_DATA"
  <2>1. dm' = "must_put" /\ AskedFor(pd)'
    BY <1>4, <1>5, <1>6, <1>9 DEF AskedFor, SameBuffers
  <2>2. ~MoreToCome'
    BY <2>1 DEF MoreToCome
  <2> QED
    BY <1>7, <1>8, <2>1, <2>2 DEF CareInv
<1>10. CASE g.ret # "NEED_DATA"
  <2>1. dm' = "executed" /\ ~InDialog'
    BY <1>4, <1>10 DEF InDialog
  <2>2. ASSUME NEW k \in 1 .. NumParams, pd'.records[k].data = "pool"
        PROVE  Filled(pd.records[k], pd.array_size)'
    <3>1. ~Filling(pd, k)
      <4>1. SUFFICES ASSUME Filling(pd, k) PROVE FALSE
        OBVIOUS
      <4>2. k = i /\ pd.cur_param_idx < pd.count
        BY <1>2, <4>1 DEF Filling
      <4>3. pd.records[i].ind[s] = SQL_DATA_AT_EXEC
        <5>1. s \in Nat /\ s >= s
          BY <1>1, PDFields
        <5> QED
          BY <1>2, <4>1, <4>2, <5>1 DEF Filling
      <4> QED
        BY <1>6, <1>10, <4>2, <4>3
    <3>2. Filled(pd.records[k], pd.array_size)
      BY <1>1, <1>4, <1>5, <2>2, <3>1 DEF DialogOK, SameBuffers
    <3> QED
      BY <1>4, <1>5, <3>2 DEF Filled, SameBuffers
  <2> QED
    BY <1>7, <1>8, <2>1, <2>2 DEF CareInv
<1> QED
  BY <1>9, <1>10

\* SQLPutData.
LEMMA PutCare ==
  ASSUME Careful, ParamInv, OrderInv, CareInv, NoStatusArray, NEW len \in AllPieces, SQLPutData(len)
  PROVE  CareInv'
<1>1. /\ PDOK(pd) /\ InDialog /\ MayExecute /\ Supplied(pd) /\ DialogOK(pd) /\ call = "idle" /\ dirty
      /\ \A k \in DOMAIN pd.records : Kept(pd.records[k])
  BY DEF ParamInv, HandleOK, OrderInv, CareInv, SQLPutData, InDialog, MayExecute
<1>2. pd.cur_param_idx < pd.count => CanPut(pd, len)
  BY PutDefined
<1>3. /\ pd' = PutData(pd, len) /\ dm' = "can_put"
      /\ UNCHANGED <<res, call, run, exec, dirty>>
  BY <1>2 DEF SQLPutData
<1>4. (\A j \in DOMAIN pd'.records : Kept(pd'.records[j])) /\ Supplied(PutData(pd, len)) /\ DialogOK(PutData(pd, len))
  <2>1. CASE pd.cur_param_idx < pd.count
    BY <1>3, <2>1, PutKeepsDialog
  <2>2. CASE ~(pd.cur_param_idx < pd.count)
    <3>1. pd.cur_param_idx >= pd.count
      BY <1>1, <2>2, PDFields
    <3>2. PutData(pd, len) = pd
      BY <2>2, <3>1 DEF PutData
    <3> QED
      BY <1>1, <1>3, <3>2
  <2> QED
    BY <2>1, <2>2
<1>5. (\A j \in DOMAIN pd.records : Kept(pd.records[j]))' /\ Supplied(pd)' /\ DialogOK(pd)'
  <2> DEFINE q == PutData(pd, len)
  <2>1. pd' = q /\ run' = run
    BY <1>3
  <2> HIDE DEF q
  <2>2. Supplied(q) /\ DialogOK(q) /\ \A j \in DOMAIN q.records : Kept(q.records[j])
    BY <1>4, <2>1 DEF q
  <2> QED
    BY <2>1, <2>2 DEF Kept, Uniform, Supplied, DialogOK, Filled, Filling
<1>6. OwnValues' /\ call' = "idle" /\ dirty' /\ ~MoreToCome' /\ dm' # "must_put"
  BY <1>1, <1>3 DEF CareInv, OwnValues, MoreToCome
<1> QED
  BY <1>5, <1>6 DEF CareInv

\* Every step of a careful application preserves the invariant.
LEMMA CareNextOK ==
  ASSUME Careful, ParamInv, OrderInv, CareInv, NoStatusArray, [Next]_vars
  PROVE  CareInv'
<1>1. PDOK(pd) /\ HandleOK /\ dirty \in BOOLEAN /\ (\A i \in DOMAIN pd.records : Kept(pd.records[i]))
  BY DEF ParamInv, HandleOK, CareInv
<1>2. CASE UNCHANGED vars
  BY <1>2 DEF vars, CareInv, MayExecute, InDialog, MoreToCome, Kept, Uniform, Supplied, Fresh,
              DialogOK, AskedFor, Filled, Filling, OwnValues
<1>3. CASE SQLPrepare
  <2>1. /\ call' = "idle" /\ ~InDialog' /\ ~MoreToCome' /\ UNCHANGED <<run, exec, dirty>>
        /\ pd' = ResetParams(pd) \/ pd' = pd
    BY <1>3 DEF SQLPrepare, Calling, InDialog, MoreToCome
  <2>2. (\A i \in DOMAIN pd'.records : Kept(pd'.records[i])) /\ (Fresh(pd) => Fresh(pd)')
    <3>1. CASE pd' = pd
      BY <1>1, <3>1 DEF Fresh
    <3>2. CASE pd' = ResetParams(pd)
      <4> DEFINE q == ResetParams(pd)
      <4>1. (\A i \in DOMAIN q.records : Kept(q.records[i])) /\ (Fresh(pd) => Fresh(q))
        BY <1>1, ResetParamsKept
      <4> HIDE DEF q
      <4> QED
        BY <3>2, <4>1 DEF q, Fresh
    <3> QED
      BY <2>1, <3>1, <3>2
  <2>3. OwnValues'
    BY <2>1 DEF CareInv, OwnValues
  <2>4. AtExec /\ ~dirty' => Fresh(pd)'
    BY <2>1, <2>2 DEF CareInv
  <2> QED
    BY <2>1, <2>2, <2>3, <2>4, IdleCare
<1>4. CASE SQLExecute
  <2>1. StartRun(pd) /\ ~InDialog' /\ ~dirty /\ dm' = dm
    BY <1>1, <1>4 DEF SQLExecute, StartRun, InDialog, Careful
  <2>2. ~MoreToCome'
    BY <2>1 DEF OrderInv, MayExecute, MoreToCome
  <2> QED
    BY <1>1, <2>1, <2>2, StartCare
<1>5. CASE SQLExecDirect
  <2>1. StartRun(ResetParams(pd)) /\ ~InDialog' /\ ~MoreToCome'
    BY <1>5 DEF SQLExecDirect, InDialog, MoreToCome
  <2> DEFINE q == ResetParams(pd)
  <2>2. /\ PDOK(q) /\ q.paramset_idx = pd.paramset_idx
        /\ (\A i \in DOMAIN q.records : Kept(q.records[i])) /\ (Fresh(pd) => Fresh(q))
    BY <1>1, ResetParamsOK, ResetParamsKept
  <2> HIDE DEF q
  <2> QED
    BY <2>1, <2>2, StartCare DEF q
<1>6. CASE BatchStep
  <2>1. call = "batch" /\ pd.paramset_idx < pd.array_size
    BY <1>6 DEF BatchStep, CareInv
  <2>2. ~StrayRead
    BY <2>1, NextSetSupplied DEF StrayRead
  <2>3. CASE SingleExecuteStmt("STILL_EXECUTING") /\ LoopGoesOn
    BY <2>1, <2>3, ExecuteCare
  <2>4. CASE SingleExecuteStmt("NEED_DATA") /\ DialogOpens
    BY <2>1, <2>4, ExecuteCare
  <2>5. ASSUME NEW r \in {"SUCCESS", "ERROR"}, SingleExecuteStmt(r), LoopEnds(r) PROVE CareInv'
    BY <2>1, <2>5, ExecuteCare
  <2> QED
    BY <1>6, <2>2, <2>3, <2>4, <2>5 DEF BatchStep
<1>7. ASSUME NEW i \in 1 .. NumParams, NEW b \in Bindings, SQLBindParameter(i, b)
      PROVE  CareInv'
  <2>1. UNCHANGED <<res, dm, call, ret, run, exec, dirty>> /\ call = "idle" /\ ~InDialog
    BY <1>7 DEF SQLBindParameter, Configure, Calling
  <2>2. pd'.array_size = pd.array_size
    BY <1>1, <1>7, BindOK
  <2>3. /\ \A j \in DOMAIN pd'.records : Kept(pd'.records[j])
        /\ Fresh(pd) => Fresh(pd')
        /\ Supplied(pd) => /\ Supplied(pd')
                           /\ \A j \in 1 .. NumParams :
                                pd'.records[j] = pd.records[j] \/ pd'.records[j].data = "app"
    BY <1>1, <1>7, BindKept
  <2>4. MoreToCome => Supplied(pd)
    BY DEF CareInv, MayExecute
  <2>5. (Supplied(pd') => Supplied(pd)') /\ (Fresh(pd') => Fresh(pd)')
    BY DEF Supplied, Fresh
  <2>6. ASSUME Supplied(pd), NEW j \in 1 .. NumParams, pd'.records[j].data = "pool"
        PROVE  pd'.records[j] = pd.records[j]
    BY <2>3, <2>6
  <2>7. \A j \in 1 .. NumParams : Supplied(pd) /\ pd'.records[j].data = "pool" =>
          pd.records[j].data = "pool" /\ pd'.records[j].value = pd.records[j].value
    BY <2>6
  <2> QED
    BY <2>1, <2>2, <2>3, <2>4, <2>5, <2>7, ConfigureCare
<1>8. ASSUME NEW i \in 1 .. NumParams, NEW b \in Bindings, WriteIndicators(i, b)
      PROVE  CareInv'
  <2>1. UNCHANGED <<res, dm, call, ret, run, exec, dirty>> /\ call = "idle" /\ ~InDialog
    BY <1>8 DEF WriteIndicators, Configure, Calling
  <2>2. pd'.array_size = pd.array_size
    BY <1>1, <1>8, WriteIndicatorsOK
  <2>3. /\ \A j \in DOMAIN pd'.records : Kept(pd'.records[j])
        /\ Fresh(pd) => Fresh(pd')
        /\ Supplied(pd) => /\ Supplied(pd')
                           /\ \A j \in 1 .. NumParams :
                                /\ pd'.records[j].data = pd.records[j].data
                                /\ pd.records[j].data = "pool" => pd'.records[j].value = pd.records[j].value
    BY <1>1, <1>8, WriteKept
  <2>4. MoreToCome => Supplied(pd)
    BY DEF CareInv, MayExecute
  <2>5. (Supplied(pd') => Supplied(pd)') /\ (Fresh(pd') => Fresh(pd)')
    BY DEF Supplied, Fresh
  <2> QED
    BY <2>1, <2>2, <2>3, <2>4, <2>5, ConfigureCare
<1>9. CASE (\E n \in ArraySizes : SetParamsetSize(n)) \/ (\E b \in BOOLEAN : SetStatusPtr(b))
  <2>1. UNCHANGED <<res, dm, call, ret, run, exec, dirty>> /\ call = "idle" /\ ~InDialog
    BY <1>9 DEF SetParamsetSize, SetStatusPtr, Configure, Calling
  <2>2. /\ SamePlace(pd, pd') /\ pd'.records = pd.records
        /\ pd'.array_size = pd.array_size \/ ChangeOfSets
    BY <1>1, <1>9, AttributesOK
  <2>3. MoreToCome => pd'.array_size = pd.array_size
    BY <2>2 DEF ChangeOfSets, Careful, MoreToCome
  <2>4. (MoreToCome => Supplied(pd)') /\ (Fresh(pd) => Fresh(pd)')
    BY <2>2 DEF CareInv, MayExecute, Supplied, Fresh, SamePlace
  <2> QED
    BY <1>1, <2>1, <2>2, <2>3, <2>4, ConfigureCare
<1>10. CASE ResetParameters
  <2>1. /\ call' = "idle" /\ pd' = Clear(pd) /\ ~InDialog' /\ ~MoreToCome' /\ UNCHANGED <<run, exec>>
    BY <1>10 DEF ResetParameters, Calling, ChangeOfSets, Careful, InDialog, MoreToCome
  <2>2. pd'.records = << >> /\ pd'.pool = FALSE /\ pd'.cur_paramset_idx = 0
    BY <1>1, <2>1, ClearOK
  <2>3. DOMAIN << >> = {}
    OBVIOUS
  <2>4. OwnValues' /\ Fresh(pd)' /\ \A i \in DOMAIN pd'.records : Kept(pd'.records[i])
    BY <2>1, <2>2, <2>3 DEF CareInv, OwnValues, Fresh
  <2> QED
    BY <2>1, <2>4, IdleCare
<1>11. CASE CloseStmt
  <2>1. /\ call' = "idle" /\ pd' = Reset(pd) /\ ~InDialog' /\ ~MoreToCome' /\ UNCHANGED <<run, exec>>
        /\ dirty' = ("close" \notin Cleans)
    BY <1>1, <1>11 DEF CloseStmt, Calling, InDialog, MoreToCome
  <2>2. pd'.records = FreePool(pd).records
    BY <1>1, <2>1, ResetOK
  <2>3. \A i \in DOMAIN FreePool(pd).records : Kept(FreePool(pd).records[i])
    BY <1>1, FreedKept
  <2>4. \A i \in DOMAIN pd'.records : Kept(pd'.records[i])
    BY <2>2, <2>3
  <2>5. OwnValues' /\ (AtExec => dirty')
    BY <2>1 DEF CareInv, OwnValues, Careful
  <2> QED
    BY <2>1, <2>4, <2>5, IdleCare
<1>12. CASE SQLCancel
  <2>1. /\ call' = "idle" /\ ~InDialog' /\ ~MoreToCome' /\ UNCHANGED <<pd, run, exec, dirty>>
    BY <1>12 DEF SQLCancel, InDialog, MoreToCome
  <2>2. OwnValues' /\ (AtExec /\ ~dirty' => Fresh(pd)')
    BY <2>1 DEF CareInv, OwnValues, Fresh
  <2> QED
    BY <1>1, <2>1, <2>2, IdleCare
<1>13. CASE UNCHANGED <<pd, res, dm, call, run, exec, dirty>>
  BY <1>13 DEF CareInv, MayExecute, InDialog, MoreToCome, Kept, Uniform, Supplied, Fresh,
               DialogOK, AskedFor, Filled, Filling, OwnValues
<1>14. ASSUME MoreToCome, call = "idle", HasParamSetToProcess(pd),
              StrayRead \/ \E r \in ReturnCodes : SingleExecuteStmt(r) /\ UNCHANGED <<call, dm>>
       PROVE  CareInv'
  <2>1. pd.paramset_idx < pd.array_size
    BY <1>14 DEF HasParamSetToProcess
  <2>2. ~StrayRead
    BY <1>14, <2>1, NextSetSupplied DEF StrayRead
  <2> QED
    BY <1>14, <2>1, <2>2, ExecuteCare
<1>15. CASE SQLFetch
  BY <1>13, <1>14, <1>15 DEF SQLFetch, Calling, CursorOpen, MoreToCome
<1>16. CASE SQLMoreResults
  BY <1>13, <1>14, <1>16 DEF SQLMoreResults, Calling, MoreToCome
<1> QED
  BY <1>2, <1>3, <1>4, <1>5, <1>6, <1>7, <1>8, <1>9, <1>10, <1>11, <1>12, <1>15, <1>16,
     ParamDataCare, PutCare
  DEF Next

\* Only the application sets the status array.
LEMMA StatusArrayStays ==
  ASSUME ParamInv, [Next]_vars, "status_ptr" \notin Calls
  PROVE  pd'.status_ptr = pd.status_ptr
<1>1. PDOK(pd) /\ run \in Nat
  BY DEF ParamInv, HandleOK
<1>2. CASE pd' = pd
  BY <1>2
<1>3. CASE pd' \in {ResetParams(pd), Clear(pd), Reset(pd)}
  BY <1>1, <1>3, ResetParamsOK, ClearOK, ResetOK
<1>4. ASSUME NEW r, SingleExecuteStmt(r) PROVE pd'.status_ptr = pd.status_ptr
  BY <1>4, SingleExecuteOK DEF Executes, SameDialog
<1>5. ASSUME NEW i \in 1 .. NumParams, NEW b \in Bindings, SQLBindParameter(i, b) \/ WriteIndicators(i, b)
      PROVE  pd'.status_ptr = pd.status_ptr
  BY <1>1, <1>5, BindOK, WriteIndicatorsOK
<1>6. CASE (\E n \in ArraySizes : SetParamsetSize(n)) \/ (\E b \in BOOLEAN : SetStatusPtr(b))
  BY <1>1, <1>6, AttributesOK
<1>7. CASE SQLParamData
  <2>1. pd' = pd \/ pd' = GetNextParam(pd).p
    BY <1>7 DEF SQLParamData, Undefined
  <2> QED
    BY <1>1, <1>2, <2>1, GetNextParamOK
<1>8. ASSUME NEW len \in AllPieces, SQLPutData(len) PROVE pd'.status_ptr = pd.status_ptr
  <2>1. pd' = pd \/ PutStep(pd, pd')
    <3>1. CASE call' = "undefined"
      BY <1>8, <3>1 DEF SQLPutData, Undefined
    <3>2. CASE call' # "undefined"
      BY <1>1, <1>8, <3>2, PutsOK
    <3> QED
      BY <3>1, <3>2
  <2> QED
    BY <2>1 DEF PutStep
<1>9. CASE SQLPrepare \/ SQLExecute \/ SQLExecDirect \/ ResetParameters \/ CloseStmt \/ SQLCancel
  <2>1. pd' \in {pd, ResetParams(pd), Clear(pd), Reset(pd)}
    BY <1>9 DEF SQLPrepare, SQLExecute, SQLExecDirect, StartRun, ResetParameters, CloseStmt, SQLCancel
  <2> QED
    BY <1>2, <1>3, <2>1
<1>10. CASE BatchStep \/ SQLFetch \/ SQLMoreResults
  <2>1. pd' = pd \/ \E r : SingleExecuteStmt(r)
    BY <1>10 DEF BatchStep, SQLFetch, SQLMoreResults, StrayRead, Undefined
  <2> QED
    BY <1>2, <1>4, <2>1
<1> QED
  BY <1>2, <1>5, <1>6, <1>7, <1>8, <1>9, <1>10 DEF Next, vars

\* There is no status array in a careful application's dialogs.
LEMMA NoStatusInvariance == ASSUME Careful PROVE Spec => []NoStatusArray
<1>1. Init => NoStatusArray
  BY DEF Init, NewDescriptor, NoStatusArray
<1>2. ASSUME ParamInv, NoStatusArray, [Next]_vars PROVE NoStatusArray'
  BY <1>2, StatusArrayStays DEF NoStatusArray, Careful
<1> QED
  BY ParamInvariance, <1>1, <1>2, PTL DEF Spec

\* The invariant of a careful application.
THEOREM CareInvariance == ASSUME Careful PROVE Spec => []CareInv
<1>1. Tidy
  BY DEF Careful, Tidy
<1>2. (Spec => []OrderInv) /\ (Spec => []NoStatusArray)
  BY <1>1, OrderInvariance, NoStatusInvariance
<1>3. ParamInv /\ OrderInv /\ CareInv /\ NoStatusArray /\ [Next]_vars => CareInv'
  BY CareNextOK
<1> QED
  BY CareInitOK, ParamInvariance, <1>2, <1>3, PTL DEF Spec

\* No execution, no SQLParamData and no SQLPutData of a careful application reads or
\* writes past its arrays, through a null indicator, or into a freed buffer.
THEOREM CarefulDefined == ASSUME Careful PROVE Spec => []ParamsNeverUndefined
<1>1. CareInv => ParamsNeverUndefined
  BY DEF CareInv, ParamsNeverUndefined
<1> QED
  BY CareInvariance, <1>1, PTL

\* The statement of a careful application is executed with the values supplied for this
\* run, whether they were bound before or sent in a dialog.
THEOREM CarefulOwnValues == ASSUME Careful PROVE Spec => []OwnValues
<1>1. CareInv => OwnValues
  BY DEF CareInv
<1> QED
  BY CareInvariance, <1>1, PTL
----------------------------------------------------------------------------
(***************************************************************************)
(* Completeness of the dialog.                                             *)
(***************************************************************************)
\* A careful application whose parameters all ask for data, or that has one only; one
\* that is of fixed length is sent as null, which is what its indicator can note, and
\* only for the first set.
AsksAll ==
  /\ Careful
  /\ NumParams = 1 \/ Bindings \subseteq {"at_exec", "fixed_at_exec"}
  /\ "fixed_at_exec" \in Bindings => Pieces["fixed"] \subseteq {SQL_NULL_DATA} /\ ArraySizes = {1}

\* Before the dialog: it starts at the first parameter, knows of all of them, and with
\* more than one all of them ask.
Asks(r) == \A t \in Sets : r.ind[t] = SQL_DATA_AT_EXEC
Asking(r) == r.ind_ptr => Uniform(r) /\ (NumParams = 1 \/ Asks(r))
Begun(p) ==
  /\ p.cur_param_idx = 0 /\ p.count = Len(p.records)
  /\ \A i \in DOMAIN p.records : Asking(p.records[i])

\* During the dialog: the parameters before the current one have their data, those after
\* it ask; of the current one the sets before the current one have it, the others ask,
\* unless the application is in the middle of the only value.
Answered(r, n) == \A t \in Sets : t < n => r.ind[t] # SQL_DATA_AT_EXEC
Partly(p, r) == p.array_size = 1 /\ dm = "can_put" /\ r.ind[0] \in 1 .. ColumnSize - 1
Current(p, r) ==
  /\ Answered(r, p.cur_paramset_idx)
  /\ (\A t \in Sets : t >= p.cur_paramset_idx => r.ind[t] = SQL_DATA_AT_EXEC) \/ Partly(p, r)
Progress(p) ==
  /\ p.count = NumParams /\ (p.array_size = 1 => p.cur_paramset_idx = 0)
  /\ \A i \in 1 .. NumParams :
       /\ i <= p.cur_param_idx => Answered(p.records[i], p.array_size)
       /\ i = p.cur_param_idx + 1 => Current(p, p.records[i])
       /\ i > p.cur_param_idx + 1 => Asks(p.records[i])
AskInv ==
  /\ call = "batch" => ~InDialog
  /\ AtExec /\ (~dirty \/ call = "batch") => Begun(pd)
  /\ InDialog => Progress(pd)

\* The indicators and the records of such an application ask.
LEMMA BoundAsks ==
  ASSUME AsksAll, NEW b \in Bindings
  PROVE  /\ NumParams = 1 \/ \A t \in Sets : Indicators(b)[t] = SQL_DATA_AT_EXEC
         /\ Asking(Bound(b))
<1>1. \E c \in {ColumnSize, SQL_NULL_DATA, SQL_DATA_AT_EXEC} :
        (AtExec \/ c # SQL_DATA_AT_EXEC) /\ \A s \in Sets : Indicators(b)[s] = c
  BY BoundKept DEF AsksAll
<1>2. NumParams = 1 \/ \A t \in Sets : Indicators(b)[t] = SQL_DATA_AT_EXEC
  <2>1. NumParams = 1 \/ b \in {"at_exec", "fixed_at_exec"}
    BY DEF AsksAll
  <2> QED
    BY <2>1 DEF Indicators
<1>3. Bound(b).ind = Indicators(b)
  BY BoundOK
<1> QED
  BY <1>1, <1>2, <1>3 DEF Asking, Asks, Uniform

\* Preparing the statement again changes nothing before the dialog.
LEMMA ResetParamsBegun ==
  ASSUME NEW p, PDOK(p), Begun(p)
  PROVE  Begun(ResetParams(p))
<1> DEFINE f == FreePool(p)
           q == ResetParams(p)
<1>1. /\ PDOK(f) /\ Len(f.records) = Len(p.records)
      /\ \A i \in DOMAIN p.records : /\ f.records[i].ind_ptr = p.records[i].ind_ptr
                                     /\ f.records[i].ind = p.records[i].ind
  BY FreePoolOK
<1>2. /\ PDOK(q) /\ q.cur_param_idx = p.cur_param_idx /\ q.count = NumParams
      /\ q.records = Resized(f.records, NumParams)
  BY ResetParamsOK
<1> HIDE DEF f, q
<1>3. /\ f.records \in Seq(RecordSet) /\ \A i \in DOMAIN f.records : RecOK(f.records[i])
      /\ DOMAIN f.records = DOMAIN p.records /\ DOMAIN f.records = 1 .. Len(f.records)
      /\ Len(f.records) \in Nat
  BY <1>1, PDFields DEF PDOK
<1>4. /\ Len(q.records) = NumParams /\ DOMAIN q.records = 1 .. NumParams
      /\ \A i \in 1 .. NumParams : q.records[i] = IF i <= Len(f.records) THEN f.records[i] ELSE NoRecord
  <2> DEFINE x == Resized(f.records, NumParams)
  <2>1. /\ Len(x) = NumParams /\ DOMAIN x = 1 .. NumParams
        /\ \A i \in 1 .. NumParams : x[i] = IF i <= Len(f.records) THEN f.records[i] ELSE NoRecord
    BY <1>3, ResizedOK
  <2> QED
    BY <1>2, <2>1
<1>5. ASSUME NEW i \in 1 .. NumParams PROVE Asking(q.records[i])
  <2>1. CASE i \in DOMAIN p.records
    <3>1. q.records[i].ind_ptr = p.records[i].ind_ptr /\ q.records[i].ind = p.records[i].ind
      BY SMTT(30), <1>1, <1>3, <1>4, <2>1
    <3>2. Asking(p.records[i])
      BY <2>1 DEF Begun
    <3> QED
      BY <3>1, <3>2 DEF Asking, Asks, Uniform
  <2>2. CASE i \notin DOMAIN p.records
    <3>1. q.records[i] = NoRecord
      BY <1>3, <1>4, <2>2
    <3> QED
      BY <3>1, NoRecordOK DEF Asking
  <2> QED
    BY <2>1, <2>2
<1>6. Begun(q)
  BY <1>2, <1>4, <1>5 DEF Begun
<1> QED
  BY <1>6 DEF q

\* Neither do binding and writing indicators.
LEMMA BindBegun ==
  ASSUME AsksAll, PDOK(pd), Begun(pd),
         NEW i \in 1 .. NumParams, NEW b \in Bindings, SQLBindParameter(i, b) \/ WriteIndicators(i, b)
  PROVE  Begun(pd')
<1>1. Asking(Bound(b)) /\ \A j \in DOMAIN pd.records : Asking(pd.records[j])
  BY BoundAsks DEF Begun
<1>2. pd.records \in Seq(RecordSet) /\ Len(pd.records) \in Nat /\ DOMAIN pd.records = 1 .. Len(pd.records)
      /\ \A j \in DOMAIN pd.records : RecOK(pd.records[j])
  BY PDFields DEF PDOK
<1>3. CASE SQLBindParameter(i, b)
  <2> DEFINE p == GetDescRecord(pd, i)
  <2>1. /\ PDOK(p) /\ p.cur_param_idx = pd.cur_param_idx
        /\ p = pd \/ (Len(pd.records) < i /\ p.records = Resized(pd.records, i) /\ p.count = i)
    BY GetDescRecordOK
  <2>2. /\ PDOK(pd') /\ SamePlace(pd, pd') /\ pd'.count = p.count /\ i \in DOMAIN p.records
        /\ (pd'.records = p.records \/ pd'.records = [p.records EXCEPT ![i] = Bound(b)])
    BY <1>3, BindOK
  <2> HIDE DEF p
  <2>3. p.count = Len(p.records) /\ \A j \in DOMAIN p.records : Asking(p.records[j])
    <3>1. CASE p = pd
      BY <3>1 DEF Begun
    <3>2. CASE p.records = Resized(pd.records, i) /\ p.count = i
      <4>1. /\ Len(p.records) = i /\ DOMAIN p.records = 1 .. i
            /\ \A j \in 1 .. i : p.records[j] = IF j <= Len(pd.records) THEN pd.records[j] ELSE NoRecord
        <5> DEFINE x == Resized(pd.records, i)
        <5>1. i \in Nat
          OBVIOUS
        <5>2. /\ Len(x) = i /\ DOMAIN x = 1 .. i
              /\ \A j \in 1 .. i : x[j] = IF j <= Len(pd.records) THEN pd.records[j] ELSE NoRecord
          BY <1>2, <5>1, ResizedOK
        <5> QED
          BY <3>2, <5>2
      <4>2. Asking(NoRecord)
        BY NoRecordOK DEF Asking
      <4> QED
        BY <1>1, <1>2, <3>2, <4>1, <4>2
    <3> QED
      BY <2>1, <3>1, <3>2
  <2>4. p.records \in Seq(RecordSet)
    BY <2>1, PDFields
  <2>5. /\ Len(pd'.records) = Len(p.records) /\ DOMAIN pd'.records = DOMAIN p.records
        /\ \A j \in DOMAIN p.records : pd'.records[j] \in {p.records[j], Bound(b)}
    <3>1. CASE pd'.records = p.records
      BY <3>1
    <3>2. CASE pd'.records = [p.records EXCEPT ![i] = Bound(b)]
      BY <2>2, <2>4, <3>2
    <3> QED
      BY <2>2, <3>1, <3>2
  <2> QED
    BY <1>1, <2>1, <2>2, <2>3, <2>5 DEF Begun, SamePlace
<1>4. CASE WriteIndicators(i, b)
  <2>0. PICK v \in [Sets -> Nat] :
          pd'.records = [pd.records EXCEPT ![i] = [pd.records[i] EXCEPT !.ind = Indicators(b), !.value = v]]
    BY <1>4, WriteIndicatorsOK
  <2> DEFINE new == [pd.records[i] EXCEPT !.ind = Indicators(b), !.value = v]
  <2>1. /\ PDOK(pd') /\ SamePlace(pd, pd') /\ pd'.count = pd.count
        /\ i \in DOMAIN pd.records /\ pd'.records = [pd.records EXCEPT ![i] = new]
    BY <1>4, <2>0, WriteIndicatorsOK
  <2>2. new.ind = Indicators(b)
    <3>1. pd.records[i] \in RecordSet
      BY <1>2, <2>1
    <3> QED
      BY <3>1 DEF RecordSet
  <2> HIDE DEF new
  <2>3. Asking(new)
    <3>1. Bound(b).ind_ptr /\ Bound(b).ind = Indicators(b)
      BY BoundKept, BoundOK DEF AsksAll
    <3> QED
      BY <1>1, <2>2, <3>1 DEF Asking, Asks, Uniform
  <2>4. /\ Len(pd'.records) = Len(pd.records) /\ DOMAIN pd'.records = DOMAIN pd.records
        /\ \A j \in DOMAIN pd.records : pd'.records[j] \in {pd.records[j], new}
    BY <1>2, <2>1
  <2> QED
    BY <1>1, <2>1, <2>3, <2>4 DEF Begun, SamePlace
<1> QED
  BY <1>3, <1>4

\* SQLParamData leaves the dialog only when nothing is missing.
LEMMA ParamDataAsks ==
  ASSUME AsksAll, ParamInv, OrderInv, CareInv, AskInv, SQLParamData
  PROVE  AskInv' /\ DataCompleteStep
<1> DEFINE g == GetNextParam(pd)
           i == pd.cur_param_idx + 1
           s == pd.cur_paramset_idx
<1>1. /\ PDOK(pd) /\ InDialog /\ Supplied(pd) /\ DialogOK(pd) /\ call = "idle" /\ dirty /\ Progress(pd)
      /\ dm \in {"need_data", "can_put"} /\ AtExec /\ \A k \in DOMAIN pd.records : Kept(pd.records[k])
  BY DEF ParamInv, HandleOK, OrderInv, CareInv, DialogOK, AskInv, SQLParamData, InDialog, MayExecute
<1>2. /\ pd.cur_param_idx \in Nat /\ s \in Sets /\ s \in Nat /\ pd.count = NumParams
      /\ DOMAIN pd.records = 1 .. NumParams /\ Sets \subseteq Nat /\ pd.array_size \in Nat
      /\ pd.array_size \in ArraySizes \cup {1}
  BY <1>1, PDFields, SetsOK DEF PDOK, Supplied, Progress
<1>3. (pd.cur_param_idx < pd.count => pd.records[i].ind_ptr) /\ ~(s >= pd.array_size)
  <2>1. pd.array_size \in Nat /\ s \in Nat
    BY <1>1, PDFields
  <2> QED
    BY <1>1, <1>2, <2>1 DEF Supplied, DialogOK
<1>4. /\ pd' = g.p /\ dm' = (IF g.ret = "NEED_DATA" THEN "must_put" ELSE "executed")
      /\ UNCHANGED <<res, call, run, exec, dirty>>
  BY <1>3 DEF SQLParamData
<1>5. SameBuffers(pd, g.p)
  BY <1>1, GetNextParamOK DEF SameBuffers, GetNextParam
<1>6. g.ret = "NEED_DATA" <=> (pd.cur_param_idx < pd.count /\ pd.records[i].ind[s] = SQL_DATA_AT_EXEC)
  BY <1>2 DEF GetNextParam
<1> HIDE DEF g
<1>7. call' = "idle" /\ dirty'
  BY <1>1, <1>4
<1>8. CASE g.ret = "NEED_DATA"
  <2>1. dm' = "must_put"
    BY <1>4, <1>8
  <2>2. i \in 1 .. NumParams /\ pd.records[i].ind[s] = SQL_DATA_AT_EXEC
    BY <1>2, <1>6, <1>8
  <2>3. ~Partly(pd, pd.records[i])
    BY <1>1, <2>2 DEF Partly, Progress
  <2>4. /\ Answered(pd.records[i], s)
        /\ \A t \in Sets : t >= s => pd.records[i].ind[t] = SQL_DATA_AT_EXEC
    BY <1>1, <2>2, <2>3 DEF Progress, Current
  <2>5. Progress(pd)'
    <3>1. SameBuffers(pd, pd')
      BY <1>4, <1>5
    <3>2. ASSUME NEW j \in 1 .. NumParams
          PROVE  /\ j <= pd'.cur_param_idx => Answered(pd.records[j], pd.array_size)'
                 /\ j = pd'.cur_param_idx + 1 => Current(pd, pd.records[j])'
                 /\ j > pd'.cur_param_idx + 1 => Asks(pd.records[j])'
      BY <1>1, <2>4, <3>1 DEF Progress, SameBuffers, Answered, Current, Asks
    <3>3. pd'.count = NumParams /\ (pd'.array_size = 1 => pd'.cur_paramset_idx = 0)
      BY <1>1, <3>1 DEF Progress, SameBuffers
    <3> QED
      BY <3>2, <3>3 DEF Progress
  <2> QED
    BY <1>7, <2>1, <2>5 DEF AskInv, DataCompleteStep
<1>9. CASE g.ret # "NEED_DATA"
  <2>1. dm' = "executed" /\ ~InDialog'
    BY <1>4, <1>9 DEF InDialog
  <2>2. pd.cur_param_idx >= NumParams
    <3>1. SUFFICES ASSUME pd.cur_param_idx < NumParams PROVE FALSE
      BY <1>2
    <3>2. i \in 1 .. NumParams /\ pd.records[i].ind[s] # SQL_DATA_AT_EXEC /\ s >= s
      BY <1>2, <1>6, <1>9, <3>1
    <3>3. Partly(pd, pd.records[i])
      BY <1>1, <1>2, <3>2 DEF Progress, Current
    <3>4. s = 0 /\ pd.records[i].ind[s] \in 1 .. ColumnSize - 1 /\ dm = "can_put"
      BY <1>1, <3>3 DEF Progress, Partly
    <3>5. MidValue
      BY <1>2, <3>1, <3>4 DEF MidValue
    <3> QED
      BY <1>1, <3>5 DEF SQLParamData, AsksAll, Careful
  <2>3. Missing(pd) = {}
    <3>1. SUFFICES ASSUME NEW x \in Missing(pd) PROVE FALSE
      OBVIOUS
    <3>2. /\ x[1] \in 1 .. NumParams /\ x[2] \in 0 .. pd.array_size - 1
          /\ pd.records[x[1]].ind[x[2]] \in AtExecIndicators
      BY <1>2 DEF Missing
    <3>3. x[2] \in Sets /\ x[2] < pd.array_size
      BY <1>2, <3>2, SetsOK
    <3>4. Answered(pd.records[x[1]], pd.array_size)
      BY <1>1, <1>2, <2>2, <3>2 DEF Progress
    <3>5. pd.records[x[1]].ind[x[2]] >= -2
      BY <1>1, <1>2, <3>2, <3>3 DEF Kept
    <3> QED
      BY <3>2, <3>3, <3>4, <3>5 DEF Answered, AtExecIndicators, SQL_LEN_DATA_AT_EXEC
  <2> QED
    BY <1>7, <2>1, <2>3 DEF AskInv, DataCompleteStep
<1> QED
  BY <1>8, <1>9

\* SQLPutData answers what was asked for, and leaves the rest asking.
LEMMA PutAsks ==
  ASSUME AsksAll, ParamInv, OrderInv, CareInv, NoStatusArray, AskInv, NEW len \in AllPieces, SQLPutData(len)
  PROVE  AskInv' /\ DataCompleteStep
<1> DEFINE i == pd.cur_param_idx + 1
           s == pd.cur_paramset_idx
           r == pd.records[i]
           new == pd'.records[i]
<1>1. /\ PDOK(pd) /\ InDialog /\ Supplied(pd) /\ AtExec /\ call = "idle" /\ dirty /\ Progress(pd)
      /\ run \in Nat /\ Careful
      /\ \A k \in DOMAIN pd.records : Kept(pd.records[k])
  BY DEF ParamInv, HandleOK, OrderInv, CareInv, DialogOK, AskInv, SQLPutData, InDialog, MayExecute, AsksAll
<1>2. pd.cur_param_idx < pd.count => CanPut(pd, len)
  BY <1>1, PutDefined
<1>3. /\ pd' = PutData(pd, len) /\ dm' = "can_put"
      /\ UNCHANGED <<res, call, run, exec, dirty>>
  BY <1>2 DEF SQLPutData
<1>4. SUFFICES Progress(pd)'
  BY <1>1, <1>3 DEF AskInv, DataCompleteStep
<1>5. /\ pd.cur_param_idx \in Nat /\ s \in Sets /\ s \in Nat /\ pd.count = NumParams
      /\ DOMAIN pd.records = 1 .. NumParams /\ Sets \subseteq Nat /\ 0 \in Sets
      /\ pd.array_size \in Nat \ {0} /\ pd.array_size \in ArraySizes \cup {1} /\ pd.records \in Seq(RecordSet)
  BY <1>1, PDFields, SetsOK DEF PDOK, Supplied, Progress
<1>6. CASE ~(pd.cur_param_idx < pd.count)
  <2>1. pd.cur_param_idx >= pd.count
    BY <1>5, <1>6
  <2>2. pd' = pd
    BY <1>3, <1>6, <2>1 DEF PutData
  <2>3. ASSUME NEW j \in 1 .. NumParams PROVE j <= pd.cur_param_idx
    BY <1>5, <2>1
  <2> QED
    BY <1>1, <1>5, <2>2, <2>3 DEF Progress, Answered
<1>7. CASE pd.cur_param_idx < pd.count
  <2>1. len \in (Nat \ {0}) \cup {SQL_NULL_DATA}
    BY DEF AllPieces
  <2>2. /\ pd'.array_size = pd.array_size /\ pd'.count = pd.count /\ i \in DOMAIN pd.records
        /\ \A j \in DOMAIN pd.records : j # i => pd'.records[j] = pd.records[j]
        /\ PutFixed(pd, pd', len) \/ PutPiece(pd, pd', len) \/ PutSet(pd, pd', len)
    <3> DEFINE q == PutData(pd, len)
    <3>1. /\ q.array_size = pd.array_size /\ q.count = pd.count /\ i \in DOMAIN pd.records
          /\ \A j \in DOMAIN pd.records : j # i => q.records[j] = pd.records[j]
          /\ PutFixed(pd, q, len) \/ PutPiece(pd, q, len) \/ PutSet(pd, q, len)
      BY <1>1, <1>2, <1>7, <2>1, PutDataIs
    <3> HIDE DEF q
    <3> QED
      BY <1>3, <3>1 DEF q
  <2>3. i \in 1 .. NumParams /\ r \in RecordSet /\ Current(pd, r)
    BY <1>1, <1>5, <2>2 DEF Progress
  <2>4. r.ind \in [Sets -> Int]
    BY <2>3 DEF RecordSet
  <2>5. len \in Pieces[r.type]
    BY <1>7 DEF SQLPutData, Sends
  <2> HIDE DEF r, new
  \* The parameter is done: the next one becomes the current one.
  <2>6. ASSUME Answered(new, pd.array_size), pd'.cur_param_idx = i, pd'.cur_paramset_idx = 0
        PROVE  Progress(pd)'
    <3>1. ASSUME NEW j \in 1 .. NumParams, j <= i PROVE Answered(pd.records[j], pd.array_size)'
      <4>1. CASE j = i
        BY <2>2, <2>6, <4>1 DEF Answered, new
      <4>2. CASE j # i
        <5>1. j <= pd.cur_param_idx /\ pd'.records[j] = pd.records[j]
          BY <1>5, <2>2, <3>1, <4>2
        <5> QED
          BY <1>1, <2>2, <5>1 DEF Progress, Answered
      <4> QED
        BY <4>1, <4>2
    <3>2. ASSUME NEW j \in 1 .. NumParams, j > i PROVE Asks(pd.records[j])'
      <4>1. j > pd.cur_param_idx + 1 /\ pd'.records[j] = pd.records[j]
        BY <1>5, <2>2, <3>2
      <4> QED
        BY <1>1, <4>1 DEF Progress, Asks
    <3>3. ASSUME NEW j \in 1 .. NumParams, j = i + 1 PROVE Current(pd, pd.records[j])'
      <4>1. Asks(pd.records[j])'
        BY <1>5, <3>2, <3>3
      <4> QED
        BY <1>5, <2>6, <4>1 DEF Current, Answered, Asks
    <3>4. \A j \in 1 .. NumParams : j > i + 1 => j > i
      BY <1>5
    <3> QED
      BY <1>5, <2>2, <2>6, <3>1, <3>2, <3>3, <3>4 DEF Progress
  \* The parameter is not done.
  <2>7. ASSUME Current(pd, pd.records[i])', pd'.cur_param_idx = pd.cur_param_idx,
               pd.array_size = 1 => pd'.cur_paramset_idx = 0
        PROVE  Progress(pd)'
    <3>1. ASSUME NEW j \in 1 .. NumParams
          PROVE  /\ j <= pd'.cur_param_idx => Answered(pd.records[j], pd.array_size)'
                 /\ j = pd'.cur_param_idx + 1 => Current(pd, pd.records[j])'
                 /\ j > pd'.cur_param_idx + 1 => Asks(pd.records[j])'
      <4>1. CASE j = i
        BY <1>5, <2>7, <4>1
      <4>2. CASE j # i
        <5>1. pd'.records[j] = pd.records[j]
          BY <1>5, <2>2, <4>2
        <5> QED
          BY <1>1, <2>2, <2>7, <4>2, <5>1 DEF Progress, Answered, Asks
      <4> QED
        BY <4>1, <4>2
    <3> QED
      BY <1>5, <2>2, <2>7, <3>1 DEF Progress
  <2>8. CASE PutFixed(pd, pd', len)
    <3>1. r.type = "fixed" /\ pd'.cur_param_idx = i /\ pd'.cur_paramset_idx = s
      BY <2>8 DEF PutFixed, r
    <3>2. new.ind = IF len = SQL_NULL_DATA THEN [r.ind EXCEPT ![0] = SQL_NULL_DATA] ELSE r.ind
      BY <2>8 DEF PutFixed, r, new
    <3>3. "fixed_at_exec" \in Bindings
      BY <1>1, <2>2, <3>1 DEF Kept, r
    <3>4. len = SQL_NULL_DATA /\ pd.array_size = 1
      BY <1>5, <2>5, <3>1, <3>3 DEF AsksAll
    <3>5. new.ind[0] = -1 /\ s = 0
      BY <1>1, <1>5, <2>4, <3>2, <3>4 DEF Progress
    <3>6. Answered(new, pd.array_size)
      BY <1>5, <3>4, <3>5 DEF Answered
    <3> QED
      BY <2>6, <3>1, <3>5, <3>6
  <2>9. ASSUME r.type # "fixed" PROVE len \in Nat \ {0}
    <3>1. r.type = "char"
      BY <1>1, <2>2, <2>3, <2>9 DEF Kept, RecordSet, Types, r
    <3>2. len # SQL_NULL_DATA
      BY <1>1, <2>5, <3>1 DEF Careful
    <3> QED
      BY <2>1, <3>2
  <2>10. CASE PutPiece(pd, pd', len)
    <3> DEFINE offset == IF r.ind[0] = SQL_DATA_AT_EXEC THEN 0 ELSE r.ind[0]
               full   == len >= ColumnSize - offset
               x      == IF full THEN ColumnSize ELSE offset + len
    <3>1. /\ r.type # "fixed" /\ pd.array_size = 1 /\ new.ind = [r.ind EXCEPT ![0] = x]
          /\ pd'.cur_paramset_idx = s /\ pd'.cur_param_idx = IF full THEN i ELSE pd.cur_param_idx
      BY <2>10 DEF PutPiece, r, new
    <3>2. len \in Nat \ {0} /\ s = 0
      BY <1>1, <2>9, <3>1 DEF Progress
    <3>3. r.ind[0] = SQL_DATA_AT_EXEC \/ r.ind[0] \in 1 .. ColumnSize - 1
      <4>1. 0 >= 0
        OBVIOUS
      <4> QED
        BY <1>5, <2>3, <3>2, <4>1 DEF Current, Partly
    <3>4. offset \in 0 .. ColumnSize - 1
      BY <3>3
    <3> HIDE DEF offset
    <3>5. new.ind[0] = x
      BY <1>5, <2>4, <3>1
    <3>6. CASE full
      <4>1. new.ind[0] = ColumnSize
        BY <3>5, <3>6
      <4>2. Answered(new, pd.array_size)
        BY <1>5, <3>1, <4>1 DEF Answered
      <4> QED
        BY <2>6, <3>1, <3>2, <3>6, <4>2
    <3>7. CASE ~full
      <4>1. new.ind[0] \in 1 .. ColumnSize - 1
        BY <3>2, <3>4, <3>5, <3>7
      <4>2. Partly(pd, pd.records[i])'
        <5>1. pd'.cur_param_idx = pd.cur_param_idx
          BY <3>1, <3>7
        <5> QED
          BY <1>3, <2>2, <3>1, <4>1, <5>1 DEF Partly, new
      <4>3. Answered(pd.records[i], pd.cur_paramset_idx)'
        BY <1>5, <3>1, <3>2 DEF Answered
      <4>4. Current(pd, pd.records[i])'
        BY <4>2, <4>3 DEF Current
      <4> QED
        BY <2>7, <3>1, <3>2, <3>7, <4>4
    <3> QED
      BY <3>6, <3>7
  <2>11. CASE PutSet(pd, pd', len)
    <3> DEFINE last == s + 1 >= pd.array_size
               x == IF len >= ColumnSize THEN ColumnSize ELSE len
    <3>1. /\ r.type # "fixed" /\ pd.array_size # 1 /\ new.ind = [r.ind EXCEPT ![s] = x]
          /\ pd'.cur_paramset_idx = (IF last THEN 0 ELSE s + 1)
          /\ pd'.cur_param_idx = IF last THEN i ELSE pd.cur_param_idx
      BY <2>11 DEF PutSet, r, new
    <3>2. len \in Nat \ {0} /\ x \in Nat
      BY <2>9, <3>1
    <3>3. /\ \A t \in Sets : t < s => r.ind[t] # SQL_DATA_AT_EXEC
          /\ \A t \in Sets : t >= s => r.ind[t] = SQL_DATA_AT_EXEC
      BY <2>3, <3>1 DEF Current, Partly, Answered
    <3> HIDE DEF x
    <3>4. new.ind[s] # SQL_DATA_AT_EXEC /\ \A t \in Sets : t # s => new.ind[t] = r.ind[t]
      BY <1>5, <2>4, <3>1, <3>2
    <3>5. Answered(new, s + 1)
      <4>1. ASSUME NEW t \in Sets, t < s + 1 PROVE new.ind[t] # SQL_DATA_AT_EXEC
        <5>1. t = s \/ (t < s /\ t # s)
          BY <1>5, <4>1
        <5> QED
          BY <3>3, <3>4, <5>1
      <4> QED
        BY <4>1 DEF Answered
    <3>6. CASE last
      <4>1. Answered(new, pd.array_size)
        BY <1>5, <3>5, <3>6 DEF Answered
      <4> QED
        BY <2>6, <3>1, <3>6, <4>1
    <3>7. CASE ~last
      <4>1. pd'.cur_paramset_idx = s + 1 /\ pd'.cur_param_idx = pd.cur_param_idx
        BY <3>1, <3>7
      <4>2. ASSUME NEW t \in Sets, t >= s + 1 PROVE new.ind[t] = SQL_DATA_AT_EXEC
        <5>1. t # s /\ t >= s
          BY <1>5, <4>2
        <5> QED
          BY <3>3, <3>4, <5>1
      <4>3. Current(pd, pd.records[i])'
        BY <3>5, <4>1, <4>2 DEF Current, Answered, new
      <4> QED
        BY <2>7, <3>1, <4>1, <4>3
    <3> QED
      BY <3>6, <3>7
  <2> QED
    BY <2>2, <2>8, <2>10, <2>11
<1> QED
  BY <1>6, <1>7

\* Every step keeps the progress of the dialog.
LEMMA AskNextOK ==
  ASSUME AsksAll, ParamInv, OrderInv, CareInv, NoStatusArray, AskInv, [Next]_vars
  PROVE  AskInv' /\ DataCompleteStep
<1>1. PDOK(pd) /\ HandleOK /\ dirty \in BOOLEAN /\ Careful
  BY DEF ParamInv, HandleOK, AsksAll
<1>2. CASE UNCHANGED <<pd, dm, call, dirty>>
  BY <1>2 DEF AskInv, InDialog, Begun, Asking, Asks, Uniform, Progress, Answered, Current, Partly,
              DataCompleteStep
<1>3. ASSUME call' # "batch", ~InDialog', AtExec /\ ~dirty' => Begun(pd)',
             InDialog => dm' # "executed"
      PROVE  AskInv' /\ DataCompleteStep
  BY <1>3 DEF AskInv, DataCompleteStep
<1>4. CASE SQLPrepare
  <2>1. /\ call' = "idle" /\ ~InDialog' /\ ~InDialog /\ UNCHANGED dirty
        /\ pd' = ResetParams(pd) \/ pd' = pd
    BY <1>4 DEF SQLPrepare, Calling, InDialog
  <2>2. Begun(pd) => Begun(pd')
    BY <1>1, <2>1, ResetParamsBegun
  <2>3. AtExec /\ ~dirty' => Begun(pd)'
    BY <2>1, <2>2 DEF AskInv, Begun
  <2> QED
    BY <1>3, <2>1, <2>3
<1>5. CASE SQLExecute \/ SQLExecDirect
  <2>1. /\ call' = "batch" /\ ~dirty /\ pd' \in {pd, ResetParams(pd)}
        /\ ~InDialog /\ ~InDialog'
    BY <1>1, <1>5 DEF SQLExecute, SQLExecDirect, StartRun, Calling, InDialog, Careful
  <2>2. AtExec => Begun(pd)
    BY <2>1 DEF AskInv
  <2>3. AtExec => Begun(pd')
    BY <1>1, <2>1, <2>2, ResetParamsBegun
  <2> QED
    BY <2>1, <2>3 DEF AskInv, Begun, DataCompleteStep
<1>6. CASE BatchStep
  <2>1. call = "batch" /\ pd.paramset_idx < pd.array_size /\ ~InDialog /\ (AtExec => Begun(pd))
    BY <1>6 DEF BatchStep, CareInv, AskInv
  <2>2. ~StrayRead
    BY <2>1, NextSetSupplied DEF StrayRead
  <2>3. ASSUME NEW r, SingleExecuteStmt(r)
        PROVE  /\ SameBuffers(pd, pd') /\ UNCHANGED dirty
               /\ r = "NEED_DATA" => \E i \in 1 .. NumParams :
                                       pd.records[i].ind[pd.paramset_idx] = SQL_DATA_AT_EXEC
    BY <2>1, <2>3, ExecutesOwnValues DEF SameBuffers
  <2>4. ASSUME NEW r, SingleExecuteStmt(r) PROVE AtExec => Begun(pd)'
    BY <2>1, <2>3, <2>4 DEF SameBuffers, Begun
  <2>5. CASE SingleExecuteStmt("STILL_EXECUTING") /\ LoopGoesOn
    <3>1. call' = "batch" /\ ~InDialog'
      BY <2>1, <2>5 DEF LoopGoesOn, InDialog
    <3> QED
      BY <2>1, <2>4, <2>5, <3>1 DEF AskInv, DataCompleteStep
  <2>6. CASE SingleExecuteStmt("NEED_DATA") /\ DialogOpens
    <3>1. call' = "idle" /\ dm' = "need_data"
      BY <2>6 DEF DialogOpens
    <3>2. /\ SameBuffers(pd, pd')
          /\ \E i \in 1 .. NumParams : pd.records[i].ind[pd.paramset_idx] = SQL_DATA_AT_EXEC
      BY <2>3, <2>6
    <3>3. PICK i \in 1 .. NumParams : pd.records[i].ind[pd.paramset_idx] = SQL_DATA_AT_EXEC
      BY <3>2
    <3>4. CareInv' /\ InDialog'
      BY <1>1, <2>1, <2>6, <3>1, ExecuteCare DEF InDialog
    <3>5. AtExec
      BY <3>4 DEF CareInv, DialogOK
    <3>6. /\ Supplied(pd) /\ Begun(pd) /\ Fresh(pd) /\ DOMAIN pd.records = 1 .. NumParams
          /\ pd.paramset_idx \in Sets /\ Sets \subseteq Nat
      BY <1>1, <2>1, <3>5, PDFields, SetsOK DEF CareInv, MayExecute, Supplied
    <3>7. ASSUME NEW j \in 1 .. NumParams PROVE Asks(pd.records[j])
      <4>1. Asking(pd.records[j]) /\ pd.records[j].ind_ptr
        BY <3>6 DEF Begun, Supplied
      <4>2. CASE NumParams = 1
        <5>1. i = j
          BY <4>2
        <5> QED
          BY <3>3, <3>6, <4>1, <5>1 DEF Asking, Asks, Uniform
      <4>3. CASE NumParams # 1
        BY <4>1, <4>3 DEF Asking
      <4> QED
        BY <4>2, <4>3
    <3>8. pd'.count = NumParams /\ pd'.cur_param_idx = 0 /\ pd'.cur_paramset_idx = 0 /\ pd'.records = pd.records
      BY <3>2, <3>6 DEF SameBuffers, Begun, Supplied, Fresh
    <3>9. \A j \in 1 .. NumParams : Asks(pd.records[j])' /\ Current(pd, pd.records[j])' /\ ~(j <= 0)
      <4>1. SUFFICES ASSUME NEW j \in 1 .. NumParams
                     PROVE  Asks(pd.records[j])' /\ Current(pd, pd.records[j])' /\ ~(j <= 0)
        OBVIOUS
      <4>2. \A t \in Sets : pd'.records[j].ind[t] = SQL_DATA_AT_EXEC /\ ~(t < 0)
        BY <3>6, <3>7, <3>8 DEF Asks
      <4>3. Asks(pd.records[j])'
        BY <4>2 DEF Asks
      <4>4. Current(pd, pd.records[j])'
        BY <3>8, <4>2 DEF Current, Answered
      <4> QED
        BY <4>3, <4>4
    <3>10. Progress(pd)'
      BY <3>8, <3>9 DEF Progress
    <3> QED
      BY <2>1, <2>4, <2>6, <3>1, <3>10 DEF AskInv, DataCompleteStep
  <2>7. ASSUME NEW r \in {"SUCCESS", "ERROR"}, SingleExecuteStmt(r), LoopEnds(r)
        PROVE  AskInv' /\ DataCompleteStep
    <3>1. call' = "idle" /\ ~InDialog'
      BY <2>7 DEF LoopEnds, InDialog
    <3> QED
      BY <2>1, <2>4, <2>7, <3>1 DEF AskInv, DataCompleteStep
  <2> QED
    BY <1>6, <2>2, <2>5, <2>6, <2>7 DEF BatchStep
<1>7. ASSUME NEW i \in 1 .. NumParams, NEW b \in Bindings, SQLBindParameter(i, b) \/ WriteIndicators(i, b)
      PROVE  AskInv' /\ DataCompleteStep
  <2>1. call' = "idle" /\ ~InDialog' /\ ~InDialog /\ dirty' = dirty
    BY <1>7 DEF SQLBindParameter, WriteIndicators, Configure, Calling, InDialog
  <2>2. Begun(pd) => Begun(pd')
    BY <1>1, <1>7, BindBegun
  <2> QED
    BY <1>3, <2>1, <2>2 DEF AskInv, Begun
<1>8. CASE (\E n \in ArraySizes : SetParamsetSize(n)) \/ (\E b \in BOOLEAN : SetStatusPtr(b))
  <2>1. call' = "idle" /\ ~InDialog' /\ ~InDialog /\ dirty' = dirty
    BY <1>8 DEF SetParamsetSize, SetStatusPtr, Configure, Calling, InDialog
  <2>2. SamePlace(pd, pd') /\ pd'.records = pd.records /\ pd'.count = pd.count
    BY <1>1, <1>8, AttributesOK
  <2> QED
    BY <1>3, <2>1, <2>2 DEF AskInv, Begun, SamePlace
<1>9. CASE ResetParameters
  <2>1. call' = "idle" /\ ~InDialog' /\ ~InDialog /\ pd' = Clear(pd)
    BY <1>9 DEF ResetParameters, Calling, InDialog
  <2>2. pd'.records = << >> /\ pd'.cur_param_idx = 0 /\ pd'.count = 0
    BY <1>1, <2>1, ClearOK
  <2>3. DOMAIN << >> = {} /\ Len(<< >>) = 0
    OBVIOUS
  <2> QED
    BY <1>3, <2>1, <2>2, <2>3 DEF Begun
<1>10. CASE CloseStmt
  <2>1. call' = "idle" /\ ~InDialog' /\ ~InDialog /\ (AtExec => dirty')
    BY <1>1, <1>10 DEF CloseStmt, Calling, InDialog, Careful
  <2> QED
    BY <1>3, <2>1
<1>11. CASE SQLCancel
  <2>1. call' = "idle" /\ ~InDialog' /\ dm' = "prepared" /\ UNCHANGED <<pd, dirty>>
    BY <1>11 DEF SQLCancel, InDialog
  <2> QED
    BY <1>3, <2>1 DEF AskInv, Begun
<1>12. CASE SQLFetch \/ SQLMoreResults
  <2>1. call = "idle" /\ MoreToCome /\ ~InDialog
    BY <1>12 DEF SQLFetch, SQLMoreResults, Calling, CursorOpen, MoreToCome
  <2>2. CASE UNCHANGED <<pd, res, dm, call, run, exec, dirty>>
    BY <1>2, <2>2
  <2>3. CASE /\ HasParamSetToProcess(pd)
             /\ StrayRead \/ \E r \in ReturnCodes : SingleExecuteStmt(r) /\ UNCHANGED <<call, dm>>
    <3>1. pd.paramset_idx < pd.array_size
      BY <2>3 DEF HasParamSetToProcess
    <3>2. ~StrayRead
      BY <2>1, <3>1, NextSetSupplied DEF StrayRead
    <3>3. PICK r \in ReturnCodes : SingleExecuteStmt(r) /\ UNCHANGED <<call, dm>>
      BY <2>3, <3>2
    <3>4. SameBuffers(pd, pd') /\ dirty' = dirty
      BY <2>1, <3>1, <3>3, ExecutesOwnValues DEF SameBuffers
    <3>5. ~InDialog' /\ call' = "idle"
      BY <2>1, <3>3 DEF InDialog
    <3> QED
      BY <1>3, <2>1, <3>4, <3>5 DEF AskInv, Begun, SameBuffers
  <2> QED
    BY <1>12, <2>2, <2>3 DEF SQLFetch, SQLMoreResults
<1> QED
  BY <1>2, <1>4, <1>5, <1>6, <1>7, <1>8, <1>9, <1>10, <1>11, <1>12, ParamDataAsks, PutAsks
  DEF Next, vars

\* The invariant holds at the start.
LEMMA AskInitOK == Init => AskInv
<1> SUFFICES ASSUME Init PROVE AskInv
  OBVIOUS
<1>1. /\ pd.records = << >> /\ pd.cur_param_idx = 0 /\ pd.count = 0
      /\ call = "idle" /\ dm = "allocated"
  BY DEF Init, NewDescriptor
<1>2. DOMAIN << >> = {} /\ Len(<< >>) = 0
  OBVIOUS
<1> QED
  BY <1>1, <1>2 DEF AskInv, Begun, InDialog

\* Once SQLParamData stops asking, no parameter of any set lacks its data, for every
\* application whose parameters all ask for it.
THEOREM DialogComplete == ASSUME AsksAll PROVE Spec => DataComplete
<1>1. Careful /\ Tidy
  BY DEF AsksAll, Careful, Tidy
<1>2. (Spec => []OrderInv) /\ (Spec => []CareInv) /\ (Spec => []NoStatusArray)
  BY <1>1, OrderInvariance, CareInvariance, NoStatusInvariance
<1>3. ParamInv /\ OrderInv /\ CareInv /\ NoStatusArray /\ AskInv /\ [Next]_vars => AskInv' /\ [DataCompleteStep]_vars
  BY AskNextOK
<1> QED
  BY AskInitOK, ParamInvariance, <1>2, <1>3, PTL DEF Spec, DataComplete
============================================================================
