-------------------------- MODULE ParamExecProofs --------------------------
(***************************************************************************)
(* Theorems about ParamExec, for any number of parameters and sets.        *)
(***************************************************************************)
EXTENDS ParamExec, SequenceTheorems, WellFoundedInduction, TLAPS

\* A record without indicators has no buffer of the pool and asks for nothing.
RecOK(r) ==
  /\ r \in RecordSet
  /\ ~r.ind_ptr => /\ r.data \in {"null", "app"} /\ r.type = "char"
                   /\ \A s \in Sets : r.ind[s] = 0

\* The descriptor: the dialog never comes to a record or an element that is not there.
PDOK(p) ==
  /\ p \in DescriptorSet
  /\ p.count <= Len(p.records) /\ Len(p.records) <= NumParams
  /\ \A i \in DOMAIN p.records : RecOK(p.records[i])
  /\ p.cur_paramset_idx \in Sets

USE ParamsAssumption, ParamSetsAssumption, ParamCallsAssumption, PiecesAssumption
    DEF SQL_NULL_DATA, SQL_DATA_AT_EXEC
----------------------------------------------------------------------------
(***************************************************************************)
(* The descriptor.                                                         *)
(***************************************************************************)
\* The elements of the application's arrays that a run can come to.
LEMMA SetsOK ==
  /\ 0 \in Sets /\ Sets \subseteq Nat
  /\ \A n \in ArraySizes \cup {1} : n \in Nat \ {0} /\ \A s \in Nat : s < n => s \in Sets
<1>1. PICK m \in ArraySizes : m \in Nat \ {0}
  OBVIOUS
<1>2. 0 \in 0 .. m - 1
  BY <1>1
<1>3. 0 \in Sets
  BY <1>1, <1>2 DEF Sets
<1>4. Sets \subseteq Nat
  BY DEF Sets
<1>5. ASSUME NEW n \in ArraySizes \cup {1}, NEW s \in Nat, s < n PROVE s \in Sets
  <2>1. CASE n = 1
    BY <1>3, <1>5, <2>1
  <2>2. CASE n \in ArraySizes
    <3>1. s \in 0 .. n - 1
      BY <1>5, <2>2
    <3> QED
      BY <2>2, <3>1 DEF Sets
  <2> QED
    BY <2>1, <2>2
<1> QED
  BY <1>3, <1>4, <1>5

\* A typed descriptor, field by field.
LEMMA PDFields ==
  ASSUME NEW p, PDOK(p)
  PROVE  /\ p.records \in Seq(RecordSet) /\ p.count \in Nat /\ p.array_size \in ArraySizes \cup {1}
         /\ p.array_size \in Nat \ {0} /\ p.status_ptr \in BOOLEAN /\ p.processed \in Nat
         /\ p.paramset_idx \in Nat /\ p.cur_paramset_idx \in Nat /\ p.cur_param_idx \in Nat
         /\ p.pool \in BOOLEAN /\ p.values \in Seq(Nat)
         /\ Len(p.records) \in Nat /\ DOMAIN p.records = 1 .. Len(p.records)
         /\ p \in DescriptorSet
<1>1. p \in DescriptorSet
  BY DEF PDOK
<1>2. /\ p.records \in Seq(RecordSet) /\ p.count \in Nat /\ p.array_size \in ArraySizes \cup {1}
      /\ p.status_ptr \in BOOLEAN /\ p.processed \in Nat
      /\ p.paramset_idx \in Nat /\ p.cur_paramset_idx \in Nat /\ p.cur_param_idx \in Nat
      /\ p.pool \in BOOLEAN /\ p.values \in Seq(Nat)
  BY <1>1 DEF DescriptorSet
<1>3. Len(p.records) \in Nat /\ DOMAIN p.records = 1 .. Len(p.records)
  BY <1>2
<1>4. p.array_size \in Nat \ {0}
  BY <1>2, SetsOK
<1> QED
  BY <1>1, <1>2, <1>3, <1>4

\* A record nobody bound is typed, and has no indicators.
LEMMA NoRecordOK == RecOK(NoRecord) /\ ~NoRecord.ind_ptr
<1>1. NoRecord \in RecordSet
  BY DEF NoRecord, RecordSet, Types
<1>2. /\ ~NoRecord.ind_ptr /\ NoRecord.data = "null" /\ NoRecord.type = "char"
      /\ NoRecord.ind = [s \in Sets |-> 0]
  BY DEF NoRecord
<1> QED
  BY <1>1, <1>2 DEF RecOK

\* The application's indicators are integers, one for each set.
LEMMA IndicatorsOK ==
  ASSUME NEW b \in AllBindings
  PROVE  Indicators(b) \in [Sets -> Int]
<1>1. SQL_LEN_DATA_AT_EXEC \in Int /\ SQL_NTS \in Int
  BY DEF SQL_LEN_DATA_AT_EXEC, SQL_NTS
<1> QED
  BY <1>1 DEF Indicators, AllBindings

\* SQLBindParameter leaves a typed record.
LEMMA BoundOK ==
  ASSUME NEW b \in AllBindings
  PROVE  /\ RecOK(Bound(b)) /\ Bound(b).ind_ptr = (b # "no_indicator")
         /\ Bound(b).data = (IF b = "null_token" THEN "null" ELSE "app")
         /\ Bound(b).ind = Indicators(b) /\ Bound(b).value = [s \in Sets |-> 0]
<1>1. NoRecord \in RecordSet /\ NoRecord.value = [s \in Sets |-> 0]
  BY NoRecordOK DEF RecOK, NoRecord
<1>2. Indicators(b) \in [Sets -> Int]
  BY IndicatorsOK
<1>3. /\ Bound(b).ind_ptr = (b # "no_indicator")
      /\ Bound(b).data = (IF b = "null_token" THEN "null" ELSE "app")
      /\ Bound(b).ind = Indicators(b) /\ Bound(b).value = [s \in Sets |-> 0]
  BY <1>1 DEF Bound, RecordSet
<1>4. Bound(b) \in RecordSet
  <2> DEFINE t == CASE b = "fixed_at_exec" -> "fixed"
                    [] b = "unsupported" -> "unsupported"
                    [] b \notin {"fixed_at_exec", "unsupported"} -> "char"
             d == IF b = "null_token" THEN "null" ELSE "app"
             c == (b # "no_indicator")
  <2>1. t \in Types /\ d \in {"null", "app", "pool", "freed"} /\ c \in BOOLEAN
    BY DEF Types
  <2>2. Bound(b) = [NoRecord EXCEPT !.type = t, !.data = d, !.ind_ptr = c, !.ind = Indicators(b)]
    BY DEF Bound
  <2> HIDE DEF t, d, c
  <2> QED
    BY <1>1, <1>2, <2>1, <2>2 DEF RecordSet
<1>5. b = "no_indicator" =>
        Bound(b).data = "app" /\ Bound(b).type = "char" /\ \A s \in Sets : Bound(b).ind[s] = 0
  <2>1. ASSUME b = "no_indicator" PROVE Bound(b).type = "char"
    BY <1>1, <2>1 DEF Bound, RecordSet
  <2>2. ASSUME b = "no_indicator", NEW s \in Sets PROVE Indicators(b)[s] = 0
    BY <2>2 DEF Indicators
  <2> QED
    BY <1>3, <2>1, <2>2
<1> QED
  BY <1>3, <1>4, <1>5 DEF RecOK

\* Other records, as good as those before and as many or more, make no difference.
LEMMA NewRecordsOK ==
  ASSUME NEW p, PDOK(p), NEW recs \in Seq(RecordSet), NEW q \in DescriptorSet,
         q.records = recs, Len(recs) <= NumParams, q.count <= Len(recs),
         \A i \in DOMAIN recs : RecOK(recs[i]),
         q.cur_paramset_idx \in {0, p.cur_paramset_idx}
  PROVE  PDOK(q)
BY SetsOK DEF PDOK

\* Freeing the pool leaves pointers into it, and everything else.
LEMMA FreePoolOK ==
  ASSUME NEW p, PDOK(p)
  PROVE  LET q == FreePool(p)
         IN  /\ PDOK(q) /\ Len(q.records) = Len(p.records)
             /\ q.count = p.count /\ q.array_size = p.array_size /\ q.status_ptr = p.status_ptr
             /\ q.processed = p.processed /\ q.paramset_idx = p.paramset_idx
             /\ q.cur_paramset_idx = p.cur_paramset_idx /\ q.cur_param_idx = p.cur_param_idx
             /\ q.values = p.values /\ q.pool = FALSE
             /\ \A i \in DOMAIN p.records :
                  /\ q.records[i].ind_ptr = p.records[i].ind_ptr /\ q.records[i].type = p.records[i].type
                  /\ q.records[i].ind = p.records[i].ind /\ q.records[i].value = p.records[i].value
                  /\ q.records[i].data = (IF p.records[i].data = "pool" THEN "freed" ELSE p.records[i].data)
<1> DEFINE q == FreePool(p)
           rec(i) == [p.records[i] EXCEPT !.data = IF @ = "pool" THEN "freed" ELSE @]
           recs == [i \in DOMAIN p.records |-> rec(i)]
<1>1. /\ p \in DescriptorSet /\ p.records \in Seq(RecordSet) /\ Len(p.records) \in Nat
      /\ DOMAIN p.records = 1 .. Len(p.records)
  BY PDFields
<1>2. ASSUME NEW i \in DOMAIN p.records
      PROVE  /\ rec(i) \in RecordSet /\ rec(i).ind_ptr = p.records[i].ind_ptr
             /\ rec(i).type = p.records[i].type /\ rec(i).ind = p.records[i].ind
             /\ rec(i).value = p.records[i].value
             /\ rec(i).data = (IF p.records[i].data = "pool" THEN "freed" ELSE p.records[i].data)
  <2>1. p.records[i] \in RecordSet
    BY <1>1
  <2> QED
    BY <2>1 DEF RecordSet
<1>3. ASSUME NEW i \in DOMAIN p.records PROVE RecOK(rec(i))
  <2>1. RecOK(p.records[i])
    BY DEF PDOK
  <2> HIDE DEF rec
  <2> QED
    BY <1>2, <2>1 DEF RecOK
<1> HIDE DEF rec
<1>4. /\ recs \in Seq(RecordSet) /\ Len(recs) = Len(p.records) /\ DOMAIN recs = DOMAIN p.records
      /\ \A i \in DOMAIN recs : recs[i] = rec(i)
  <2>1. recs \in [1 .. Len(p.records) -> RecordSet]
    BY <1>1, <1>2
  <2> QED
    BY <1>1, <2>1
<1>5. q = [p EXCEPT !.pool = FALSE, !.records = recs]
  BY DEF FreePool, rec
<1> HIDE DEF recs, q
<1>6. /\ q.records = recs
      /\ q.count = p.count /\ q.array_size = p.array_size /\ q.status_ptr = p.status_ptr
      /\ q.processed = p.processed /\ q.paramset_idx = p.paramset_idx
      /\ q.cur_paramset_idx = p.cur_paramset_idx /\ q.cur_param_idx = p.cur_param_idx
      /\ q.values = p.values /\ q.pool = FALSE
  BY <1>1, <1>5 DEF DescriptorSet
<1>7. q \in DescriptorSet
  BY <1>1, <1>4, <1>5 DEF DescriptorSet
<1>8. p.count <= Len(p.records) /\ Len(p.records) <= NumParams
  BY DEF PDOK
<1>9. PDOK(q)
  BY <1>3, <1>4, <1>6, <1>7, <1>8, NewRecordsOK
<1> QED
  BY <1>2, <1>4, <1>6, <1>9 DEF q

\* Reset and Clear go back to the first set; what is set by the application stays.
LEMMA ResetOK ==
  ASSUME NEW p, PDOK(p)
  PROVE  LET q == Reset(p)
         IN  /\ PDOK(q) /\ q.paramset_idx = 0 /\ q.cur_paramset_idx = 0 /\ q.cur_param_idx = 0
             /\ q.records = FreePool(p).records /\ q.count = 0 /\ q.array_size = p.array_size
             /\ q.status_ptr = p.status_ptr /\ q.values = p.values /\ q.pool = FALSE
<1> DEFINE f == FreePool(p)
           q == Reset(p)
<1>1. /\ PDOK(f) /\ f.array_size = p.array_size /\ f.status_ptr = p.status_ptr /\ f.values = p.values
      /\ f.pool = FALSE
  BY FreePoolOK
<1>2. q = [f EXCEPT !.count = 0, !.paramset_idx = 0, !.cur_paramset_idx = 0, !.cur_param_idx = 0]
  BY DEF Reset
<1> HIDE DEF f, q
<1>3. f \in DescriptorSet /\ f.records \in Seq(RecordSet) /\ Len(f.records) \in Nat
  BY <1>1, PDFields
<1>4. /\ q \in DescriptorSet /\ q.paramset_idx = 0 /\ q.cur_paramset_idx = 0 /\ q.cur_param_idx = 0
      /\ q.records = f.records /\ q.count = 0 /\ q.array_size = f.array_size
      /\ q.status_ptr = f.status_ptr /\ q.values = f.values /\ q.pool = f.pool
  BY <1>2, <1>3 DEF DescriptorSet
<1>5. PDOK(q)
  BY <1>1, <1>3, <1>4, NewRecordsOK DEF PDOK
<1> QED
  BY <1>1, <1>4, <1>5 DEF f, q

\* Clear is a Reset that drops the records too.
LEMMA ClearOK ==
  ASSUME NEW p, PDOK(p)
  PROVE  LET q == Clear(p)
         IN  PDOK(q) /\ q.paramset_idx = 0 /\ q.records = << >> /\ q.cur_paramset_idx = 0
             /\ q.cur_param_idx = 0 /\ q.count = 0 /\ q.pool = FALSE
             /\ q.status_ptr = p.status_ptr /\ q.array_size = p.array_size
<1> DEFINE f == Reset(p)
           q == Clear(p)
<1>1. /\ PDOK(f) /\ f.paramset_idx = 0 /\ f.cur_paramset_idx = 0 /\ f.cur_param_idx = 0 /\ f.count = 0
      /\ f.pool = FALSE /\ f.status_ptr = p.status_ptr /\ f.array_size = p.array_size
  BY ResetOK
<1>2. q = [f EXCEPT !.records = << >>]
  BY DEF Clear
<1> HIDE DEF f, q
<1>3. f \in DescriptorSet /\ << >> \in Seq(RecordSet) /\ Len(<< >>) = 0
  BY <1>1, PDFields
<1>4. /\ q \in DescriptorSet /\ q.paramset_idx = 0 /\ q.cur_paramset_idx = 0 /\ q.cur_param_idx = 0
      /\ q.records = << >> /\ q.count = 0 /\ q.pool = FALSE
      /\ q.status_ptr = p.status_ptr /\ q.array_size = p.array_size
  BY <1>1, <1>2, <1>3 DEF DescriptorSet
<1>5. PDOK(q)
  BY <1>3, <1>4, SetsOK DEF PDOK
<1> QED
  BY <1>4, <1>5 DEF q

\* Records are kept, dropped at the end, or added unbound.
LEMMA ResizedOK ==
  ASSUME NEW recs \in Seq(RecordSet), \A i \in DOMAIN recs : RecOK(recs[i]), NEW n \in Nat
  PROVE  LET q == Resized(recs, n)
         IN  /\ q \in Seq(RecordSet) /\ Len(q) = n /\ DOMAIN q = 1 .. n
             /\ \A i \in 1 .. n : RecOK(q[i]) /\ q[i] = IF i <= Len(recs) THEN recs[i] ELSE NoRecord
<1> DEFINE q == Resized(recs, n)
<1>1. \A i \in 1 .. n : q[i] = IF i <= Len(recs) THEN recs[i] ELSE NoRecord
  BY DEF Resized
<1>2. Len(recs) \in Nat /\ DOMAIN recs = 1 .. Len(recs)
  OBVIOUS
<1>3. ASSUME NEW i \in 1 .. n PROVE RecOK(q[i])
  BY <1>1, <1>2, NoRecordOK
<1>4. q = [i \in 1 .. n |-> q[i]]
  BY DEF Resized
<1> HIDE DEF q
<1>5. \A i \in 1 .. n : q[i] \in RecordSet
  BY <1>3 DEF RecOK
<1>6. q \in [1 .. n -> RecordSet]
  BY <1>4, <1>5
<1>7. q \in Seq(RecordSet) /\ Len(q) = n /\ DOMAIN q = 1 .. n
  BY <1>6
<1> QED
  BY <1>1, <1>3, <1>7 DEF q

\* ResetParams leaves one record per marker; the indexes stay where they are.
LEMMA ResetParamsOK ==
  ASSUME NEW p, PDOK(p)
  PROVE  LET q == ResetParams(p)
         IN  /\ PDOK(q) /\ q.paramset_idx = p.paramset_idx /\ q.array_size = p.array_size
             /\ q.cur_paramset_idx = p.cur_paramset_idx /\ q.cur_param_idx = p.cur_param_idx
             /\ q.records = Resized(FreePool(p).records, NumParams) /\ q.count = NumParams
             /\ q.pool = FALSE /\ q.status_ptr = p.status_ptr
<1> DEFINE f == FreePool(p)
           recs == Resized(f.records, NumParams)
           q == ResetParams(p)
<1>1. /\ PDOK(f) /\ f.paramset_idx = p.paramset_idx /\ f.array_size = p.array_size
      /\ f.cur_paramset_idx = p.cur_paramset_idx /\ f.cur_param_idx = p.cur_param_idx
      /\ f.pool = FALSE /\ f.status_ptr = p.status_ptr
  BY FreePoolOK
<1>2. q = [f EXCEPT !.records = recs, !.count = NumParams]
  BY DEF ResetParams
<1> HIDE DEF f, q
<1>3. f \in DescriptorSet /\ f.records \in Seq(RecordSet) /\ \A i \in DOMAIN f.records : RecOK(f.records[i])
  BY <1>1, PDFields DEF PDOK
<1>4. /\ recs \in Seq(RecordSet) /\ Len(recs) = NumParams /\ DOMAIN recs = 1 .. NumParams
      /\ \A i \in 1 .. NumParams : RecOK(recs[i])
  BY <1>3, ResizedOK
<1> HIDE DEF recs
<1>5. /\ q \in DescriptorSet /\ q.records = recs /\ q.count = NumParams
      /\ q.paramset_idx = f.paramset_idx /\ q.array_size = f.array_size
      /\ q.cur_paramset_idx = f.cur_paramset_idx /\ q.cur_param_idx = f.cur_param_idx
      /\ q.pool = f.pool /\ q.status_ptr = f.status_ptr
  BY <1>2, <1>3, <1>4 DEF DescriptorSet
<1>6. PDOK(q)
  BY <1>1, <1>4, <1>5, NewRecordsOK
<1> QED
  BY <1>1, <1>5, <1>6 DEF f, q, recs

\* GetDescRecord only adds records, so that there is an i-th one.
LEMMA GetDescRecordOK ==
  ASSUME NEW p, PDOK(p), NEW i \in 1 .. NumParams
  PROVE  LET q == GetDescRecord(p, i)
         IN  /\ PDOK(q) /\ q.paramset_idx = p.paramset_idx /\ q.array_size = p.array_size
             /\ q.cur_paramset_idx = p.cur_paramset_idx /\ q.cur_param_idx = p.cur_param_idx
             /\ i <= Len(q.records) /\ q.pool = p.pool /\ q.status_ptr = p.status_ptr
             /\ q = p \/ (Len(p.records) < i /\ q.records = Resized(p.records, i) /\ q.count = i)
<1> DEFINE recs == Resized(p.records, i)
           q == GetDescRecord(p, i)
<1>1. p \in DescriptorSet /\ p.records \in Seq(RecordSet) /\ \A j \in DOMAIN p.records : RecOK(p.records[j])
  BY PDFields DEF PDOK
<1>2. CASE i <= Len(p.records)
  BY <1>2 DEF GetDescRecord
<1>3. CASE ~(i <= Len(p.records))
  <2>1. q = [p EXCEPT !.records = recs, !.count = i]
    BY <1>3 DEF GetDescRecord
  <2>2. /\ recs \in Seq(RecordSet) /\ Len(recs) = i /\ DOMAIN recs = 1 .. i
        /\ \A j \in 1 .. i : RecOK(recs[j])
    BY <1>1, ResizedOK
  <2> HIDE DEF q, recs
  <2>3. /\ q \in DescriptorSet /\ q.records = recs /\ q.count = i
        /\ q.paramset_idx = p.paramset_idx /\ q.array_size = p.array_size
        /\ q.cur_paramset_idx = p.cur_paramset_idx /\ q.cur_param_idx = p.cur_param_idx
        /\ q.pool = p.pool /\ q.status_ptr = p.status_ptr
    <3>1. i \in Nat
      OBVIOUS
    <3> QED
      BY <1>1, <2>1, <2>2, <3>1 DEF DescriptorSet
  <2>4. PDOK(q)
    BY <2>2, <2>3, NewRecordsOK
  <2>5. Len(p.records) < i
    BY <1>1, <1>3
  <2> QED
    BY <2>2, <2>3, <2>4, <2>5 DEF q, recs
<1> QED
  BY <1>2, <1>3

\* Records are replaced by others.
LEMMA ReplaceRecordOK ==
  ASSUME NEW p, PDOK(p), NEW q \in DescriptorSet, Len(q.records) = Len(p.records),
         \A j \in DOMAIN p.records : RecOK(q.records[j]),
         q.count = p.count, q.cur_paramset_idx \in Sets
  PROVE  PDOK(q)
<1>1. p.records \in Seq(RecordSet) /\ q.records \in Seq(RecordSet)
  BY PDFields DEF DescriptorSet
<1>2. DOMAIN q.records = DOMAIN p.records
  BY <1>1
<1> QED
  BY <1>2 DEF PDOK
----------------------------------------------------------------------------
(***************************************************************************)
(* Reading a parameter set.                                                *)
(***************************************************************************)
\* Every nonempty set of natural numbers has a least element.
LEMMA LeastNat ==
  ASSUME NEW T, T \subseteq Nat, T # {}
  PROVE  \E m \in T : \A k \in T : m <= k
<1> DEFINE R == {x \in Nat \X Nat : x[1] < x[2]}
<1>1. R = OpToRel(<, Nat)
  BY DEF OpToRel
<1>2. IsWellFoundedOn(R, Nat)
  BY <1>1, NatLessThanWellFounded
<1>3. PICK m \in T : \A k \in T : ~ (<<k, m>> \in R)
  BY <1>2, WFMin
<1>4. ASSUME NEW k \in T PROVE m <= k
  <2>1. k \in Nat /\ m \in Nat /\ <<k, m>> \in Nat \X Nat
    OBVIOUS
  <2>2. ~(k < m)
    BY <1>3, <2>1
  <2> QED
    BY <2>1, <2>2
<1> QED
  BY <1>3, <1>4

\* The record GetParamValues stops at, or the one after the last.
First(stop, len) == CHOOSE i \in 1 .. len + 1 : i \in stop \cup {len + 1} /\ \A j \in stop : i <= j

\* The record that ends the loop of GetParamValues exists, and none before it does.
LEMMA FirstOK ==
  ASSUME NEW len \in Nat, NEW stop, stop \subseteq 1 .. len
  PROVE  /\ First(stop, len) \in 1 .. len + 1
         /\ First(stop, len) \in stop \cup {len + 1} /\ \A j \in stop : First(stop, len) <= j
         /\ stop = {} => First(stop, len) = len + 1
         /\ stop # {} => First(stop, len) \in stop
<1>1. \E i \in 1 .. len + 1 : i \in stop \cup {len + 1} /\ \A j \in stop : i <= j
  <2>1. CASE stop = {}
    <3>1. len + 1 \in 1 .. len + 1
      OBVIOUS
    <3> QED
      BY <2>1, <3>1
  <2>2. CASE stop # {}
    <3>1. stop \subseteq Nat
      OBVIOUS
    <3>2. PICK m \in stop : \A k \in stop : m <= k
      BY <2>2, <3>1, LeastNat
    <3>3. m \in 1 .. len + 1
      BY <3>2
    <3> QED
      BY <3>2, <3>3
  <2> QED
    BY <2>1, <2>2
<1>2. /\ First(stop, len) \in 1 .. len + 1
      /\ First(stop, len) \in stop \cup {len + 1} /\ \A j \in stop : First(stop, len) <= j
  BY <1>1 DEF First
<1>3. ASSUME NEW j \in stop PROVE First(stop, len) # len + 1
  <2>1. j \in 1 .. len /\ First(stop, len) <= j
    BY <1>2
  <2> QED
    BY <2>1
<1> QED
  BY <1>2, <1>3

\* Reading a record gives one of three codes.
LEMMA CodeOK ==
  ASSUME NEW r, RecOK(r), NEW s \in Sets
  PROVE  /\ SetValueCode(r, s) \in {"SUCCESS", "ERROR", "NEED_DATA"}
         /\ SetValueCode(r, s) = "NEED_DATA"
              <=> (r.data # "null" /\ r.ind_ptr /\ r.ind[s] \in AtExecIndicators)
<1> DEFINE x == r.ind[s]
<1>1. r.ind_ptr \in BOOLEAN /\ x \in Int
  BY DEF RecOK, RecordSet
<1>2. x \in AtExecIndicators => x # -1
  BY DEF AtExecIndicators, SQL_LEN_DATA_AT_EXEC
<1>3. SetValueCode(r, s) =
        CASE r.data = "null" /\ ~r.ind_ptr -> "ERROR"
          [] (r.data # "null" \/ r.ind_ptr) /\ ReadAsNull(r, s) -> "SUCCESS"
          [] ~ReadAsNull(r, s) /\ x \in AtExecIndicators -> "NEED_DATA"
          [] ~ReadAsNull(r, s) /\ x \notin AtExecIndicators ->
               IF r.type = "unsupported" THEN "ERROR" ELSE "SUCCESS"
  BY DEF SetValueCode
<1>4. ReadAsNull(r, s) <=> (r.data = "null" \/ ~r.ind_ptr \/ x = -1)
  BY DEF ReadAsNull
<1> HIDE DEF x
<1>5. /\ SetValueCode(r, s) \in {"SUCCESS", "ERROR", "NEED_DATA"}
      /\ SetValueCode(r, s) = "NEED_DATA" <=> (r.data # "null" /\ r.ind_ptr /\ x \in AtExecIndicators)
  <2>1. CASE ReadAsNull(r, s)
    BY <1>1, <1>2, <1>3, <1>4, <2>1
  <2>2. CASE ~ReadAsNull(r, s)
    BY <1>1, <1>2, <1>3, <1>4, <2>2
  <2> QED
    BY <2>1, <2>2
<1> QED
  BY <1>5 DEF x

\* Reading a record replaces at most one indicator, by a length.
LEMMA ReadRecordOK ==
  ASSUME NEW r, RecOK(r), NEW s \in Sets, run \in Nat
  PROVE  LET q == ReadRecord(r, s)
         IN  /\ RecOK(q) /\ q.type = r.type /\ q.data = r.data /\ q.ind_ptr = r.ind_ptr
             /\ r.ind[s] # SQL_NTS => q = r
<1> DEFINE q == ReadRecord(r, s)
           ind == [r.ind EXCEPT ![s] = ColumnSize]
           value == [r.value EXCEPT ![s] = run]
<1>1. r \in RecordSet /\ r.ind_ptr \in BOOLEAN
  BY DEF RecOK, RecordSet
<1>2. CASE q = r
  BY <1>2
<1>3. CASE q # r
  <2>1. /\ q = [r EXCEPT !.ind = ind, !.value = value]
        /\ ~ReadAsNull(r, s) /\ r.ind[s] = SQL_NTS
    BY <1>1, <1>3 DEF ReadRecord, RecordSet
  <2>2. ind \in [Sets -> Int] /\ value \in [Sets -> Nat]
    BY <1>1 DEF RecordSet
  <2>3. r.ind_ptr
    BY <2>1 DEF ReadAsNull
  <2> HIDE DEF q, ind, value
  <2>4. q \in RecordSet /\ q.type = r.type /\ q.data = r.data /\ q.ind_ptr = r.ind_ptr
    BY <1>1, <2>1, <2>2 DEF RecordSet
  <2> QED
    BY <2>1, <2>3, <2>4 DEF RecOK, q
<1> QED
  BY <1>2, <1>3

\* The values read are numbers of runs: of the record, or left from before.
LEMMA ReadValuesOK ==
  ASSUME NEW p, PDOK(p), run \in Nat, NEW s \in Sets,
         CanRead(p, s, First(Ends(p, s), Len(p.records)))
  PROVE  LET n == First(Ends(p, s), Len(p.records))
             v == ReadValues(p, s, n)
         IN  /\ v \in Seq(Nat) /\ n - 1 <= Len(v) /\ n \in 1 .. Len(p.records) + 1
             /\ \A i \in 1 .. n - 1 :
                  v[i] = IF SetValueCode(p.records[i], s) = "SUCCESS"
                           THEN ValueRead(p.records[i], s) ELSE p.values[i]
<1> DEFINE stop == Ends(p, s)
           n == First(stop, Len(p.records))
           v == ReadValues(p, s, n)
           m == IF Len(p.values) < n THEN n - 1 ELSE Len(p.values)
           e(i) == IF i < n /\ SetValueCode(p.records[i], s) = "SUCCESS"
                     THEN ValueRead(p.records[i], s) ELSE p.values[i]
<1>1. /\ Len(p.records) \in Nat /\ DOMAIN p.records = 1 .. Len(p.records) /\ p.values \in Seq(Nat)
      /\ p.records \in Seq(RecordSet)
  BY PDFields
<1>2. stop \subseteq 1 .. Len(p.records)
  BY <1>1 DEF Ends
<1>3. /\ n \in 1 .. Len(p.records) + 1 /\ \A j \in stop : n <= j
  BY <1>1, <1>2, FirstOK
<1>4. Len(p.values) \in Nat /\ DOMAIN p.values = 1 .. Len(p.values) /\ n \in Nat /\ m \in Nat
      /\ n - 1 <= m
  BY <1>1, <1>3
<1>5. \A i \in 1 .. n - 1 : SetValueCode(p.records[i], s) = "ERROR" => i <= Len(p.values)
  BY DEF CanRead
<1>6. v = [i \in 1 .. m |-> e(i)]
  BY DEF ReadValues
<1> HIDE DEF n, v, m
<1>7. ASSUME NEW i \in 1 .. m PROVE e(i) \in Nat
  <2>1. CASE i < n /\ SetValueCode(p.records[i], s) = "SUCCESS"
    <3>1. p.records[i] \in RecordSet
      BY <1>1, <1>3, <1>4, <2>1
    <3>2. p.records[i].value[s] \in Nat
      BY <3>1 DEF RecordSet
    <3>3. ValueRead(p.records[i], s) \in Nat
      BY <3>2 DEF ValueRead
    <3> QED
      BY <2>1, <3>3
  <2>2. CASE i < n /\ SetValueCode(p.records[i], s) # "SUCCESS"
    <3>1. i \in DOMAIN p.records /\ i \in 1 .. n - 1
      BY <1>1, <1>3, <1>4, <2>2
    <3>2. i \notin stop
      BY <1>3, <1>4, <2>2
    <3>3. RecOK(p.records[i])
      BY <3>1 DEF PDOK
    <3>4. SetValueCode(p.records[i], s) = "ERROR"
      BY <2>2, <3>1, <3>2, <3>3, CodeOK DEF Ends
    <3>5. i \in DOMAIN p.values
      BY <1>4, <1>5, <3>1, <3>4
    <3> QED
      BY <1>1, <2>2, <3>5
  <2>3. CASE ~(i < n)
    <3>1. i \in DOMAIN p.values
      BY <1>4, <2>3 DEF m
    <3> QED
      BY <1>1, <2>3, <3>1
  <2> QED
    BY <2>1, <2>2, <2>3
<1>8. v \in [1 .. m -> Nat]
  BY <1>6, <1>7
<1>9. v \in Seq(Nat) /\ Len(v) = m
  BY <1>4, <1>8
<1>10. ASSUME NEW i \in 1 .. n - 1 PROVE v[i] = e(i) /\ i < n
  BY <1>4, <1>6
<1> QED
  BY <1>3, <1>4, <1>9, <1>10 DEF v, n

\* What GetParamValues can return: no parameters; undefined; values missing or in error,
\* with the set to be read again; or the values of the set, and the next set.
SetStays(p, g) ==
  /\ g.ret \in {"NEED_DATA", "ERROR"}
  /\ g.p.paramset_idx = p.paramset_idx /\ g.p.processed = p.processed
SetRead(p, g) ==
  /\ g.ret = (IF p.paramset_idx + 1 = p.array_size THEN "SUCCESS" ELSE "STILL_EXECUTING")
  /\ g.p.paramset_idx = p.paramset_idx + 1 /\ g.p.processed = p.paramset_idx + 1
\* The records stay, but for the length that replaces SQL_NTS.
Reread(p, q) ==
  /\ Len(q.records) = Len(p.records)
  /\ \A i \in DOMAIN p.records :
       q.records[i] = p.records[i] \/ q.records[i] = ReadRecord(p.records[i], p.paramset_idx)
SameDialog(p, q) ==
  /\ q.array_size = p.array_size /\ q.count = p.count
  /\ q.cur_param_idx = p.cur_param_idx /\ q.cur_paramset_idx = p.cur_paramset_idx
  /\ q.status_ptr = p.status_ptr /\ q.pool = p.pool
Outcome(p, g) ==
  /\ g.vals \in Seq(Nat)
  /\ \/ p.records = << >> /\ g.ret = "SUCCESS" /\ g.p = p /\ g.vals = << >>
     \/ ~g.ok
     \/ /\ p.records # << >>
        /\ PDOK(g.p) /\ Reread(p, g.p) /\ SameDialog(p, g.p)
        /\ SetStays(p, g) \/ SetRead(p, g)

\* SetParamIndex moves the set to execute, and nothing else but the count of processed sets.
LEMMA SetParamIndexOK ==
  ASSUME NEW p, PDOK(p)
  PROVE  LET next == SetParamIndex(p)
         IN  /\ PDOK(next.p) /\ next.p.records = p.records /\ SameDialog(p, next.p)
             /\ next.p.paramset_idx = p.paramset_idx + 1 /\ next.p.processed = p.paramset_idx + 1
             /\ next.ret = (IF p.paramset_idx + 1 = p.array_size THEN "SUCCESS" ELSE "STILL_EXECUTING")
<1> DEFINE s == p.paramset_idx + 1
           q == [p EXCEPT !.paramset_idx = s, !.processed = s]
           next == SetParamIndex(p)
<1>1. p \in DescriptorSet /\ s \in Nat
  BY PDFields
<1>2. /\ next.p = q
      /\ next.ret = IF p.paramset_idx + 1 = p.array_size THEN "SUCCESS" ELSE "STILL_EXECUTING"
  BY DEF SetParamIndex
<1> HIDE DEF s
<1>3. /\ q \in DescriptorSet /\ q.records = p.records /\ SameDialog(p, q)
      /\ q.paramset_idx = s /\ q.processed = s
  <2>1. q \in DescriptorSet
    BY <1>1 DEF DescriptorSet
  <2> QED
    BY <1>1, <2>1 DEF DescriptorSet, SameDialog
<1> HIDE DEF q
<1>4. PDOK(q)
  BY <1>3 DEF PDOK, SameDialog
<1> QED
  BY <1>2, <1>3, <1>4 DEF s

\* GetParamValues: what it returns is typed, and the set index moves by one exactly
\* when a set was read to its end.
LEMMA GetParamValuesOK ==
  ASSUME NEW p, PDOK(p), run \in Nat
  PROVE  Outcome(p, GetParamValues(p))
<1> DEFINE s == p.paramset_idx
           stop == Ends(p, s)
           n == First(stop, Len(p.records))
           v == ReadValues(p, s, n)
           rec(i) == IF i < n THEN ReadRecord(p.records[i], s) ELSE p.records[i]
           recs == [i \in DOMAIN p.records |-> rec(i)]
           read == [p EXCEPT !.values = v, !.records = recs]
           next == SetParamIndex(read)
           g == GetParamValues(p)
<1>1. p \in DescriptorSet /\ s \in Nat /\ p.array_size \in ArraySizes \cup {1} /\ Len(p.records) \in Nat
      /\ DOMAIN p.records = 1 .. Len(p.records) /\ p.array_size \in Nat
  BY PDFields
<1>2. g = IF p.records = << >> THEN [p |-> p, ret |-> "SUCCESS", vals |-> << >>, ok |-> TRUE]
          ELSE IF s >= p.array_size \/ ~CanRead(p, s, n)
                 THEN [p |-> p, ret |-> "ERROR", vals |-> << >>, ok |-> FALSE]
          ELSE IF stop # {}
                 THEN [p |-> read, ret |-> SetValueCode(p.records[n], s), vals |-> << >>, ok |-> TRUE]
          ELSE [p |-> next.p, ret |-> next.ret, vals |-> SubSeq(read.values, 1, n - 1), ok |-> TRUE]
  BY DEF GetParamValues, First
<1> HIDE DEF g
<1>3. << >> \in Seq(Nat)
  OBVIOUS
<1>4. CASE p.records = << >>
  <2>1. g.ret = "SUCCESS" /\ g.p = p /\ g.vals = << >>
    BY <1>2, <1>4
  <2> QED
    BY <1>3, <1>4, <2>1 DEF Outcome, g
<1>5. CASE p.records # << >> /\ (s >= p.array_size \/ ~CanRead(p, s, n))
  <2>1. ~g.ok /\ g.vals = << >>
    BY <1>2, <1>5
  <2> QED
    BY <1>3, <2>1 DEF Outcome, g
<1>6. CASE p.records # << >> /\ s < p.array_size /\ CanRead(p, s, n)
  <2>1. s \in Sets
    BY <1>1, <1>6, SetsOK
  <2>2. v \in Seq(Nat) /\ n - 1 <= Len(v) /\ n \in 1 .. Len(p.records) + 1
    BY <1>6, <2>1, ReadValuesOK
  <2>3. /\ PDOK(read) /\ Reread(p, read) /\ SameDialog(p, read) /\ read.values = v
        /\ read.paramset_idx = s /\ read.processed = p.processed
    <3> HIDE DEF v, n, s
    <3>1. ASSUME NEW i \in DOMAIN p.records PROVE RecOK(rec(i)) /\ rec(i) \in RecordSet
      <4>1. RecOK(p.records[i])
        BY DEF PDOK
      <4>2. RecOK(ReadRecord(p.records[i], s))
        BY <2>1, <4>1, ReadRecordOK
      <4> QED
        BY <4>1, <4>2 DEF RecOK
    <3>2. \A i \in DOMAIN p.records : rec(i) = p.records[i] \/ rec(i) = ReadRecord(p.records[i], s)
      OBVIOUS
    <3> HIDE DEF rec
    <3>3. recs \in [1 .. Len(p.records) -> RecordSet]
      BY <1>1, <3>1
    <3>4. recs \in Seq(RecordSet) /\ Len(recs) = Len(p.records) /\ DOMAIN recs = DOMAIN p.records
      BY <1>1, <3>3
    <3>5. \A i \in DOMAIN p.records : recs[i] = rec(i)
      OBVIOUS
    <3> HIDE DEF recs
    <3>6. /\ read \in DescriptorSet /\ read.values = v /\ read.records = recs
          /\ read.paramset_idx = p.paramset_idx /\ read.processed = p.processed
          /\ SameDialog(p, read)
      BY <1>1, <2>2, <3>4 DEF DescriptorSet, SameDialog
    <3> HIDE DEF read
    <3>7. PDOK(read)
      <4>1. \A i \in DOMAIN p.records : RecOK(read.records[i])
        BY <3>1, <3>5, <3>6
      <4>2. read.cur_paramset_idx \in Sets /\ read.count = p.count
        BY <3>6 DEF PDOK, SameDialog
      <4> QED
        BY <3>4, <3>6, <4>1, <4>2, ReplaceRecordOK
    <3>8. Reread(p, read)
      BY <3>2, <3>4, <3>5, <3>6 DEF Reread, s
    <3> QED
      BY <3>6, <3>7, <3>8 DEF s
  <2>4. ~(s >= p.array_size)
    BY <1>1, <1>6
  <2>5. CASE stop # {}
    <3>1. g = [p |-> read, ret |-> SetValueCode(p.records[n], s), vals |-> << >>, ok |-> TRUE]
      BY <1>2, <1>6, <2>4, <2>5
    <3>2. n \in stop
      <4>1. stop \subseteq 1 .. Len(p.records)
        BY <1>1 DEF Ends
      <4> QED
        BY <1>1, <2>5, <4>1, FirstOK
    <3>3. SetValueCode(p.records[n], s) \in {"NEED_DATA", "ERROR"}
      BY <3>2 DEF Ends
    <3> HIDE DEF read, n, stop, v
    <3>5. g.p = read /\ g.ret \in {"NEED_DATA", "ERROR"} /\ g.vals = << >>
      BY <3>1, <3>3
    <3>6. Outcome(p, g)
      BY <1>3, <1>6, <2>3, <3>5 DEF Outcome, SetStays
    <3> QED
      BY <3>6 DEF g
  <2>6. CASE stop = {}
    <3>1. g = [p |-> next.p, ret |-> next.ret, vals |-> SubSeq(read.values, 1, n - 1), ok |-> TRUE]
      BY <1>2, <1>6, <2>4, <2>6
    <3> HIDE DEF read, v, n, stop
    <3>2. /\ PDOK(next.p) /\ next.p.records = read.records /\ SameDialog(read, next.p)
          /\ next.p.paramset_idx = s + 1 /\ next.p.processed = s + 1
          /\ next.ret = (IF s + 1 = p.array_size THEN "SUCCESS" ELSE "STILL_EXECUTING")
      BY <2>3, SetParamIndexOK DEF SameDialog
    <3> HIDE DEF next
    <3>3. Reread(p, next.p) /\ SameDialog(p, next.p)
      BY <2>3, <3>2 DEF Reread, SameDialog
    <3>5. SubSeq(v, 1, n - 1) \in Seq(Nat)
      BY <2>2, SubSeqProperties
    <3>6. g.p = next.p /\ g.vals \in Seq(Nat) /\ g.ret = next.ret
      BY <2>3, <3>1, <3>5
    <3>7. Outcome(p, g)
      BY <1>6, <3>2, <3>3, <3>6 DEF Outcome, SetRead
    <3> QED
      BY <3>7 DEF g
  <2> QED
    BY <2>5, <2>6
<1> QED
  BY <1>1, <1>4, <1>5, <1>6

\* Past the arrays as well, where anything may be read, the outcome is typed.
LEMMA ReadPastOK ==
  ASSUME NEW p, PDOK(p), PastArrays(p), NEW g \in ReadPast(p)
  PROVE  Outcome(p, g)
<1> DEFINE len == Len(p.records)
           v(n) == [i \in 1 .. (IF Len(p.values) < n THEN n - 1 ELSE Len(p.values)) |->
                      IF i < n THEN 0 ELSE p.values[i]]
           Read(n) == [p EXCEPT !.values = v(n)]
           next == SetParamIndex(Read(len + 1))
           zeros == [i \in 1 .. len |-> 0]
<1>1. p \in DescriptorSet /\ len \in Nat /\ p.values \in Seq(Nat)
  BY PDFields
<1>2. ASSUME NEW n \in Nat \ {0} PROVE v(n) \in Seq(Nat)
  <2> DEFINE m == IF Len(p.values) < n THEN n - 1 ELSE Len(p.values)
  <2>1. Len(p.values) \in Nat /\ DOMAIN p.values = 1 .. Len(p.values) /\ m \in Nat
    BY <1>1
  <2>2. ASSUME NEW i \in 1 .. m, ~(i < n) PROVE p.values[i] \in Nat
    BY <1>1, <2>1, <2>2
  <2>3. v(n) = [i \in 1 .. m |-> IF i < n THEN 0 ELSE p.values[i]]
    OBVIOUS
  <2> HIDE DEF m
  <2>4. v(n) \in [1 .. m -> Nat]
    BY <2>2, <2>3
  <2> HIDE DEF v
  <2> QED
    BY <2>1, <2>4
<1> HIDE DEF v
<1>3. ASSUME NEW n \in Nat \ {0}
      PROVE  /\ PDOK(Read(n)) /\ Read(n).records = p.records /\ SameDialog(p, Read(n))
             /\ Read(n).paramset_idx = p.paramset_idx /\ Read(n).processed = p.processed
  <2> DEFINE q == Read(n)
  <2>1. v(n) \in Seq(Nat)
    BY <1>2
  <2>2. /\ q \in DescriptorSet /\ q.records = p.records /\ SameDialog(p, q)
        /\ q.paramset_idx = p.paramset_idx /\ q.processed = p.processed
    BY <1>1, <2>1 DEF DescriptorSet, SameDialog
  <2> HIDE DEF q
  <2>3. PDOK(q)
    BY <2>2 DEF PDOK, SameDialog
  <2> QED
    BY <2>2, <2>3 DEF q
<1>4. g \in {[p |-> Read(n), ret |-> r, vals |-> << >>, ok |-> TRUE] :
               n \in 1 .. len, r \in {"NEED_DATA", "ERROR"}}
           \cup {[p |-> next.p, ret |-> next.ret, vals |-> zeros, ok |-> TRUE]}
  BY DEF ReadPast, v
<1> HIDE DEF Read
<1>5. << >> \in Seq(Nat) /\ zeros \in Seq(Nat)
  BY <1>1
<1>6. CASE \E n \in 1 .. len, r \in {"NEED_DATA", "ERROR"} :
             g = [p |-> Read(n), ret |-> r, vals |-> << >>, ok |-> TRUE]
  <2>1. PICK n \in 1 .. len, r \in {"NEED_DATA", "ERROR"} :
          g = [p |-> Read(n), ret |-> r, vals |-> << >>, ok |-> TRUE]
    BY <1>6
  <2>2. n \in Nat \ {0}
    BY <1>1
  <2>3. g.p = Read(n) /\ g.ret \in {"NEED_DATA", "ERROR"} /\ g.vals = << >>
    BY <2>1
  <2>4. /\ PDOK(g.p) /\ g.p.records = p.records /\ SameDialog(p, g.p)
        /\ g.p.paramset_idx = p.paramset_idx /\ g.p.processed = p.processed
    BY <1>3, <2>2, <2>3
  <2> QED
    BY <1>5, <2>3, <2>4 DEF Outcome, SetStays, Reread
<1>7. CASE g = [p |-> next.p, ret |-> next.ret, vals |-> zeros, ok |-> TRUE]
  <2>1. g.p = next.p /\ g.ret = next.ret /\ g.vals = zeros
    BY <1>7
  <2>2. len + 1 \in Nat \ {0}
    BY <1>1
  <2>3. /\ PDOK(next.p) /\ next.p.records = p.records /\ SameDialog(p, next.p)
        /\ next.p.paramset_idx = p.paramset_idx + 1 /\ next.p.processed = p.paramset_idx + 1
        /\ next.ret = (IF p.paramset_idx + 1 = p.array_size THEN "SUCCESS" ELSE "STILL_EXECUTING")
    <3>1. /\ PDOK(Read(len + 1)) /\ Read(len + 1).records = p.records
          /\ SameDialog(p, Read(len + 1)) /\ Read(len + 1).paramset_idx = p.paramset_idx
      BY <1>3, <2>2
    <3> HIDE DEF len
    <3> QED
      BY <3>1, SetParamIndexOK DEF SameDialog
  <2> HIDE DEF next, zeros
  <2> QED
    BY <1>5, <2>1, <2>3 DEF Outcome, SetRead, Reread, PastArrays
<1> QED
  BY <1>4, <1>6, <1>7
----------------------------------------------------------------------------
(***************************************************************************)
(* The dialog.                                                             *)
(***************************************************************************)
\* GetNextParam only counts the parameter it looked at.
LEMMA GetNextParamOK ==
  ASSUME NEW p, PDOK(p)
  PROVE  LET g == GetNextParam(p)
         IN  /\ PDOK(g.p) /\ g.p.paramset_idx = p.paramset_idx /\ g.p.records = p.records
             /\ g.p.array_size = p.array_size /\ g.p.cur_param_idx = p.cur_param_idx
             /\ g.p.cur_paramset_idx = p.cur_paramset_idx /\ g.p.count = p.count
             /\ g.p.status_ptr = p.status_ptr /\ g.p.pool = p.pool
             /\ g.ret \in {"NO_DATA", "NEED_DATA", "SUCCESS"}
<1> DEFINE g == GetNextParam(p)
           q == [p EXCEPT !.processed = @ + 1]
<1>1. p \in DescriptorSet /\ p.processed \in Nat /\ p.cur_param_idx \in Nat /\ p.count \in Nat
  BY PDFields
<1>2. /\ q \in DescriptorSet /\ q.records = p.records /\ q.paramset_idx = p.paramset_idx
      /\ q.array_size = p.array_size /\ q.cur_param_idx = p.cur_param_idx
      /\ q.cur_paramset_idx = p.cur_paramset_idx /\ q.count = p.count
      /\ q.status_ptr = p.status_ptr /\ q.pool = p.pool
  <2>1. p.processed + 1 \in Nat
    BY <1>1
  <2>2. q \in DescriptorSet
    BY <1>1, <2>1 DEF DescriptorSet
  <2> QED
    BY <1>1, <2>2 DEF DescriptorSet
<1>3. \/ g.p = p /\ g.ret = "NO_DATA"
      \/ g.p = q /\ g.ret \in {"NEED_DATA", "SUCCESS"}
  BY DEF GetNextParam
<1> HIDE DEF g, q
<1>4. PDOK(q)
  BY <1>2 DEF PDOK
<1> QED
  BY <1>2, <1>3, <1>4 DEF g

\* A piece goes to a record that has an indicator; the others stay, and so does the set.
PutStep(p, q) ==
  /\ PDOK(q) /\ q.paramset_idx = p.paramset_idx /\ q.array_size = p.array_size /\ q.count = p.count
  /\ q.status_ptr = p.status_ptr
  /\ p.cur_param_idx + 1 \in DOMAIN p.records /\ p.records[p.cur_param_idx + 1].ind_ptr
  /\ \E r \in RecordSet : q.records = [p.records EXCEPT ![p.cur_param_idx + 1] = r]

\* PutData changes the record the dialog has come to and moves on to the next one
\* or the next set; the set to execute stays.
LEMMA PutDataOK ==
  ASSUME NEW p, PDOK(p), run \in Nat, NEW len \in (Nat \ {0}) \cup {SQL_NULL_DATA},
         p.cur_param_idx < p.count, CanPut(p, len)
  PROVE  PutStep(p, PutData(p, len))
<1> DEFINE i == p.cur_param_idx + 1
           s == p.cur_paramset_idx
           r == p.records[i]
           q == PutData(p, len)
<1>1. /\ p \in DescriptorSet /\ p.cur_param_idx \in Nat /\ p.count \in Nat /\ s \in Nat /\ s \in Sets
      /\ p.array_size \in ArraySizes \cup {1} /\ p.array_size \in Nat \ {0}
      /\ p.records \in Seq(RecordSet) /\ p.pool \in BOOLEAN
  BY PDFields DEF PDOK
<1>2. i \in DOMAIN p.records /\ i + 1 \in Nat /\ i \in Nat
  BY <1>1 DEF PDOK
<1>3. RecOK(r) /\ r \in RecordSet /\ r.ind_ptr \in BOOLEAN
  <2>1. RecOK(r)
    BY <1>2 DEF PDOK
  <2>2. r \in RecordSet
    BY <2>1 DEF RecOK
  <2> QED
    BY <2>1, <2>2 DEF RecordSet
<1>4. r.ind_ptr
  BY <1>1, <1>3 DEF CanPut, RecOK
<1>5. 0 \in Sets /\ r.ind \in [Sets -> Int] /\ r.value \in [Sets -> Nat]
  BY <1>3, SetsOK DEF RecordSet
<1> HIDE DEF i, s, q
<1>7. ASSUME NEW new, RecOK(new), NEW b \in BOOLEAN, NEW c \in Sets, NEW k \in Nat,
             q = [p EXCEPT !.pool = b, !.records = [p.records EXCEPT ![i] = new],
                           !.cur_paramset_idx = c, !.cur_param_idx = k]
      PROVE  PutStep(p, q)
  <2>1. /\ PDOK(q) /\ q.paramset_idx = p.paramset_idx /\ q.array_size = p.array_size
        /\ q.count = p.count /\ q.records = [p.records EXCEPT ![i] = new]
        /\ q.status_ptr = p.status_ptr
    <3> DEFINE recs == [p.records EXCEPT ![i] = new]
    <3>1. /\ recs \in Seq(RecordSet) /\ Len(recs) = Len(p.records)
          /\ \A j \in DOMAIN p.records : RecOK(recs[j])
      <4>1. new \in RecordSet
        BY <1>7 DEF RecOK
      <4>2. \A j \in DOMAIN p.records : RecOK(p.records[j])
        BY DEF PDOK
      <4> QED
        BY SMTT(30), <1>1, <1>2, <1>7, <4>1, <4>2
    <3>2. q = [p EXCEPT !.pool = b, !.records = recs, !.cur_paramset_idx = c, !.cur_param_idx = k]
      BY <1>7
    <3>3. c \in Nat
      BY SetsOK
    <3> HIDE DEF recs
    <3>4. /\ q.paramset_idx = p.paramset_idx /\ q.array_size = p.array_size
          /\ q.count = p.count /\ q.records = recs /\ q.status_ptr = p.status_ptr
          /\ q.cur_paramset_idx = c
      BY <1>1, <3>2 DEF DescriptorSet
    <3>5. q \in DescriptorSet
      BY <1>1, <3>1, <3>2, <3>3 DEF DescriptorSet
    <3>6. PDOK(q)
      BY <3>1, <3>4, <3>5, ReplaceRecordOK
    <3> QED
      BY <3>4, <3>6 DEF recs
  <2>2. new \in RecordSet
    BY <1>7 DEF RecOK
  <2> QED
    BY <1>2, <1>4, <2>1, <2>2 DEF PutStep, i
<1>8. ASSUME NEW d \in {r.data, "app", "pool"}, NEW t \in Sets, NEW x \in Int, NEW w \in Nat
      PROVE  LET new == [r EXCEPT !.data = d, !.ind = [r.ind EXCEPT ![t] = x],
                                  !.value = [r.value EXCEPT ![t] = w]]
             IN  RecOK(new)
  <2> DEFINE new == [r EXCEPT !.data = d, !.ind = [r.ind EXCEPT ![t] = x],
                              !.value = [r.value EXCEPT ![t] = w]]
  <2>1. [r.ind EXCEPT ![t] = x] \in [Sets -> Int]
    BY <1>5, <1>8
  <2>2. [r.value EXCEPT ![t] = w] \in [Sets -> Nat]
    BY <1>5
  <2>3. d \in {"null", "app", "pool", "freed"}
    BY <1>3 DEF RecordSet
  <2>4. new.ind_ptr
    BY <1>3, <1>4 DEF RecordSet
  <2>5. new \in RecordSet
    BY <1>3, <2>1, <2>2, <2>3 DEF RecordSet
  <2> HIDE DEF new
  <2>6. RecOK(new)
    BY <2>4, <2>5 DEF RecOK
  <2> QED
    BY <2>6 DEF new
<1>9. ColumnSize \in Nat
  OBVIOUS
<1>10. CASE r.type = "fixed"
  <2>1. CASE len = SQL_NULL_DATA
    <3> DEFINE new == [r EXCEPT !.data = r.data, !.ind = [r.ind EXCEPT ![0] = -1],
                                !.value = [r.value EXCEPT ![0] = r.value[0]]]
    <3>1. RecOK(new)
      <4>1. r.value[0] \in Nat /\ -1 \in Int /\ r.data \in {r.data, "app", "pool"}
        BY <1>5
      <4> QED
        BY <1>5, <1>8, <4>1
    <3>2. new = [r EXCEPT !.ind = [r.ind EXCEPT ![0] = -1]]
      BY <1>3, <1>5 DEF RecordSet
    <3>3. q = [p EXCEPT !.cur_param_idx = @ + 1, !.records[i].ind[0] = -1]
      BY <1>1, <1>10, <2>1 DEF q, i, PutData
    <3>4. [p EXCEPT !.cur_param_idx = @ + 1, !.records[i].ind[0] = -1]
          = [p EXCEPT !.cur_param_idx = i,
                      !.records = [p.records EXCEPT ![i] = [r EXCEPT !.ind = [r.ind EXCEPT ![0] = -1]]]]
      BY <1>1, <1>2, <1>3, <1>5 DEF DescriptorSet, RecordSet, i
    <3> HIDE DEF new
    <3>5. q = [p EXCEPT !.cur_param_idx = i, !.records = [p.records EXCEPT ![i] = new]]
      BY <3>2, <3>3, <3>4
    <3>6. q = [p EXCEPT !.pool = p.pool, !.records = [p.records EXCEPT ![i] = new],
                        !.cur_paramset_idx = s, !.cur_param_idx = i]
      BY <1>1, <3>5 DEF DescriptorSet, s
    <3> QED
      BY <1>1, <1>2, <1>7, <3>1, <3>6 DEF q
  <2>2. CASE len # SQL_NULL_DATA
    <3> DEFINE new == [r EXCEPT !.data = "app", !.ind = [r.ind EXCEPT ![0] = r.ind[0]],
                                !.value = [r.value EXCEPT ![0] = r.value[0]]]
    <3>1. RecOK(new)
      <4>1. r.value[0] \in Nat /\ r.ind[0] \in Int
        BY <1>5
      <4> QED
        BY <1>5, <1>8, <4>1
    <3>2. new = [r EXCEPT !.data = "app"]
      BY <1>3, <1>5 DEF RecordSet
    <3>3. q = [p EXCEPT !.cur_param_idx = @ + 1, !.records[i].data = "app"]
      BY <1>1, <1>10, <2>2 DEF q, i, PutData
    <3>4. [p EXCEPT !.cur_param_idx = @ + 1, !.records[i].data = "app"]
          = [p EXCEPT !.cur_param_idx = i,
                      !.records = [p.records EXCEPT ![i] = [r EXCEPT !.data = "app"]]]
      BY <1>1, <1>2, <1>3 DEF DescriptorSet, RecordSet, i
    <3> HIDE DEF new
    <3>5. q = [p EXCEPT !.cur_param_idx = i, !.records = [p.records EXCEPT ![i] = new]]
      BY <3>2, <3>3, <3>4
    <3>6. q = [p EXCEPT !.pool = p.pool, !.records = [p.records EXCEPT ![i] = new],
                        !.cur_paramset_idx = s, !.cur_param_idx = i]
      BY <1>1, <3>5 DEF DescriptorSet, s
    <3> QED
      BY <1>1, <1>2, <1>7, <3>1, <3>6 DEF q
  <2> QED
    BY <2>1, <2>2
<1>11. CASE r.type # "fixed" /\ p.array_size = 1
  <2> DEFINE offset == IF r.ind[0] = -2 THEN 0 ELSE r.ind[0]
             full == len >= ColumnSize - offset
             x == IF full THEN ColumnSize ELSE offset + len
             k == IF full THEN p.cur_param_idx + 1 ELSE p.cur_param_idx
             new == [r EXCEPT !.data = "pool", !.ind = [r.ind EXCEPT ![0] = x],
                              !.value = [r.value EXCEPT ![0] = run]]
  <2>1. len \in Nat \ {0}
    BY <1>11 DEF CanPut, i
  <2>7. r.ind[0] \in Int
    BY <1>5
  <2>8. offset \in Int
    <3> HIDE DEF r
    <3> QED
      BY <2>7
  <2>9. k \in Nat
    BY <1>1
  <2>2. x \in Int /\ k \in Nat
    <3> HIDE DEF offset, k
    <3> QED
      BY <1>9, <2>1, <2>8, <2>9
  <2>3. RecOK(new)
    <3> HIDE DEF x
    <3> QED
      BY <1>5, <1>8, <2>2
  <2>4. q = [p EXCEPT !.pool = TRUE,
                      !.records[i] = [r EXCEPT !.data = "pool", !.ind[0] = x, !.value[0] = run],
                      !.cur_param_idx = k]
    BY <1>1, <1>11 DEF q, i, PutData, FillParamCharDataBuffer
  <2>5. [r EXCEPT !.data = "pool", !.ind[0] = x, !.value[0] = run] = new
    BY <1>3, <1>5 DEF RecordSet
  <2> HIDE DEF new, x, k
  <2>6. q = [p EXCEPT !.pool = TRUE, !.records = [p.records EXCEPT ![i] = new],
                      !.cur_paramset_idx = s, !.cur_param_idx = k]
    <3>1. q = [p EXCEPT !.pool = TRUE, !.records = [p.records EXCEPT ![i] = new], !.cur_param_idx = k]
      BY <1>1, <1>2, <2>4, <2>5 DEF DescriptorSet
    <3> QED
      BY <1>1, <3>1 DEF DescriptorSet, s
  <2>10. PutStep(p, q)
    BY <1>1, <1>7, <2>2, <2>3, <2>6
  <2> QED
    BY <2>10 DEF q
<1>12. CASE r.type # "fixed" /\ p.array_size # 1
  <2> DEFINE last == s + 1 >= p.array_size
             x == IF len >= ColumnSize THEN ColumnSize ELSE len
             k == IF last THEN p.cur_param_idx + 1 ELSE p.cur_param_idx
             c == IF last THEN 0 ELSE s + 1
             new == [r EXCEPT !.data = "pool", !.ind = [r.ind EXCEPT ![s] = x],
                              !.value = [r.value EXCEPT ![s] = run]]
  <2>1. len \in Nat \ {0}
    BY <1>12 DEF CanPut, i
  <2>2. x \in Int /\ k \in Nat
    BY <1>1, <1>9, <2>1
  <2>3. c \in Sets
    BY <1>1, SetsOK
  <2>4. RecOK(new)
    <3> HIDE DEF x
    <3> QED
      BY <1>1, <1>8, <2>2
  <2>5. q = [p EXCEPT !.pool = TRUE,
                      !.records[i] = [@ EXCEPT !.data = "pool", !.ind[s] = x, !.value[s] = run],
                      !.cur_paramset_idx = c, !.cur_param_idx = k]
    BY <1>1, <1>12 DEF q, i, s, PutData, FillCurParamCharSet
  <2>6. [r EXCEPT !.data = "pool", !.ind[s] = x, !.value[s] = run] = new
    BY <1>1, <1>3, <1>5 DEF RecordSet
  <2> HIDE DEF new, x, k, c
  <2>7. q = [p EXCEPT !.pool = TRUE, !.records = [p.records EXCEPT ![i] = new],
                      !.cur_paramset_idx = c, !.cur_param_idx = k]
    BY <1>1, <1>2, <2>5, <2>6 DEF DescriptorSet
  <2> QED
    BY <1>7, <2>2, <2>3, <2>4, <2>7 DEF q
<1> QED
  BY <1>10, <1>11, <1>12
----------------------------------------------------------------------------
(***************************************************************************)
(* The type invariant.                                                     *)
(***************************************************************************)
HandleOK ==
  /\ res \in {"none", "ok", "error"}
  /\ dm \in {"allocated", "prepared", "need_data", "must_put", "can_put", "executed"}
  /\ call \in {"idle", "batch", "undefined"}
  /\ ret \in ReturnCodes
  /\ run \in Nat /\ dirty \in BOOLEAN
  /\ exec \in Seq([set : Nat, vals : Seq(Nat)])

ParamInv == PDOK(pd) /\ HandleOK

\* An execution stops before the engine is asked, for want of data or for an error; asks
\* it without values, which fails; or asks it for the next set.
NothingExecuted(r) ==
  exec' = exec /\ r \in {"NEED_DATA", "ERROR"} /\ pd'.paramset_idx = pd.paramset_idx
WithoutValues(r) ==
  /\ pd.records = << >> /\ r = "ERROR" /\ pd'.paramset_idx = pd.paramset_idx
  /\ exec' = Append(exec, [set |-> pd.paramset_idx, vals |-> << >>])
SetExecuted(r) ==
  /\ pd.records # << >>
  /\ pd'.paramset_idx = pd.paramset_idx + 1 /\ pd'.processed = pd.paramset_idx + 1
  /\ r \in {"ERROR", IF pd.paramset_idx + 1 = pd.array_size THEN "SUCCESS" ELSE "STILL_EXECUTING"}
  /\ \E vals \in Seq(Nat) : exec' = Append(exec, [set |-> pd.paramset_idx, vals |-> vals])
Executes(r) ==
  /\ NothingExecuted(r) \/ WithoutValues(r) \/ SetExecuted(r)
  /\ pd' = pd \/ (Reread(pd, pd') /\ SameDialog(pd, pd'))
  /\ UNCHANGED <<run, dirty>>

\* SingleExecuteStmt, put as the facts the callers need.
LEMMA SingleExecuteOK ==
  ASSUME ParamInv, NEW r, SingleExecuteStmt(r)
  PROVE  /\ PDOK(pd') /\ Executes(r) /\ r \in ReturnCodes
         /\ Len(pd'.records) = Len(pd.records) /\ pd'.array_size = pd.array_size
         /\ res' \in {"none", "ok", "error"}
         /\ exec' \in Seq([set : Nat, vals : Seq(Nat)])
<1> DEFINE E == [set : Nat, vals : Seq(Nat)]
<1>1. PDOK(pd) /\ run \in Nat /\ exec \in Seq(E)
  BY DEF ParamInv, HandleOK
<1>3. PICK g \in Outcomes(pd) :
      /\ g.ok /\ pd' = g.p
      /\ \/ g.ret \in {"NEED_DATA", "ERROR"} /\ r = g.ret /\ res' = "none" /\ exec' = exec
         \/ /\ g.ret \notin {"NEED_DATA", "ERROR"}
            /\ exec' = Append(exec, [set |-> pd.paramset_idx, vals |-> g.vals])
            /\ \/ Len(g.vals) = NumParams /\ r = g.ret /\ res' = "ok"
               \/ r = "ERROR" /\ res' = "error"
      /\ UNCHANGED <<run, dirty>>
  BY DEF SingleExecuteStmt
<1> DEFINE x == [set |-> pd.paramset_idx, vals |-> g.vals]
<1>2. Outcome(pd, g)
  <2>1. CASE PastArrays(pd)
    BY <1>1, <1>3, <2>1, ReadPastOK DEF Outcomes
  <2>2. CASE ~PastArrays(pd)
    BY <1>1, <1>3, <2>2, GetParamValuesOK DEF Outcomes
  <2> QED
    BY <2>1, <2>2
<1>4. pd.paramset_idx \in Nat /\ g.vals \in Seq(Nat)
  BY <1>1, <1>2, PDFields DEF Outcome
<1>5. x \in E
  BY <1>4
<1>6. Append(exec, x) \in Seq(E)
  BY <1>1, <1>5, AppendProperties
<1> HIDE DEF E
<1>7. CASE pd.records = << >> /\ g.ret = "SUCCESS" /\ g.p = pd /\ g.vals = << >>
  <2>1. Len(g.vals) # NumParams
    BY <1>7
  <2>2. r = "ERROR" /\ res' = "error" /\ exec' = Append(exec, x)
    BY <1>3, <1>7, <2>1
  <2>3. pd' = pd
    BY <1>3, <1>7
  <2>4. Executes(r)
    BY <1>3, <1>7, <2>2, <2>3 DEF Executes, WithoutValues
  <2> QED
    BY <1>1, <1>6, <2>2, <2>3, <2>4 DEF ReturnCodes, E
<1>8. CASE /\ PDOK(g.p) /\ Reread(pd, g.p) /\ SameDialog(pd, g.p) /\ SetStays(pd, g)
  <2>1. exec' = exec /\ r \in {"NEED_DATA", "ERROR"} /\ res' = "none" /\ pd' = g.p
    BY <1>3, <1>8 DEF SetStays
  <2>2. Executes(r)
    BY <1>3, <1>8, <2>1 DEF Executes, NothingExecuted, SetStays
  <2> QED
    BY <1>1, <1>8, <2>1, <2>2 DEF ReturnCodes, E, Reread, SameDialog
<1>9. CASE /\ pd.records # << >>
           /\ PDOK(g.p) /\ Reread(pd, g.p) /\ SameDialog(pd, g.p) /\ SetRead(pd, g)
  <2>1. /\ g.ret = IF pd.paramset_idx + 1 = pd.array_size THEN "SUCCESS" ELSE "STILL_EXECUTING"
        /\ g.ret \notin {"NEED_DATA", "ERROR"}
    BY <1>9 DEF SetRead
  <2>2. /\ exec' = Append(exec, x) /\ pd' = g.p /\ res' \in {"ok", "error"} /\ r \in {"ERROR", g.ret}
    BY <1>3, <2>1
  <2>3. SetExecuted(r)
    BY <1>4, <1>9, <2>1, <2>2 DEF SetExecuted, SetRead
  <2>4. Executes(r)
    BY <1>3, <1>9, <2>2, <2>3 DEF Executes
  <2> QED
    BY <1>6, <1>9, <2>1, <2>2, <2>4 DEF ReturnCodes, E, Reread, SameDialog
<1> QED
  BY <1>2, <1>3, <1>7, <1>8, <1>9 DEF Outcome

\* Where the run and the dialog have come to.
SamePlace(p, q) ==
  /\ q.paramset_idx = p.paramset_idx /\ q.cur_paramset_idx = p.cur_paramset_idx
  /\ q.cur_param_idx = p.cur_param_idx /\ q.pool = p.pool

\* The application's own changes to the descriptor leave the set to execute.
LEMMA BindOK ==
  ASSUME PDOK(pd), NEW i \in 1 .. NumParams, NEW b \in Bindings, SQLBindParameter(i, b)
  PROVE  /\ PDOK(pd') /\ SamePlace(pd, pd') /\ pd'.array_size = pd.array_size
         /\ pd'.count = GetDescRecord(pd, i).count /\ pd'.status_ptr = pd.status_ptr
         /\ LET recs == GetDescRecord(pd, i).records
            IN  i \in DOMAIN recs /\ (pd'.records = recs \/ pd'.records = [recs EXCEPT ![i] = Bound(b)])
<1> DEFINE p == GetDescRecord(pd, i)
           q == [p EXCEPT !.records[i] = Bound(b)]
           recs == [p.records EXCEPT ![i] = Bound(b)]
<1>1. PDOK(p) /\ SamePlace(pd, p) /\ p.array_size = pd.array_size /\ i <= Len(p.records)
      /\ p.status_ptr = pd.status_ptr
  BY GetDescRecordOK DEF SamePlace
<1>2. pd' = p \/ pd' = q
  BY DEF SQLBindParameter, Configure
<1>3. b \in AllBindings
  OBVIOUS
<1>4. RecOK(Bound(b)) /\ Bound(b) \in RecordSet
  BY <1>3, BoundOK DEF RecOK
<1> HIDE DEF p
<1>5. p \in DescriptorSet /\ p.records \in Seq(RecordSet) /\ i \in DOMAIN p.records
      /\ \A j \in DOMAIN p.records : RecOK(p.records[j])
  BY <1>1, PDFields DEF PDOK
<1>6. /\ recs \in Seq(RecordSet) /\ Len(recs) = Len(p.records)
      /\ \A j \in DOMAIN p.records : RecOK(recs[j])
  BY <1>4, <1>5
<1>7. q = [p EXCEPT !.records = recs]
  OBVIOUS
<1> HIDE DEF q, recs
<1>8. /\ q \in DescriptorSet /\ q.records = recs /\ q.count = p.count
      /\ q.array_size = p.array_size /\ SamePlace(p, q) /\ q.status_ptr = p.status_ptr
  BY <1>5, <1>6, <1>7 DEF DescriptorSet, SamePlace
<1>9. PDOK(q)
  BY <1>1, <1>6, <1>8, ReplaceRecordOK DEF PDOK, SamePlace
<1> QED
  BY <1>1, <1>2, <1>5, <1>8, <1>9 DEF SamePlace, p, recs

\* Writing the indicators anew leaves everything but the one record.
LEMMA WriteIndicatorsOK ==
  ASSUME PDOK(pd), NEW i \in 1 .. NumParams, NEW b \in Bindings, WriteIndicators(i, b)
  PROVE  /\ PDOK(pd') /\ SamePlace(pd, pd') /\ pd'.array_size = pd.array_size /\ pd'.count = pd.count
         /\ pd'.status_ptr = pd.status_ptr
         /\ i \in DOMAIN pd.records /\ pd.records[i].ind_ptr
         /\ \E v \in [Sets -> Nat] :
              /\ pd'.records = [pd.records EXCEPT ![i] =
                                  [pd.records[i] EXCEPT !.ind = Indicators(b), !.value = v]]
              /\ v = IF pd.records[i].data = "app" THEN [s \in Sets |-> 0] ELSE pd.records[i].value
<1> DEFINE r == pd.records[i]
           v == IF r.data = "app" THEN [s \in Sets |-> 0] ELSE r.value
           new == [r EXCEPT !.ind = Indicators(b), !.value = v]
           recs == [pd.records EXCEPT ![i] = new]
           q == [pd EXCEPT !.records = recs]
<1>1. pd \in DescriptorSet /\ pd.records \in Seq(RecordSet)
      /\ \A j \in DOMAIN pd.records : RecOK(pd.records[j])
  BY PDFields DEF PDOK
<1>2. /\ i \in DOMAIN pd.records /\ r.ind_ptr
      /\ pd' = [pd EXCEPT !.records[i].ind = Indicators(b),
                          !.records[i].value = IF pd.records[i].data = "app" THEN [s \in Sets |-> 0] ELSE @]
  BY <1>1 DEF WriteIndicators, Configure
<1>4. b \in AllBindings
  OBVIOUS
<1>5. Indicators(b) \in [Sets -> Int]
  BY <1>4, IndicatorsOK
<1>6. RecOK(r) /\ r \in RecordSet
  BY <1>1, <1>2 DEF RecOK
<1>3. pd' = q
  BY <1>1, <1>2, <1>6 DEF RecordSet, DescriptorSet
<1>12. v \in [Sets -> Nat]
  BY <1>6 DEF RecordSet
<1> HIDE DEF r, v
<1>7. new \in RecordSet /\ new.ind_ptr
  BY <1>2, <1>5, <1>6, <1>12 DEF RecordSet, r
<1> HIDE DEF new
<1>8. RecOK(new)
  BY <1>7 DEF RecOK
<1>9. /\ recs \in Seq(RecordSet) /\ Len(recs) = Len(pd.records)
      /\ \A j \in DOMAIN pd.records : RecOK(recs[j])
  BY <1>1, <1>2, <1>7, <1>8
<1> HIDE DEF recs
<1>10. /\ q \in DescriptorSet /\ q.records = recs /\ q.count = pd.count
       /\ q.array_size = pd.array_size /\ SamePlace(pd, q) /\ q.status_ptr = pd.status_ptr
  BY <1>1, <1>9 DEF DescriptorSet, SamePlace
<1> HIDE DEF q
<1>11. PDOK(q)
  BY <1>9, <1>10, ReplaceRecordOK DEF PDOK, SamePlace
<1> QED
  BY <1>2, <1>3, <1>10, <1>11, <1>12 DEF recs, new, r, v

\* The statement attributes change nothing but the field they set.
LEMMA AttributesOK ==
  ASSUME PDOK(pd),
         (\E n \in ArraySizes : SetParamsetSize(n)) \/ (\E b \in BOOLEAN : SetStatusPtr(b))
  PROVE  /\ PDOK(pd') /\ SamePlace(pd, pd') /\ pd'.records = pd.records /\ pd'.count = pd.count
         /\ pd'.array_size = pd.array_size
              \/ (ChangeOfSets /\ pd'.array_size \in ArraySizes /\ Calling("paramset_size"))
         /\ pd'.status_ptr = pd.status_ptr \/ "status_ptr" \in Calls
<1>1. pd \in DescriptorSet
  BY PDFields
<1>2. ASSUME NEW n \in ArraySizes, pd' = [pd EXCEPT !.array_size = n]
      PROVE  /\ PDOK(pd') /\ SamePlace(pd, pd') /\ pd'.records = pd.records /\ pd'.count = pd.count
             /\ pd'.array_size \in ArraySizes /\ pd'.status_ptr = pd.status_ptr
  <2>1. /\ pd' \in DescriptorSet /\ pd'.records = pd.records /\ pd'.count = pd.count
        /\ SamePlace(pd, pd') /\ pd'.array_size = n /\ pd'.status_ptr = pd.status_ptr
    BY <1>1, <1>2 DEF DescriptorSet, SamePlace
  <2> QED
    BY <2>1 DEF PDOK, SamePlace
<1>3. ASSUME NEW b \in BOOLEAN, pd' = [pd EXCEPT !.status_ptr = b]
      PROVE  /\ PDOK(pd') /\ SamePlace(pd, pd') /\ pd'.records = pd.records /\ pd'.count = pd.count
             /\ pd'.array_size = pd.array_size
  <2>1. /\ pd' \in DescriptorSet /\ pd'.records = pd.records /\ pd'.count = pd.count
        /\ SamePlace(pd, pd') /\ pd'.array_size = pd.array_size
    BY <1>1, <1>3 DEF DescriptorSet, SamePlace
  <2> QED
    BY <2>1 DEF PDOK, SamePlace
<1> QED
  BY <1>2, <1>3 DEF SetParamsetSize, SetStatusPtr, Configure, Calling

\* SQLParamData leaves the sets executed and the set to execute next.
LEMMA ParamDataOK ==
  ASSUME PDOK(pd), SQLParamData, call' # "undefined"
  PROVE  /\ PDOK(pd') /\ pd'.paramset_idx = pd.paramset_idx
         /\ ret' \in ReturnCodes /\ dm' \in {"must_put", "executed"}
         /\ UNCHANGED <<res, call, run, exec, dirty>>
<1> DEFINE g == GetNextParam(pd)
<1>1. /\ PDOK(g.p) /\ g.p.paramset_idx = pd.paramset_idx
      /\ g.ret \in {"NO_DATA", "NEED_DATA", "SUCCESS"}
  BY GetNextParamOK
<1>2. /\ pd' = g.p /\ ret' = IF g.ret = "NO_DATA" THEN "SUCCESS" ELSE g.ret
      /\ dm' = IF g.ret = "NEED_DATA" THEN "must_put" ELSE "executed"
      /\ UNCHANGED <<res, call, run, exec, dirty>>
  BY DEF SQLParamData, Undefined
<1> HIDE DEF g
<1> QED
  BY <1>1, <1>2 DEF ReturnCodes

\* SQLPutData leaves the sets executed and the set to execute next.
LEMMA PutsOK ==
  ASSUME PDOK(pd), run \in Nat, NEW len \in AllPieces, SQLPutData(len), call' # "undefined"
  PROVE  /\ pd' = pd \/ PutStep(pd, pd')
         /\ PDOK(pd') /\ pd'.paramset_idx = pd.paramset_idx
         /\ ret' \in ReturnCodes /\ dm' = "can_put"
         /\ UNCHANGED <<res, call, run, exec, dirty>>
<1>1. len \in (Nat \ {0}) \cup {SQL_NULL_DATA}
  BY DEF AllPieces
<1>2. /\ ~(pd.cur_param_idx < pd.count /\ ~CanPut(pd, len))
      /\ pd' = PutData(pd, len) /\ ret' = "SUCCESS" /\ dm' = "can_put"
      /\ UNCHANGED <<res, call, run, exec, dirty>>
  BY DEF SQLPutData, Undefined
<1>3. pd.cur_param_idx \in Nat /\ pd.count \in Nat
  BY PDFields
<1>4. CASE pd.cur_param_idx < pd.count
  <2>1. PutStep(pd, PutData(pd, len))
    BY <1>1, <1>2, <1>4, PutDataOK
  <2> QED
    BY <1>2, <2>1 DEF PutStep, ReturnCodes
<1>5. CASE ~(pd.cur_param_idx < pd.count)
  <2>1. pd.cur_param_idx >= pd.count
    BY <1>3, <1>5
  <2>2. PutData(pd, len) = pd
    BY <1>5, <2>1 DEF PutData
  <2> QED
    BY <1>2, <2>2 DEF ReturnCodes
<1> QED
  BY <1>4, <1>5

\* A new handle satisfies the typed invariant.
LEMMA ParamInitOK == Init => ParamInv
<1> SUFFICES ASSUME Init PROVE ParamInv
  OBVIOUS
<1>1. << >> \in Seq(RecordSet) /\ << >> \in Seq(Nat) /\ Len(<< >>) = 0
  OBVIOUS
<1>2. NewDescriptor \in DescriptorSet
  BY <1>1 DEF NewDescriptor, DescriptorSet
<1>3. /\ NewDescriptor.records = << >> /\ NewDescriptor.count = 0
      /\ NewDescriptor.cur_paramset_idx = 0
  BY DEF NewDescriptor
<1>4. PDOK(NewDescriptor)
  BY <1>1, <1>2, <1>3, SetsOK DEF PDOK
<1>5. << >> \in Seq([set : Nat, vals : Seq(Nat)])
  OBVIOUS
<1>6. PDOK(pd)
  BY <1>4 DEF Init
<1>7. HandleOK
  BY <1>5 DEF Init, HandleOK, ReturnCodes
<1> QED
  BY <1>6, <1>7 DEF ParamInv

\* Every call, and every iteration of the loop, preserves the typed invariant.
LEMMA ParamNextOK ==
  ASSUME ParamInv, [Next]_vars
  PROVE  ParamInv'
<1>1. PDOK(pd) /\ HandleOK /\ run \in Nat
  BY DEF ParamInv, HandleOK
<1>2. ASSUME PDOK(pd'), HandleOK' PROVE ParamInv'
  BY <1>2 DEF ParamInv
<1>3. CASE UNCHANGED vars
  BY <1>1, <1>3 DEF vars, ParamInv, HandleOK
<1>4. CASE call' = "undefined" /\ UNCHANGED <<pd, res, dm, ret, run, exec, dirty>>
  BY <1>1, <1>4 DEF ParamInv, HandleOK
<1>5. ASSUME PDOK(pd'), UNCHANGED <<res, dm, call, ret, run, exec, dirty>>
      PROVE  ParamInv'
  BY <1>1, <1>2, <1>5 DEF HandleOK
<1>6. CASE SQLPrepare
  BY <1>1, <1>2, <1>6, ResetParamsOK DEF SQLPrepare, HandleOK
<1>7. CASE SQLExecute \/ SQLExecDirect
  <2>1. /\ pd' = pd \/ pd' = ResetParams(pd)
        /\ call' = "batch" /\ run' = run + 1 /\ exec' = << >> /\ dirty' = TRUE /\ res' = "none"
        /\ ret' = ret /\ (dm' = dm \/ dm' = "prepared")
    BY <1>7 DEF SQLExecute, SQLExecDirect, StartRun
  <2>2. PDOK(pd')
    BY <1>1, <2>1, ResetParamsOK
  <2>3. << >> \in Seq([set : Nat, vals : Seq(Nat)])
    OBVIOUS
  <2> QED
    BY <1>1, <1>2, <2>1, <2>2, <2>3 DEF HandleOK
<1>8. ASSUME NEW r, SingleExecuteStmt(r), call' \in {call, "idle"}, ret' \in ReturnCodes,
             dm' \in {dm, "prepared", "executed", "need_data"}
      PROVE  ParamInv'
  <2>1. PDOK(pd') /\ Executes(r) /\ res' \in {"none", "ok", "error"}
        /\ exec' \in Seq([set : Nat, vals : Seq(Nat)])
    BY <1>8, SingleExecuteOK
  <2> QED
    BY <1>1, <1>2, <1>8, <2>1 DEF HandleOK, Executes
<1>9. CASE BatchStep
  <2>1. CASE StrayRead
    BY <1>4, <2>1 DEF StrayRead, Undefined
  <2>2. CASE SingleExecuteStmt("STILL_EXECUTING") /\ LoopGoesOn
    BY <1>1, <1>8, <2>2 DEF LoopGoesOn, HandleOK
  <2>3. CASE SingleExecuteStmt("NEED_DATA") /\ DialogOpens
    BY <1>8, <2>3 DEF DialogOpens, ReturnCodes
  <2>4. ASSUME NEW r \in {"SUCCESS", "ERROR"}, SingleExecuteStmt(r), LoopEnds(r)
        PROVE  ParamInv'
    BY <1>8, <2>4 DEF LoopEnds, ReturnCodes
  <2> QED
    BY <1>9, <2>1, <2>2, <2>3, <2>4 DEF BatchStep
<1>10. ASSUME NEW i \in 1 .. NumParams, NEW b \in Bindings, SQLBindParameter(i, b)
       PROVE  ParamInv'
  BY <1>1, <1>5, <1>10, BindOK DEF SQLBindParameter, Configure
<1>11. ASSUME NEW i \in 1 .. NumParams, NEW b \in Bindings, WriteIndicators(i, b)
       PROVE  ParamInv'
  BY <1>1, <1>5, <1>11, WriteIndicatorsOK DEF WriteIndicators, Configure
<1>12. CASE (\E n \in ArraySizes : SetParamsetSize(n)) \/ (\E b \in BOOLEAN : SetStatusPtr(b))
  BY <1>1, <1>5, <1>12, AttributesOK DEF SetParamsetSize, SetStatusPtr, Configure
<1>13. CASE ResetParameters
  BY <1>1, <1>2, <1>13, ClearOK DEF ResetParameters, HandleOK
<1>14. CASE CloseStmt
  BY <1>1, <1>2, <1>14, ResetOK DEF CloseStmt, HandleOK
<1>15. CASE SQLCancel
  BY <1>1, <1>2, <1>15 DEF SQLCancel, HandleOK
<1>16. CASE SQLFetch
  <2>1. CASE StrayRead
    BY <1>4, <2>1 DEF StrayRead, Undefined
  <2>2. ASSUME NEW r \in ReturnCodes, SingleExecuteStmt(r),
               ret' = IF r = "STILL_EXECUTING" THEN "SUCCESS" ELSE r, UNCHANGED <<call, dm>>
        PROVE  ParamInv'
    BY <1>8, <2>2 DEF ReturnCodes
  <2>3. CASE ret' \in {"SUCCESS", "NO_DATA"} /\ UNCHANGED <<pd, res, dm, call, run, exec, dirty>>
    BY <1>1, <1>2, <2>3 DEF HandleOK, ReturnCodes
  <2> QED
    BY <1>16, <2>1, <2>2, <2>3 DEF SQLFetch
<1>17. CASE SQLMoreResults
  <2>1. CASE StrayRead
    BY <1>4, <2>1 DEF StrayRead, Undefined
  <2>2. ASSUME NEW r \in ReturnCodes, SingleExecuteStmt(r), ret' = r, UNCHANGED <<call, dm>>
        PROVE  ParamInv'
    BY <1>8, <2>2
  <2>3. CASE ret' = "NO_DATA" /\ UNCHANGED <<pd, res, dm, call, run, exec, dirty>>
    BY <1>1, <1>2, <2>3 DEF HandleOK, ReturnCodes
  <2> QED
    BY <1>17, <2>1, <2>2, <2>3 DEF SQLMoreResults
<1>18. CASE SQLParamData
  <2>1. CASE call' = "undefined"
    <3>1. call = "idle"
      BY <1>18 DEF SQLParamData
    <3> QED
      BY <1>4, <1>18, <2>1, <3>1 DEF SQLParamData, Undefined
  <2>2. CASE call' # "undefined"
    BY <1>1, <1>2, <1>18, <2>2, ParamDataOK DEF HandleOK
  <2> QED
    BY <2>1, <2>2
<1>19. ASSUME NEW len \in AllPieces, SQLPutData(len) PROVE ParamInv'
  <2>1. CASE call' = "undefined"
    <3>1. call = "idle"
      BY <1>19 DEF SQLPutData
    <3> QED
      BY <1>4, <1>19, <2>1, <3>1 DEF SQLPutData, Undefined
  <2>2. CASE call' # "undefined"
    BY <1>1, <1>2, <1>19, <2>2, PutsOK DEF HandleOK
  <2> QED
    BY <2>1, <2>2
<1> QED
  BY <1>3, <1>6, <1>7, <1>9, <1>10, <1>11, <1>12, <1>13, <1>14, <1>15, <1>16, <1>17, <1>18, <1>19
  DEF Next

\* The typed invariant holds for every application, in whatever order it makes its
\* calls.
THEOREM ParamInvariance == Spec => []ParamInv
<1>1. ParamInv /\ [Next]_vars => ParamInv'
  BY ParamNextOK
<1> QED
  BY ParamInitOK, <1>1, PTL DEF Spec

\* The descriptor, the handle and the histories keep their types for every application:
\* the dialog stays within the records and sets, whatever was bound, resized, cancelled
\* or closed in between.
THEOREM ParamTyped == Spec => []ParamTypeOK
<1>1. ParamInv => ParamTypeOK
  BY DEF ParamInv, PDOK, HandleOK, ParamTypeOK
<1> QED
  BY ParamInvariance, <1>1, PTL
----------------------------------------------------------------------------
(***************************************************************************)
(* The loop over the sets and the dialog: what each round of them uses up. *)
(***************************************************************************)
\* Every iteration of the loop of BatchExecuteStmt that goes on has executed a set, and
\* another one is left.
BatchAdvancesStep ==
  call = "batch" /\ call' = "batch" =>
    /\ Len(pd'.records) = Len(pd.records) /\ pd'.array_size = pd.array_size
    /\ pd'.paramset_idx = pd.paramset_idx + 1 /\ pd'.paramset_idx < pd.array_size
BatchAdvances == [][BatchAdvancesStep]_vars

\* A piece of data brings the dialog to the next parameter, to the next set of this one,
\* or closer to the column size of a value that comes in pieces.
Farther(p, q) ==
  LET i == p.cur_param_idx + 1
  IN \/ q.cur_param_idx = p.cur_param_idx + 1
     \/ /\ q.cur_param_idx = p.cur_param_idx /\ p.array_size # 1
        /\ q.cur_paramset_idx = p.cur_paramset_idx + 1 /\ q.cur_paramset_idx < p.array_size
     \/ /\ q.cur_param_idx = p.cur_param_idx /\ p.array_size = 1
        /\ q.records[i].ind[0] > p.records[i].ind[0] /\ q.records[i].ind[0] < ColumnSize

\* SQLParamData asks only while a parameter is left, and moves nothing; SQLPutData, while
\* one is left, brings the dialog farther, and neither changes how far there is to go.
DialogAdvancesStep ==
  call = "idle" /\ call' = "idle" /\ InDialog /\ InDialog' =>
    /\ pd'.count = pd.count /\ pd'.array_size = pd.array_size
    /\ dm' = "must_put" =>
         /\ pd.cur_param_idx < pd.count /\ pd'.records = pd.records
         /\ pd'.cur_param_idx = pd.cur_param_idx
         /\ pd'.cur_paramset_idx = pd.cur_paramset_idx
    /\ dm' = "can_put" /\ pd.cur_param_idx < pd.count => Farther(pd, pd')
DialogAdvances == [][DialogAdvancesStep]_vars

\* PutData brings the dialog farther.
LEMMA PutDataAdvances ==
  ASSUME NEW p, PDOK(p), run \in Nat, NEW len \in (Nat \ {0}) \cup {SQL_NULL_DATA},
         p.cur_param_idx < p.count, CanPut(p, len)
  PROVE  Farther(p, PutData(p, len))
<1> DEFINE i == p.cur_param_idx + 1
           s == p.cur_paramset_idx
           r == p.records[i]
           q == PutData(p, len)
<1>1. /\ p \in DescriptorSet /\ p.cur_param_idx \in Nat /\ p.count \in Nat /\ s \in Nat
      /\ p.array_size \in Nat \ {0} /\ p.records \in Seq(RecordSet)
  BY PDFields
<1>2. i \in DOMAIN p.records
  BY <1>1 DEF PDOK
<1>3. r \in RecordSet /\ 0 \in Sets /\ r.ind \in [Sets -> Int] /\ RecOK(r)
  <2>1. RecOK(r)
    BY <1>2 DEF PDOK
  <2>2. r \in RecordSet
    BY <2>1 DEF RecOK
  <2> QED
    BY <2>1, <2>2, SetsOK DEF RecordSet
<1> HIDE DEF i, s, q
<1>4. CASE r.type = "fixed"
  <2>1. CASE len = SQL_NULL_DATA
    <3>1. q = [p EXCEPT !.cur_param_idx = @ + 1, !.records[i].ind[0] = -1]
      BY <1>1, <1>4, <2>1 DEF q, i, PutData
    <3>2. q.cur_param_idx = p.cur_param_idx + 1
      BY <1>1, <3>1 DEF DescriptorSet
    <3> QED
      BY <3>2 DEF Farther, q
  <2>2. CASE len # SQL_NULL_DATA
    <3>1. q = [p EXCEPT !.cur_param_idx = @ + 1, !.records[i].data = "app"]
      BY <1>1, <1>4, <2>2 DEF q, i, PutData
    <3>2. q.cur_param_idx = p.cur_param_idx + 1
      BY <1>1, <3>1 DEF DescriptorSet
    <3> QED
      BY <3>2 DEF Farther, q
  <2> QED
    BY <2>1, <2>2
<1>5. CASE r.type # "fixed" /\ p.array_size = 1
  <2> DEFINE offset == IF r.ind[0] = -2 THEN 0 ELSE r.ind[0]
             full == len >= ColumnSize - offset
             x == IF full THEN ColumnSize ELSE offset + len
             k == IF full THEN p.cur_param_idx + 1 ELSE p.cur_param_idx
             new == [r EXCEPT !.data = "pool", !.ind[0] = x, !.value[0] = run]
  <2>1. len \in Nat \ {0} /\ ColumnSize \in Nat
    BY <1>5 DEF CanPut, i
  <2>2. r.ind[0] \in Int
    BY <1>3
  <2>3. q = [p EXCEPT !.pool = TRUE, !.records[i] = new, !.cur_param_idx = k]
    BY <1>1, <1>5 DEF q, i, PutData, FillParamCharDataBuffer
  <2>4. new.ind = [r.ind EXCEPT ![0] = x]
    BY <1>3 DEF RecordSet
  <2> HIDE DEF new, k, x
  <2>5. q.cur_param_idx = k /\ q.records[i] = new
    BY <1>1, <1>2, <2>3 DEF DescriptorSet
  <2>6. q.records[i].ind[0] = x
    BY <1>3, <2>4, <2>5
  <2>7. CASE full
    BY <2>5, <2>7 DEF Farther, q, k
  <2>8. CASE ~full
    <3>1. offset \in Int /\ offset >= r.ind[0]
      <4> HIDE DEF r
      <4> QED
        BY <2>2
    <3>2. x = offset + len /\ k = p.cur_param_idx
      BY <2>8 DEF x, k
    <3>3. x > r.ind[0] /\ x < ColumnSize
      <4>1. ~(len >= ColumnSize - offset)
        BY <2>8
      <4> HIDE DEF offset, r
      <4> QED
        BY <2>1, <2>2, <3>1, <3>2, <4>1
    <3> QED
      BY <1>5, <2>5, <2>6, <3>2, <3>3 DEF Farther, q, i
  <2> QED
    BY <2>7, <2>8
<1>6. CASE r.type # "fixed" /\ p.array_size # 1
  <2> DEFINE last == s + 1 >= p.array_size
             x == IF len >= ColumnSize THEN ColumnSize ELSE len
             k == IF last THEN p.cur_param_idx + 1 ELSE p.cur_param_idx
             c == IF last THEN 0 ELSE s + 1
  <2>1. q = [p EXCEPT !.pool = TRUE,
                      !.records[i] = [@ EXCEPT !.data = "pool", !.ind[s] = x, !.value[s] = run],
                      !.cur_paramset_idx = c, !.cur_param_idx = k]
    BY <1>1, <1>6 DEF q, i, s, PutData, FillCurParamCharSet
  <2> HIDE DEF x, k, c
  <2>2. q.cur_param_idx = k /\ q.cur_paramset_idx = c
    BY <1>1, <2>1 DEF DescriptorSet
  <2>3. CASE last
    BY <2>2, <2>3 DEF Farther, q, k
  <2>4. CASE ~last
    <3>1. c = s + 1 /\ k = p.cur_param_idx /\ s + 1 < p.array_size
      BY <1>1, <2>4 DEF c, k
    <3> QED
      BY <1>6, <2>2, <3>1 DEF Farther, q, s
  <2> QED
    BY <2>3, <2>4
<1> QED
  BY <1>4, <1>5, <1>6

\* In a call, or in the dialog, the application makes no other call than the dialog's.
LEMMA OnlyDialog ==
  ASSUME Next
  PROVE  /\ call = "batch" => BatchStep
         /\ InDialog /\ call = "idle" =>
              \/ SQLParamData
              \/ \E len \in AllPieces : SQLPutData(len)
              \/ dm' = "prepared"
<1>1. CASE call = "batch"
  BY <1>1 DEF Next, SQLPrepare, SQLExecute, SQLExecDirect, BatchStep, SQLBindParameter,
       WriteIndicators, SetParamsetSize, SetStatusPtr, ResetParameters, CloseStmt, SQLCancel,
       SQLFetch, SQLMoreResults, SQLParamData, SQLPutData, Configure, Calling
<1>2. CASE call = "idle" /\ InDialog
  BY <1>2 DEF Next, SQLPrepare, SQLExecute, SQLExecDirect, BatchStep, SQLBindParameter,
       WriteIndicators, SetParamsetSize, SetStatusPtr, ResetParameters, CloseStmt, SQLCancel,
       SQLFetch, SQLMoreResults, Configure, Calling, InDialog
<1> QED
  BY <1>1, <1>2

\* The dialog uses up its parameters, for every application: no piece of data is taken
\* without coming closer to the end, and no call of the dialog goes back.
THEOREM DialogBounded == Spec => DialogAdvances
<1>1. ParamInv /\ [Next]_vars => [DialogAdvancesStep]_vars
  <2> SUFFICES ASSUME ParamInv, Next, call = "idle", call' = "idle", InDialog, InDialog'
               PROVE  DialogAdvancesStep
    BY DEF DialogAdvancesStep
  <2>0. PDOK(pd) /\ run \in Nat
    BY DEF ParamInv, HandleOK
  <2>1. dm' # "prepared"
    BY DEF InDialog
  <2>2. CASE SQLParamData
    <3> DEFINE g == GetNextParam(pd)
    <3>1. /\ g.p.records = pd.records /\ g.p.array_size = pd.array_size
          /\ g.p.cur_param_idx = pd.cur_param_idx
          /\ g.p.cur_paramset_idx = pd.cur_paramset_idx /\ g.p.count = pd.count
      BY <2>0, GetNextParamOK
    <3>2. /\ pd' = g.p /\ dm' = IF g.ret = "NEED_DATA" THEN "must_put" ELSE "executed"
      BY <2>2 DEF SQLParamData, Undefined
    <3>3. g.ret = "NEED_DATA" => ~(pd.cur_param_idx >= pd.count)
      BY DEF GetNextParam
    <3>4. pd.cur_param_idx \in Nat /\ pd.count \in Nat
      BY <2>0, PDFields
    <3> HIDE DEF g
    <3>5. dm' = "must_put" => pd.cur_param_idx < pd.count
      BY <3>2, <3>3, <3>4
    <3>6. dm' # "can_put"
      BY <3>2
    <3> QED
      BY <3>1, <3>2, <3>5, <3>6 DEF DialogAdvancesStep
  <2>3. ASSUME NEW len \in AllPieces, SQLPutData(len) PROVE DialogAdvancesStep
    <3>1. /\ pd' = pd \/ PutStep(pd, pd')
          /\ dm' = "can_put"
      BY <2>0, <2>3, PutsOK
    <3>2. pd'.count = pd.count /\ pd'.array_size = pd.array_size
      BY <3>1 DEF PutStep
    <3>3. ASSUME pd.cur_param_idx < pd.count PROVE Farther(pd, pd')
      <4>1. pd' = PutData(pd, len) /\ CanPut(pd, len)
        BY <2>3, <3>3 DEF SQLPutData, Undefined
      <4>2. len \in (Nat \ {0}) \cup {SQL_NULL_DATA}
        BY DEF AllPieces
      <4> QED
        BY <2>0, <3>3, <4>1, <4>2, PutDataAdvances
    <3> QED
      BY <3>1, <3>2, <3>3 DEF DialogAdvancesStep
  <2> QED
    BY <2>1, <2>2, <2>3, OnlyDialog
<1> QED
  BY <1>1, ParamInvariance, PTL DEF Spec, DialogAdvances
----------------------------------------------------------------------------
(***************************************************************************)
(* The order of the sets.                                                  *)
(***************************************************************************)
\* An application that closes the statement or resets its parameters before it runs it
\* again, and does not reset them while SQLFetch or SQLMoreResults may execute sets.
Tidy ==
  /\ Cleans # {}
  /\ "reset_params" \in Calls /\ (Query \/ "more_results" \in Calls) => "changes_closed" \in Habits

\* The calls that execute sets of the current run.
MayExecute == call = "batch" \/ InDialog \/ MoreToCome

\* While sets of the run can still be executed, the next one is the number executed so
\* far, and the loop has it; a handle that is clean is at the first set and executes
\* nothing.
OrderInv ==
  /\ SetsInOrder
  /\ MayExecute => pd.paramset_idx = Len(exec)
  /\ call = "batch" => pd.paramset_idx < pd.array_size
  /\ ~dirty => pd.paramset_idx = 0 /\ ~MayExecute

\* Executing keeps the order; only a statement run without values leaves the index behind.
LEMMA ExecutesInOrder ==
  ASSUME ParamInv, OrderInv, MayExecute, NEW r, SingleExecuteStmt(r)
  PROVE  /\ SetsInOrder' /\ dirty /\ dirty'
         /\ pd'.paramset_idx = Len(exec') \/ (r = "ERROR" /\ pd.records = << >>)
         /\ r = "SUCCESS" => Len(exec') = pd.array_size /\ pd'.processed = pd.array_size
         /\ r = "STILL_EXECUTING" /\ call = "batch" =>
              /\ pd'.paramset_idx = pd.paramset_idx + 1
              /\ pd'.paramset_idx < pd.array_size /\ pd'.array_size = pd.array_size
         /\ r \in {"SUCCESS", "ERROR", "NEED_DATA", "STILL_EXECUTING"}
<1>1. /\ PDOK(pd') /\ Executes(r) /\ exec' \in Seq([set : Nat, vals : Seq(Nat)])
      /\ pd'.array_size = pd.array_size
  BY SingleExecuteOK
<1>2. /\ exec \in Seq([set : Nat, vals : Seq(Nat)]) /\ dirty \in BOOLEAN /\ Len(exec) \in Nat
      /\ pd.paramset_idx = Len(exec) /\ dirty /\ dirty'
      /\ pd.array_size \in Nat /\ (call = "batch" => pd.paramset_idx < pd.array_size)
  BY <1>1, PDFields DEF ParamInv, HandleOK, OrderInv, Executes
<1>3. ASSUME NEW v, exec' = Append(exec, [set |-> pd.paramset_idx, vals |-> v])
      PROVE  SetsInOrder' /\ Len(exec') = Len(exec) + 1
  <2> DEFINE x == [set |-> pd.paramset_idx, vals |-> v]
  <2>1. x.set = Len(exec)
    BY <1>2
  <2> HIDE DEF x
  <2>2. /\ Len(exec') = Len(exec) + 1
        /\ \A k \in 1 .. Len(exec) : exec'[k] = exec[k]
        /\ exec'[Len(exec) + 1] = x
    BY <1>2, <1>3 DEF x
  <2>3. \A k \in 1 .. Len(exec) : exec[k].set = k - 1
    BY DEF OrderInv, SetsInOrder
  <2>4. ASSUME NEW k \in 1 .. Len(exec) + 1 PROVE exec'[k].set = k - 1
    <3>1. CASE k = Len(exec) + 1
      BY <1>2, <2>1, <2>2, <3>1
    <3>2. CASE k \in 1 .. Len(exec)
      BY <2>2, <2>3, <3>2
    <3> QED
      BY <1>2, <3>1, <3>2
  <2> QED
    BY <2>2, <2>4 DEF SetsInOrder
<1>4. CASE NothingExecuted(r)
  BY <1>2, <1>4 DEF NothingExecuted, OrderInv, SetsInOrder
<1>5. CASE WithoutValues(r)
  BY <1>2, <1>3, <1>5 DEF WithoutValues
<1>6. CASE SetExecuted(r)
  <2>1. SetsInOrder' /\ Len(exec') = Len(exec) + 1
    BY <1>3, <1>6 DEF SetExecuted
  <2> QED
    BY <1>1, <1>2, <1>6, <2>1 DEF SetExecuted
<1> QED
  BY <1>1, <1>4, <1>5, <1>6 DEF Executes

\* No set is executed before the first run.
LEMMA OrderInitOK == Init => OrderInv
<1> SUFFICES ASSUME Init PROVE OrderInv
  OBVIOUS
<1>1. pd.paramset_idx = 0 /\ exec = << >> /\ Len(<< >>) = 0
  BY DEF Init, NewDescriptor
<1> QED
  BY <1>1 DEF Init, OrderInv, SetsInOrder, MayExecute, InDialog, MoreToCome

\* Every step of a tidy application preserves the order of the sets.
LEMMA OrderNextOK ==
  ASSUME Tidy, ParamInv, OrderInv, [Next]_vars
  PROVE  OrderInv' /\ WholeBatchStep
<1>1. PDOK(pd) /\ HandleOK /\ run \in Nat /\ dirty \in BOOLEAN
  BY DEF ParamInv, HandleOK
<1>2. ASSUME UNCHANGED <<dm, call, exec, dirty>>, pd'.paramset_idx = pd.paramset_idx,
             call # "batch" \/ pd'.array_size = pd.array_size
      PROVE  OrderInv' /\ WholeBatchStep
  BY <1>2 DEF OrderInv, SetsInOrder, MayExecute, InDialog, MoreToCome, WholeBatchStep
<1>3. ASSUME UNCHANGED <<exec, dirty>>, pd'.paramset_idx = pd.paramset_idx, call # "batch",
             call' # "batch", MayExecute' => MayExecute
      PROVE  OrderInv' /\ WholeBatchStep
  BY <1>3 DEF OrderInv, SetsInOrder, WholeBatchStep
<1>4. CASE UNCHANGED vars
  BY <1>2, <1>4 DEF vars
<1>5. CASE SQLPrepare
  <2>1. pd'.paramset_idx = pd.paramset_idx
    BY <1>1, <1>5, ResetParamsOK DEF SQLPrepare
  <2>2. ~MayExecute' /\ call # "batch" /\ call' # "batch" /\ UNCHANGED <<exec, dirty>>
    BY <1>5 DEF SQLPrepare, Calling, MayExecute, InDialog, MoreToCome
  <2> QED
    BY <1>3, <2>1, <2>2
<1>6. CASE SQLExecute \/ SQLExecDirect
  <2>1. /\ pd' = pd \/ pd' = ResetParams(pd)
        /\ call' = "batch" /\ exec' = << >> /\ dirty' = TRUE /\ ~dirty
    BY <1>1, <1>6 DEF SQLExecute, SQLExecDirect, StartRun, Tidy
  <2>2. pd'.paramset_idx = 0 /\ pd'.array_size = pd.array_size
    BY <1>1, <2>1, ResetParamsOK DEF OrderInv
  <2>4. 0 < pd.array_size
    BY <1>1, PDFields
  <2>3. Len(<< >>) = 0
    OBVIOUS
  <2> QED
    BY <2>1, <2>2, <2>3, <2>4 DEF OrderInv, SetsInOrder, WholeBatchStep
<1>7. CASE call' = "undefined" /\ UNCHANGED <<pd, res, dm, ret, run, exec, dirty>>
  BY <1>7 DEF OrderInv, SetsInOrder, MayExecute, InDialog, MoreToCome, WholeBatchStep
<1>8. CASE BatchStep
  <2>1. call = "batch" /\ MayExecute
    BY <1>8 DEF BatchStep, MayExecute
  <2>2. CASE StrayRead
    BY <1>7, <2>2 DEF StrayRead, Undefined
  <2>3. ASSUME SingleExecuteStmt("STILL_EXECUTING"), LoopGoesOn
        PROVE  OrderInv' /\ WholeBatchStep
    <3>1. call' = "batch"
      BY <2>1, <2>3 DEF LoopGoesOn
    <3>2. /\ SetsInOrder' /\ dirty' /\ pd'.paramset_idx = Len(exec')
          /\ pd'.paramset_idx < pd'.array_size
      BY <2>1, <2>3, ExecutesInOrder
    <3> QED
      BY <3>1, <3>2 DEF OrderInv, WholeBatchStep
  <2>4. ASSUME SingleExecuteStmt("NEED_DATA"), DialogOpens
        PROVE  OrderInv' /\ WholeBatchStep
    <3>1. SetsInOrder' /\ dirty' /\ pd'.paramset_idx = Len(exec')
      BY <2>1, <2>4, ExecutesInOrder
    <3>2. ret' = "NEED_DATA" /\ call' = "idle"
      BY <2>4 DEF DialogOpens
    <3> QED
      BY <3>1, <3>2 DEF OrderInv, WholeBatchStep
  <2>5. ASSUME SingleExecuteStmt("SUCCESS"), LoopEnds("SUCCESS")
        PROVE  OrderInv' /\ WholeBatchStep
    <3>1. /\ SetsInOrder' /\ dirty' /\ pd'.paramset_idx = Len(exec')
          /\ Len(exec') = pd.array_size /\ pd'.processed = pd.array_size
      BY <2>1, <2>5, ExecutesInOrder
    <3>2. call' = "idle"
      BY <2>5 DEF LoopEnds
    <3> QED
      BY <3>1, <3>2 DEF OrderInv, WholeBatchStep
  <2>6. ASSUME SingleExecuteStmt("ERROR"), LoopEnds("ERROR")
        PROVE  OrderInv' /\ WholeBatchStep
    <3>1. SetsInOrder' /\ dirty'
      BY <2>1, <2>6, ExecutesInOrder
    <3>2. ret' = "ERROR" /\ call' = "idle" /\ dm' = "prepared"
      BY <2>6 DEF LoopEnds
    <3> QED
      BY <3>1, <3>2 DEF OrderInv, WholeBatchStep, MayExecute, InDialog, MoreToCome
  <2> QED
    BY <1>8, <2>2, <2>3, <2>4, <2>5, <2>6 DEF BatchStep
<1>9. ASSUME NEW i \in 1 .. NumParams, NEW b \in Bindings, SQLBindParameter(i, b)
      PROVE  OrderInv' /\ WholeBatchStep
  BY <1>1, <1>2, <1>9, BindOK DEF SQLBindParameter, Configure, Calling, SamePlace
<1>10. ASSUME NEW i \in 1 .. NumParams, NEW b \in Bindings, WriteIndicators(i, b)
       PROVE  OrderInv' /\ WholeBatchStep
  BY <1>1, <1>2, <1>10, WriteIndicatorsOK DEF WriteIndicators, Configure, Calling, SamePlace
<1>11. CASE (\E n \in ArraySizes : SetParamsetSize(n)) \/ (\E b \in BOOLEAN : SetStatusPtr(b))
  BY <1>1, <1>2, <1>11, AttributesOK DEF SetParamsetSize, SetStatusPtr, Configure, Calling, SamePlace
<1>12. CASE ResetParameters
  <2>1. pd'.paramset_idx = 0
    BY <1>1, <1>12, ClearOK DEF ResetParameters
  <2>2. /\ ~MayExecute /\ UNCHANGED <<res, dm, call, ret, run, exec>> /\ call # "batch"
    BY <1>12 DEF ResetParameters, Calling, ChangeOfSets, Tidy, MayExecute, MoreToCome
  <2>3. ~MayExecute'
    BY <2>2 DEF MayExecute, InDialog, MoreToCome
  <2> QED
    BY <2>1, <2>2, <2>3 DEF OrderInv, SetsInOrder, WholeBatchStep
<1>13. CASE CloseStmt
  <2>1. pd'.paramset_idx = 0
    BY <1>1, <1>13, ResetOK DEF CloseStmt
  <2>2. UNCHANGED exec /\ ~MayExecute' /\ call # "batch" /\ call' # "batch"
    BY <1>13 DEF CloseStmt, Calling, MayExecute, InDialog, MoreToCome
  <2> QED
    BY <2>1, <2>2 DEF OrderInv, SetsInOrder, WholeBatchStep
<1>14. CASE SQLCancel
  <2>1. ~MayExecute' /\ UNCHANGED <<pd, exec, dirty>> /\ call # "batch" /\ call' # "batch"
    BY <1>14 DEF SQLCancel, MayExecute, InDialog, MoreToCome
  <2> QED
    BY <1>3, <2>1
<1>15. ASSUME MoreToCome, call = "idle", HasParamSetToProcess(pd), NEW r, SingleExecuteStmt(r),
              UNCHANGED <<call, dm>>
       PROVE  OrderInv' /\ WholeBatchStep
  <2>1. MayExecute
    BY <1>15 DEF MayExecute
  <2>2. SetsInOrder' /\ dirty' /\ pd'.paramset_idx = Len(exec')
    BY <1>15, <2>1, ExecutesInOrder DEF HasParamSetToProcess
  <2> QED
    BY <1>15, <2>2 DEF OrderInv, WholeBatchStep
<1>16. CASE SQLFetch
  <2>1. call = "idle" /\ MoreToCome
    BY <1>16 DEF SQLFetch, Calling, CursorOpen, MoreToCome
  <2>2. CASE StrayRead
    BY <1>7, <2>2 DEF StrayRead, Undefined
  <2>3. CASE HasParamSetToProcess(pd) /\ \E r \in ReturnCodes : SingleExecuteStmt(r) /\ UNCHANGED <<call, dm>>
    BY <1>15, <2>1, <2>3
  <2>4. CASE UNCHANGED <<pd, res, dm, call, run, exec, dirty>>
    BY <1>2, <2>1, <2>4
  <2> QED
    BY <1>16, <2>2, <2>3, <2>4 DEF SQLFetch
<1>17. CASE SQLMoreResults
  <2>1. call = "idle" /\ MoreToCome
    BY <1>17 DEF SQLMoreResults, Calling, MoreToCome
  <2>2. CASE StrayRead
    BY <1>7, <2>2 DEF StrayRead, Undefined
  <2>3. CASE HasParamSetToProcess(pd) /\ \E r \in ReturnCodes : SingleExecuteStmt(r) /\ UNCHANGED <<call, dm>>
    BY <1>15, <2>1, <2>3
  <2>4. CASE UNCHANGED <<pd, res, dm, call, run, exec, dirty>>
    BY <1>2, <2>1, <2>4
  <2> QED
    BY <1>17, <2>2, <2>3, <2>4 DEF SQLMoreResults
<1>18. CASE SQLParamData
  <2>1. call = "idle" /\ MayExecute
    BY <1>18 DEF SQLParamData, MayExecute, InDialog
  <2>2. CASE call' = "undefined"
    BY <1>7, <1>18, <2>1, <2>2 DEF SQLParamData, Undefined
  <2>3. CASE call' # "undefined"
    BY <1>1, <1>3, <1>18, <2>1, <2>3, ParamDataOK
  <2> QED
    BY <2>2, <2>3
<1>19. ASSUME NEW len \in AllPieces, SQLPutData(len) PROVE OrderInv' /\ WholeBatchStep
  <2>1. call = "idle" /\ MayExecute
    BY <1>19 DEF SQLPutData, MayExecute, InDialog
  <2>2. CASE call' = "undefined"
    BY <1>7, <1>19, <2>1, <2>2 DEF SQLPutData, Undefined
  <2>3. CASE call' # "undefined"
    BY <1>1, <1>3, <1>19, <2>1, <2>3, PutsOK
  <2> QED
    BY <2>2, <2>3
<1> QED
  BY <1>4, <1>5, <1>6, <1>8, <1>9, <1>10, <1>11, <1>12, <1>13, <1>14, <1>16, <1>17, <1>18, <1>19
  DEF Next

\* The invariant behind the order of the sets, for every tidy application.
THEOREM OrderInvariance == ASSUME Tidy PROVE Spec => []OrderInv
<1>1. ParamInv /\ OrderInv /\ [Next]_vars => OrderInv'
  BY OrderNextOK
<1> QED
  BY OrderInitOK, ParamInvariance, <1>1, PTL DEF Spec

\* The sets of a run are executed from the first on, each once, by whichever of
\* SQLExecute, SQLFetch and SQLMoreResults executes them, for every tidy application.
THEOREM SetsExecutedInOrder == ASSUME Tidy PROVE Spec => []SetsInOrder
<1>1. OrderInv => SetsInOrder
  BY DEF OrderInv
<1> QED
  BY OrderInvariance, <1>1, PTL

\* An execution that succeeds without a dialog executed and counted every set.
THEOREM WholeBatchExecuted == ASSUME Tidy PROVE Spec => WholeBatch
<1>1. ParamInv /\ OrderInv /\ [Next]_vars => [WholeBatchStep]_vars
  BY OrderNextOK
<1> QED
  BY ParamInvariance, OrderInvariance, <1>1, PTL DEF Spec, WholeBatch

\* The loop of BatchExecuteStmt never comes to a set the application does not have, for
\* every tidy application: the assertion of GetParamValues holds.
THEOREM TidyWithinSets == ASSUME Tidy PROVE Spec => []WithinSets
<1>1. ParamInv /\ OrderInv => WithinSets
  <2> SUFFICES ASSUME ParamInv, OrderInv, call = "batch" PROVE ~PastArrays(pd)
    BY DEF WithinSets
  <2>1. pd.paramset_idx \in Nat /\ pd.array_size \in Nat
    BY PDFields DEF ParamInv
  <2> QED
    BY <2>1 DEF OrderInv, PastArrays
<1> QED
  BY ParamInvariance, OrderInvariance, <1>1, PTL

\* The loop of BatchExecuteStmt executes each set once and leaves when none is left, for
\* every tidy application, number of sets and failure.
THEOREM BatchBounded == ASSUME Tidy PROVE Spec => BatchAdvances
<1>1. ParamInv /\ OrderInv /\ [Next]_vars => [BatchAdvancesStep]_vars
  <2> SUFFICES ASSUME ParamInv, OrderInv, Next, call = "batch", call' = "batch"
               PROVE  /\ Len(pd'.records) = Len(pd.records) /\ pd'.array_size = pd.array_size
                      /\ pd'.paramset_idx = pd.paramset_idx + 1 /\ pd'.paramset_idx < pd.array_size
    BY DEF BatchAdvancesStep
  <2>1. SingleExecuteStmt("STILL_EXECUTING")
    BY OnlyDialog DEF BatchStep, StrayRead, Undefined, DialogOpens, LoopEnds
  <2>2. Len(pd'.records) = Len(pd.records) /\ pd'.array_size = pd.array_size
    BY <2>1, SingleExecuteOK
  <2>3. MayExecute
    BY DEF MayExecute
  <2>4. pd'.paramset_idx = pd.paramset_idx + 1 /\ pd'.paramset_idx < pd.array_size
    BY <2>1, <2>3, ExecutesInOrder
  <2> QED
    BY <2>2, <2>4
<1> QED
  BY <1>1, ParamInvariance, OrderInvariance, PTL DEF Spec, BatchAdvances
============================================================================
