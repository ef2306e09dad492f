------------------------- MODULE ConnectionsProofs -------------------------
(***************************************************************************)
(* Theorems about Connections, for any number of connections, statements   *)
(* and descriptors.                                                        *)
(***************************************************************************)
EXTENDS Connections, TLAPS

DbcSet  == [live : BOOLEAN, conn : BOOLEAN, autocommit : BOOLEAN, vec_stmt_ref : Seq(Stmts)]
StmtSet == [live : BOOLEAN, dbc : Dbcs \cup {Nobody}, ard : Descs \cup {Own},
            apd : Descs \cup {Own}, res : Results]
DescSet == [live : BOOLEAN, dbc : Dbcs \cup {Nobody}]

\* An engine: typed, every row counted once, mode and transaction in agreement; in
\* automatic mode work is pending only in a transaction the application left open.
EngineOK(e) ==
  /\ e \in EngineStates
  /\ e.saved + e.pending <= MaxWrites
  /\ ~e.auto => e.tx # "none"
  /\ e.auto /\ e.tx # "none" => e.active # Nobody \/ e.left
  /\ e.auto /\ ~e.left => e.pending = 0
  /\ e.tx = "none" => e.pending = 0

\* A list of statements of d, all allocated, each once.
ListOK(d) ==
  /\ \A i \in DOMAIN dbc[d].vec_stmt_ref :
       stmt[dbc[d].vec_stmt_ref[i]].live /\ stmt[dbc[d].vec_stmt_ref[i]].dbc = d
  /\ \A i, j \in DOMAIN dbc[d].vec_stmt_ref :
       dbc[d].vec_stmt_ref[i] = dbc[d].vec_stmt_ref[j] => i = j

\* A connection the driver manager accepts, or that is connected, is allocated.
DbcOK(d) == (d \in valid \/ dbc[d].conn) => dbc[d].live

\* An allocated statement is on the list of its connection, which is allocated, and uses
\* descriptors of that connection; it is accepted only while the connection is open.
StmtOK(s) ==
  /\ stmt[s].live => /\ stmt[s].dbc \in Dbcs
                     /\ dbc[stmt[s].dbc].live
                     /\ s \in InVec(stmt[s].dbc)
                     /\ \A x \in {stmt[s].ard, stmt[s].apd} \ {Own} :
                          desc[x].live /\ desc[x].dbc = stmt[s].dbc
  /\ s \in valid => stmt[s].live /\ dbc[stmt[s].dbc].conn

DescOK(x) ==
  x \in valid => desc[x].live /\ desc[x].dbc \in Dbcs /\ dbc[desc[x].dbc].conn

Typed ==
  /\ dbc \in [Dbcs -> DbcSet]
  /\ stmt \in [Stmts -> StmtSet]
  /\ desc \in [Descs -> DescSet]
  /\ valid \subseteq Dbcs \cup Stmts \cup Descs
  /\ tran \in {"none", "SQL_SUCCESS", "SQL_ERROR", "EXCEPTION"}

Handles ==
  /\ \A d \in Dbcs : ListOK(d) /\ DbcOK(d)
  /\ \A s \in Stmts : StmtOK(s)
  /\ \A x \in Descs : DescOK(x)

\* No work is pending on a connection that is not open.
Engines ==
  /\ eng \in [Dbcs -> EngineStates]
  /\ \A d \in Dbcs : EngineOK(eng[d]) /\ (~dbc[d].conn => eng[d].pending = 0)

ConnInv == Typed /\ Handles /\ Engines
----------------------------------------------------------------------------
USE ConnectionsAssumption, HandlesAssumption DEF Nobody, Other, Own

(***************************************************************************)
(* The engine.                                                             *)
(***************************************************************************)
\* What is known of an engine before a query ends: not that nothing is pending in
\* automatic mode, since the query that ends may have written.
Counted(e) ==
  /\ e \in EngineStates
  /\ e.saved + e.pending <= MaxWrites
  /\ ~e.auto => e.tx # "none"
  /\ e.tx = "none" => e.pending = 0

\* Every end of a transaction leaves automatic mode and no transaction.
LEMMA EndsTransaction ==
  ASSUME NEW e \in EngineStates, e.saved + e.pending <= MaxWrites
  PROVE  /\ EngineOK(Commit(e)) /\ EngineOK(Rollback(e))
         /\ Commit(e).saved = e.saved + e.pending /\ Commit(e).pending = 0
         /\ Rollback(e).saved = e.saved /\ Rollback(e).pending = 0
         /\ Commit(e).active = e.active /\ Rollback(e).active = e.active
         /\ Commit(e).auto /\ Rollback(e).auto
<1>1. ASSUME NEW f \in EngineStates
      PROVE  /\ EngineOK(ClearTransaction(f))
             /\ ClearTransaction(f).saved = f.saved /\ ClearTransaction(f).pending = 0
             /\ ClearTransaction(f).active = f.active /\ ClearTransaction(f).auto
  <2>1. /\ ClearTransaction(f).saved = f.saved
        /\ ClearTransaction(f).pending = 0 /\ ClearTransaction(f).tx = "none"
        /\ ClearTransaction(f).active = f.active
        /\ ClearTransaction(f).auto /\ ~ClearTransaction(f).left
    BY DEF ClearTransaction, EngineStates
  <2>4. 0 \in 0 .. MaxWrites
    OBVIOUS
  <2>3. ClearTransaction(f) \in EngineStates
    BY <2>4 DEF ClearTransaction, EngineStates
  <2>2. f.saved \in 0 .. MaxWrites
    BY DEF EngineStates
  <2> QED
    BY <2>1, <2>2, <2>3 DEF EngineOK
<1> DEFINE f == [e EXCEPT !.saved = @ + e.pending]
<1>2. f \in EngineStates /\ f.saved = e.saved + e.pending /\ f.active = e.active
  BY DEF EngineStates
<1>3. Commit(e) = ClearTransaction(f) /\ Rollback(e) = ClearTransaction(e)
  BY DEF Commit, Rollback
<1> HIDE DEF f
<1> QED
  BY <1>1, <1>2, <1>3

\* The end of a query, from e to f, loses work only by a rollback in automatic mode,
\* and invalidates the application's transaction only when it is told to.
Ended(e, f, success, invalidate) ==
  /\ EngineOK(f) /\ f.active = Nobody
  /\ (success \/ ~e.auto) => f.saved + f.pending = e.saved + e.pending
  /\ ~e.auto => ~f.auto /\ (f.tx = e.tx \/ (invalidate /\ f.tx = "aborted"))
  /\ e.auto => f.auto
  /\ f.saved >= e.saved

\* The end of a query is one of those.
LEMMA EndsQuery ==
  ASSUME NEW e, Counted(e), NEW success \in BOOLEAN, NEW invalidate \in BOOLEAN
  PROVE  Ended(e, EndQueryInternal(e, success, invalidate), success, invalidate)
<1> DEFINE f == [e EXCEPT !.active = Nobody]
           g == EndQueryInternal(e, success, invalidate)
<1>1. /\ f \in EngineStates /\ f.saved = e.saved /\ f.pending = e.pending /\ f.auto = e.auto
      /\ f.tx = e.tx /\ f.left = e.left /\ f.active = Nobody
  BY DEF Counted, EngineStates
<1>2. e.saved \in Nat /\ e.pending \in Nat /\ e.auto \in BOOLEAN
  BY DEF Counted, EngineStates
<1>3. CASE e.tx = "none"
  <2>1. g = f
    BY <1>1, <1>3 DEF EndQueryInternal
  <2> HIDE DEF f, g
  <2>2. Ended(e, g, success, invalidate)
    BY <1>1, <1>2, <1>3, <2>1 DEF Counted, EngineOK, Ended
  <2> QED
    BY <2>2 DEF g
<1>4. CASE e.tx # "none" /\ e.auto
  <2>1. g = IF success THEN Commit(f) ELSE Rollback(f)
    BY <1>1, <1>4 DEF EndQueryInternal
  <2>2. /\ EngineOK(Commit(f)) /\ EngineOK(Rollback(f))
        /\ Commit(f).saved = f.saved + f.pending /\ Commit(f).pending = 0
        /\ Rollback(f).saved = f.saved /\ Rollback(f).pending = 0
        /\ Commit(f).active = f.active /\ Rollback(f).active = f.active
        /\ Commit(f).auto /\ Rollback(f).auto
    BY <1>1, EndsTransaction DEF Counted
  <2> HIDE DEF f, g
  <2>3. Ended(e, g, success, invalidate)
    BY <1>1, <1>2, <1>4, <2>1, <2>2 DEF Ended
  <2> QED
    BY <2>3 DEF g
<1>5. CASE e.tx # "none" /\ ~e.auto
  <2>1. g = IF invalidate THEN [f EXCEPT !.tx = "aborted"] ELSE f
    BY <1>1, <1>5 DEF EndQueryInternal
  <2> HIDE DEF f, g
  <2> DEFINE h == [f EXCEPT !.tx = "aborted"]
  <2>2. /\ h \in EngineStates /\ h.saved = f.saved /\ h.pending = f.pending /\ h.auto = f.auto
        /\ h.tx = "aborted" /\ h.left = f.left /\ h.active = Nobody
    BY <1>1 DEF EngineStates
  <2>3. g = IF invalidate THEN h ELSE f
    BY <2>1
  <2> HIDE DEF h
  <2>4. Ended(e, g, success, invalidate)
    BY <1>1, <1>2, <1>5, <2>2, <2>3 DEF EngineOK, Counted, Ended
  <2> QED
    BY <2>4 DEF g
<1> QED
  BY <1>2, <1>3, <1>4, <1>5

\* Before a query begins more is known than is needed to end it.
LEMMA OKCounted ==
  ASSUME NEW e, EngineOK(e)
  PROVE  Counted(e)
BY DEF EngineOK, Counted

\* Giving up the active query takes work away only in automatic mode, where there is
\* none but that of a transaction left open.
Cleaned(e, f) ==
  /\ EngineOK(f) /\ f.active = Nobody
  /\ ~e.left => f.saved + f.pending >= e.saved + e.pending
  /\ ~e.auto => ~f.auto /\ f.tx = e.tx /\ f.saved + f.pending = e.saved + e.pending
  /\ f.saved >= e.saved

\* The cleanup before a query is one of those.
LEMMA CleansUp ==
  ASSUME NEW e, EngineOK(e)
  PROVE  Cleaned(e, InitialCleanup(e))
<1> DEFINE g == EndQueryInternal(e, FALSE, FALSE)
<1>1. Counted(e) /\ e.saved \in Nat /\ e.pending \in Nat /\ e.auto \in BOOLEAN
  BY OKCounted DEF EngineOK, EngineStates
<1>2. Ended(e, g, FALSE, FALSE)
  BY <1>1, EndsQuery
<1>4. InitialCleanup(e) = IF e.active = Nobody THEN e ELSE g
  BY DEF InitialCleanup
<1>5. e.auto /\ ~e.left => e.pending = 0
  BY DEF EngineOK
<1> HIDE DEF g
<1>3. g.pending \in Nat /\ g.saved \in Nat /\ g.saved + g.pending <= MaxWrites
  BY <1>2 DEF Ended, EngineOK, EngineStates
<1>6. Cleaned(e, e) \/ e.active # Nobody
  BY <1>1 DEF Cleaned
<1> QED
  BY <1>1, <1>2, <1>3, <1>4, <1>5, <1>6 DEF Ended, Cleaned

\* Work is only taken away with a transaction that was left open or is invalid.
KeepsWork(e, f) ==
  ~e.left /\ e.tx # "aborted" => f.saved + f.pending >= e.saved + e.pending

\* The end of a query keeps the work of an engine between two queries.
LEMMA EndedKeeps ==
  ASSUME NEW e, EngineOK(e), NEW success \in BOOLEAN, NEW invalidate \in BOOLEAN
  PROVE  LET f == EndQueryInternal(e, success, invalidate)
         IN  EngineOK(f) /\ KeepsWork(e, f)
<1> DEFINE f == EndQueryInternal(e, success, invalidate)
<1>1. Ended(e, f, success, invalidate)
  BY OKCounted, EndsQuery
<1> HIDE DEF f
<1>2. /\ e.saved \in Nat /\ e.pending \in Nat /\ e.auto \in BOOLEAN
      /\ f.saved \in Nat /\ f.pending \in Nat
  BY <1>1 DEF Ended, EngineOK, EngineStates
<1>3. e.auto /\ ~e.left => e.pending = 0
  BY DEF EngineOK
<1>4. EngineOK(f) /\ KeepsWork(e, f)
  BY <1>1, <1>2, <1>3 DEF Ended, KeepsWork
<1> QED
  BY <1>4 DEF f

\* A query begins: the transaction it needs is open, and it is the active one.
LEMMA BeginsQuery ==
  ASSUME NEW e, EngineOK(e), CanBegin(e), NEW s \in Stmts
  PROVE  LET q == BeginQueryInternal(e, s)
         IN  /\ EngineOK(q) /\ q.saved = e.saved /\ q.pending = e.pending /\ q.tx # "none"
             /\ q.auto => q.pending = 0
<1> DEFINE q == BeginQueryInternal(e, s)
<1>1. e \in EngineStates /\ e.auto \in BOOLEAN /\ e.tx \in {"none", "open", "aborted"}
  BY DEF EngineOK, EngineStates
<1>2. /\ q \in EngineStates /\ q.saved = e.saved /\ q.pending = e.pending /\ q.auto = e.auto
      /\ q.tx = (IF e.auto THEN "open" ELSE e.tx) /\ q.left = e.left /\ q.active = s
  BY <1>1 DEF BeginQueryInternal, EngineStates
<1> HIDE DEF q
<1>3. EngineOK(q) /\ q.tx # "none" /\ (q.auto => q.pending = 0)
  BY <1>1, <1>2 DEF EngineOK, CanBegin
<1> QED
  BY <1>2, <1>3 DEF q

\* What comes of a query: a failure, a row written, or rows.
LEMMA RunsQuery ==
  ASSUME NEW e, EngineOK(e), CanBegin(e), NEW s \in Stmts
  PROVE  LET q == BeginQueryInternal(e, s)
             w == [q EXCEPT !.pending = @ + 1]
         IN  /\ \A inv \in BOOLEAN : LET f == EndQueryInternal(q, FALSE, inv) IN
                  EngineOK(f) /\ f.saved + f.pending >= e.saved + e.pending
             /\ q.saved + q.pending < MaxWrites =>
                  LET f == EndQueryInternal(w, TRUE, FALSE)
                  IN  EngineOK(f) /\ f.saved + f.pending >= e.saved + e.pending
             /\ EngineOK(q) /\ q.saved + q.pending = e.saved + e.pending
             /\ LET f == EndQueryInternal(q, TRUE, FALSE)
                IN  EngineOK(f) /\ f.saved + f.pending >= e.saved + e.pending
<1> DEFINE q == BeginQueryInternal(e, s)
           w == [q EXCEPT !.pending = @ + 1]
<1>1. /\ EngineOK(q) /\ q.saved = e.saved /\ q.pending = e.pending /\ q.tx # "none"
      /\ q.auto => q.pending = 0
  BY BeginsQuery
<1> HIDE DEF q
<1>2. /\ q \in EngineStates /\ q.saved \in 0 .. MaxWrites /\ q.pending \in 0 .. MaxWrites
      /\ q.auto \in BOOLEAN /\ Counted(q)
  BY <1>1, OKCounted DEF EngineOK, EngineStates
<1>3. ASSUME NEW inv \in BOOLEAN, NEW ok \in BOOLEAN
      PROVE  LET f == EndQueryInternal(q, ok, inv)
             IN  EngineOK(f) /\ f.saved + f.pending >= e.saved + e.pending
  <2> DEFINE f == EndQueryInternal(q, ok, inv)
  <2>1. Ended(q, f, ok, inv)
    BY <1>2, EndsQuery
  <2> HIDE DEF f
  <2>2. f.saved \in Nat /\ f.pending \in Nat
    BY <2>1 DEF Ended, EngineOK, EngineStates
  <2>3. EngineOK(f) /\ f.saved + f.pending >= e.saved + e.pending
    BY <1>1, <1>2, <2>1, <2>2 DEF Ended
  <2> QED
    BY <2>3 DEF f
<1>4. ASSUME q.saved + q.pending < MaxWrites
      PROVE  LET f == EndQueryInternal(w, TRUE, FALSE)
             IN  EngineOK(f) /\ f.saved + f.pending >= e.saved + e.pending
  <2> DEFINE f == EndQueryInternal(w, TRUE, FALSE)
  <2>1. q.pending + 1 \in 0 .. MaxWrites
    BY <1>2, <1>4
  <2>2. /\ w \in EngineStates /\ w.saved = q.saved /\ w.pending = q.pending + 1 /\ w.tx = q.tx
        /\ w.auto = q.auto
    BY <1>2, <2>1 DEF EngineStates
  <2> HIDE DEF w, f
  <2>3. Counted(w)
    BY <1>1, <1>2, <1>4, <2>2 DEF Counted
  <2>4. Ended(w, f, TRUE, FALSE)
    BY <2>3, EndsQuery DEF f
  <2>5. EngineOK(f) /\ f.saved + f.pending >= e.saved + e.pending
    BY <1>1, <1>2, <2>2, <2>4 DEF Ended
  <2> QED
    BY <2>5 DEF f
<1> QED
  BY <1>1, <1>3, <1>4 DEF q

\* Switching the mode opens a transaction or leaves one open.
LEMMA SwitchesMode ==
  ASSUME NEW e, EngineOK(e), NEW b \in BOOLEAN
  PROVE  LET f == SetAutoCommit(e, b)
         IN  EngineOK(f) /\ f.saved = e.saved /\ f.pending = e.pending
<1> DEFINE f == SetAutoCommit(e, b)
<1>1. e \in EngineStates /\ e.auto \in BOOLEAN /\ e.left \in BOOLEAN /\ e.tx \in {"none", "open", "aborted"}
  BY DEF EngineOK, EngineStates
<1>2. /\ f.saved = e.saved /\ f.pending = e.pending /\ f.auto = b /\ f.active = e.active
      /\ f.tx = (IF ~b /\ e.tx = "none" THEN "open" ELSE e.tx)
      /\ f.left = (b /\ (e.left \/ (~e.auto /\ e.tx # "none")))
  BY <1>1 DEF SetAutoCommit, EngineStates
<1>3. f \in EngineStates
  BY <1>1 DEF SetAutoCommit, EngineStates
<1> HIDE DEF f
<1>4. EngineOK(f) /\ f.saved = e.saved /\ f.pending = e.pending
  BY <1>1, <1>2, <1>3 DEF EngineOK
<1> QED
  BY <1>4 DEF f

\* A new connection, on which rows were saved before.
LEMMA NewEngineOK ==
  ASSUME NEW n \in 0 .. MaxWrites
  PROVE  LET f == [NewEngine EXCEPT !.saved = n] IN EngineOK(f) /\ f.saved = n /\ f.pending = 0
<1> DEFINE f == [NewEngine EXCEPT !.saved = n]
<1>1. 0 \in 0 .. MaxWrites
  OBVIOUS
<1>2. /\ f.auto /\ ~f.left /\ f.tx = "none" /\ f.pending = 0
      /\ f.active = Nobody /\ f.saved = n
  BY DEF NewEngine
<1>3. f \in EngineStates
  BY <1>1 DEF NewEngine, EngineStates
<1> HIDE DEF f
<1>4. EngineOK(f) /\ f.saved = n /\ f.pending = 0
  BY <1>2, <1>3 DEF EngineOK
<1> QED
  BY <1>4 DEF f

\* Another query becomes the active one, or a query nobody reads.
LEMMA SetsActive ==
  ASSUME NEW e, EngineOK(e)
  PROVE  LET f == [e EXCEPT !.active = Other]
         IN  EngineOK(f) /\ f.saved = e.saved /\ f.pending = e.pending /\ f.left = e.left
             /\ f.tx = e.tx /\ f.auto = e.auto
<1> DEFINE f == [e EXCEPT !.active = Other]
<1>1. /\ f \in EngineStates /\ f.saved = e.saved /\ f.pending = e.pending /\ f.auto = e.auto
      /\ f.tx = e.tx /\ f.left = e.left /\ f.active = Other
  BY DEF EngineOK, EngineStates
<1> HIDE DEF f
<1>2. EngineOK(f)
  BY <1>1 DEF EngineOK
<1> QED
  BY <1>1, <1>2 DEF f

\* The engine of a statement's connection once it has let go of its result.
LEMMA ReleasedOK ==
  ASSUME NEW s, EngineOK(eng[stmt[s].dbc])
  PROVE  LET e == eng[stmt[s].dbc]
             f == Released(s)
         IN  EngineOK(f) /\ f.saved = e.saved /\ f.pending = e.pending /\ f.left = e.left
             /\ f.tx = e.tx /\ f.auto = e.auto
BY SetsActive DEF Released
----------------------------------------------------------------------------
(***************************************************************************)
(* Handles.                                                                *)
(***************************************************************************)
\* Only the engines change, the results of statements, and the mode asked for.
LEMMA SameHandles ==
  ASSUME Handles, UNCHANGED <<desc, valid>>,
         \A d \in Dbcs : /\ dbc'[d].live = dbc[d].live
                         /\ dbc'[d].conn = dbc[d].conn
                         /\ dbc'[d].vec_stmt_ref = dbc[d].vec_stmt_ref,
         Typed,
         \A s \in Stmts : /\ stmt'[s].live = stmt[s].live
                          /\ stmt'[s].dbc = stmt[s].dbc
                          /\ stmt'[s].ard = stmt[s].ard
                          /\ stmt'[s].apd = stmt[s].apd
  PROVE  Handles'
<1>1. \A d \in Dbcs : \A i \in DOMAIN dbc[d].vec_stmt_ref : dbc[d].vec_stmt_ref[i] \in Stmts
  BY DEF Typed, DbcSet
<1>2. ASSUME NEW d \in Dbcs PROVE ListOK(d)' /\ DbcOK(d)'
  BY <1>1 DEF Handles, ListOK, DbcOK
<1>3. ASSUME NEW s \in Stmts PROVE StmtOK(s)'
  <2>1. StmtOK(s)
    BY DEF Handles
  <2>2. s \in valid => stmt[s].dbc \in Dbcs
    BY <2>1 DEF StmtOK
  <2> QED
    BY <2>1, <2>2 DEF StmtOK, InVec
<1>4. ASSUME NEW x \in Descs PROVE DescOK(x)'
  BY DEF Handles, DescOK
<1> QED
  BY <1>2, <1>3, <1>4 DEF Handles

\* The connection of a statement an application can use is open, and so is its engine.
LEMMA ConnectedOK ==
  ASSUME ConnInv, NEW s \in Stmts, Connected(s)
  PROVE  stmt[s].dbc \in Dbcs /\ EngineOK(eng[stmt[s].dbc])
<1>1. stmt[s].dbc \in Dbcs
  BY DEF ConnInv, Handles, StmtOK, Connected
<1> QED
  BY <1>1 DEF ConnInv, Engines

\* A statement gets another result, and the engine of its connection another state.
LEMMA BecomesKeeps ==
  ASSUME ConnInv, NEW s \in Stmts, Connected(s), NEW r \in Results, NEW e, EngineOK(e),
         Becomes(s, r, e)
  PROVE  ConnInv'
<1>1. Typed /\ Handles /\ Engines
  BY DEF ConnInv
<1>2. /\ stmt' = [stmt EXCEPT ![s].res = r] /\ eng' = [eng EXCEPT ![stmt[s].dbc] = e]
      /\ UNCHANGED <<dbc, desc, valid, tran>>
  BY DEF Becomes
<1>3. /\ stmt' \in [Stmts -> StmtSet]
      /\ \A t \in Stmts : /\ stmt'[t].live = stmt[t].live
                          /\ stmt'[t].dbc = stmt[t].dbc
                          /\ stmt'[t].ard = stmt[t].ard
                          /\ stmt'[t].apd = stmt[t].apd
  BY <1>1, <1>2 DEF Typed, StmtSet
<1>4. Typed'
  BY <1>1, <1>2, <1>3 DEF Typed
<1>5. Handles'
  BY <1>1, <1>2, <1>3, SameHandles
<1>7. stmt[s].dbc \in Dbcs /\ dbc[stmt[s].dbc].conn
  BY ConnectedOK DEF Connected
<1>6. Engines'
  BY <1>1, <1>2, <1>7 DEF Engines, EngineOK
<1> QED
  BY <1>4, <1>5, <1>6 DEF ConnInv

\* What a call on a statement does to the engine of its connection.
StatementStep(s) ==
  \E r \in Results, e \in EngineStates :
    EngineOK(e) /\ KeepsWork(eng[stmt[s].dbc], e) /\ Becomes(s, r, e)

\* The engine a query finds.
LEMMA CleanedOK ==
  ASSUME NEW s, EngineOK(eng[stmt[s].dbc])
  PROVE  LET e == InitialCleanup(Released(s))
         IN  /\ EngineOK(e) /\ KeepsWork(eng[stmt[s].dbc], e)
             /\ e.saved \in Nat /\ e.pending \in Nat
<1> DEFINE e0 == eng[stmt[s].dbc]
           f == Released(s)
           e == InitialCleanup(f)
<1>1. /\ EngineOK(f) /\ f.saved = e0.saved /\ f.pending = e0.pending /\ f.left = e0.left
      /\ f.tx = e0.tx /\ f.auto = e0.auto
  BY ReleasedOK
<1>2. Cleaned(f, e)
  BY <1>1, CleansUp
<1> HIDE DEF e0, f, e
<1>3. EngineOK(e) /\ KeepsWork(e0, e) /\ e.saved \in Nat /\ e.pending \in Nat
  BY <1>1, <1>2 DEF Cleaned, KeepsWork, EngineOK, EngineStates
<1> QED
  BY <1>3 DEF e0, f, e

\* SQLCloseCursor and a text that does not parse only let go of the result.
LEMMA CloseStep ==
  ASSUME ConnInv, NEW s \in Stmts, SQLCloseCursor(s) \/ ParseError(s)
  PROVE  StatementStep(s)
<1>1. Becomes(s, "none", Released(s)) /\ EngineOK(eng[stmt[s].dbc])
  BY ConnectedOK DEF SQLCloseCursor, ParseError
<1>2. EngineOK(Released(s)) /\ KeepsWork(eng[stmt[s].dbc], Released(s))
  BY <1>1, ReleasedOK DEF KeepsWork, EngineOK, EngineStates
<1> QED
  BY <1>1, <1>2 DEF StatementStep, Results, EngineOK

\* SQLPrepare gives up the active query, and may invalidate the transaction.
LEMMA PrepareStep ==
  ASSUME ConnInv, NEW s \in Stmts, SQLPrepare(s)
  PROVE  StatementStep(s)
<1> DEFINE e == InitialCleanup(Released(s))
           f == [e EXCEPT !.tx = "aborted"]
<1>1. EngineOK(eng[stmt[s].dbc])
  BY ConnectedOK DEF SQLPrepare
<1>2. EngineOK(e) /\ KeepsWork(eng[stmt[s].dbc], e) /\ e.saved \in Nat /\ e.pending \in Nat
  BY <1>1, CleanedOK
<1>3. Becomes(s, "none", e) \/ (e.tx # "none" /\ Becomes(s, "none", f))
  BY DEF SQLPrepare
<1> HIDE DEF e
<1>4. /\ f \in EngineStates /\ f.saved = e.saved /\ f.pending = e.pending /\ f.auto = e.auto
      /\ f.tx = "aborted" /\ f.left = e.left /\ f.active = e.active
  BY <1>2 DEF EngineOK, EngineStates
<1> HIDE DEF f
<1>5. e.tx # "none" => EngineOK(f) /\ KeepsWork(eng[stmt[s].dbc], f)
  BY <1>2, <1>4 DEF EngineOK, KeepsWork
<1> QED
  BY <1>2, <1>3, <1>5 DEF StatementStep, Results, EngineOK

\* A query that cannot begin leaves the work as it was.
LEMMA BeginFailsStep ==
  ASSUME ConnInv, NEW s \in Stmts, BeginFails(s)
  PROVE  StatementStep(s)
<1> DEFINE e == InitialCleanup(Released(s))
           f == [e EXCEPT !.active = Other]
<1>1. EngineOK(eng[stmt[s].dbc])
  BY ConnectedOK DEF BeginFails
<1>2. EngineOK(e) /\ KeepsWork(eng[stmt[s].dbc], e)
  BY <1>1, CleanedOK
<1>3. Becomes(s, "none", f)
  BY DEF BeginFails
<1> HIDE DEF e
<1>4. EngineOK(f) /\ f.saved = e.saved /\ f.pending = e.pending
  BY <1>2, SetsActive
<1> HIDE DEF f
<1>5. KeepsWork(eng[stmt[s].dbc], f)
  BY <1>2, <1>4 DEF KeepsWork
<1> QED
  BY <1>3, <1>4, <1>5 DEF StatementStep, Results, EngineOK

\* SQLExecute, however the query ends.
LEMMA ExecuteStep ==
  ASSUME ConnInv, NEW s \in Stmts, SQLExecute(s)
  PROVE  StatementStep(s)
<1> DEFINE e0 == eng[stmt[s].dbc]
           e == InitialCleanup(Released(s))
           q == BeginQueryInternal(e, s)
           w == [q EXCEPT !.pending = @ + 1]
<1>1. EngineOK(e0)
  BY ConnectedOK DEF SQLExecute
<1>2. EngineOK(e) /\ KeepsWork(e0, e) /\ e.saved \in Nat /\ e.pending \in Nat
  BY <1>1, CleanedOK
<1>3. /\ CanBegin(e)
      /\ \/ \E inv \in BOOLEAN : Becomes(s, "none", EndQueryInternal(q, FALSE, inv))
         \/ q.saved + q.pending < MaxWrites /\ Becomes(s, "complete", EndQueryInternal(w, TRUE, FALSE))
         \/ Becomes(s, "stream", q)
         \/ Becomes(s, "empty", EndQueryInternal(q, TRUE, FALSE))
  BY DEF SQLExecute
<1> HIDE DEF e0, e
<1>4. /\ \A inv \in BOOLEAN : LET f == EndQueryInternal(q, FALSE, inv) IN
           EngineOK(f) /\ f.saved + f.pending >= e.saved + e.pending
      /\ q.saved + q.pending < MaxWrites =>
           LET f == EndQueryInternal(w, TRUE, FALSE)
           IN  EngineOK(f) /\ f.saved + f.pending >= e.saved + e.pending
      /\ EngineOK(q) /\ q.saved + q.pending = e.saved + e.pending
      /\ LET f == EndQueryInternal(q, TRUE, FALSE)
         IN  EngineOK(f) /\ f.saved + f.pending >= e.saved + e.pending
  BY <1>2, <1>3, RunsQuery
<1> HIDE DEF q, w
<1>5. ASSUME NEW f, EngineOK(f), f.saved + f.pending >= e.saved + e.pending, NEW r \in Results,
             Becomes(s, r, f)
      PROVE  StatementStep(s)
  <2>1. /\ f.saved \in Nat /\ f.pending \in Nat /\ f \in EngineStates
        /\ e0.saved \in Nat /\ e0.pending \in Nat
    BY <1>1, <1>5 DEF EngineOK, EngineStates
  <2>2. KeepsWork(e0, f)
    BY <1>2, <1>5, <2>1 DEF KeepsWork
  <2> QED
    BY <1>5, <2>1, <2>2 DEF StatementStep, e0
<1>6. q.saved + q.pending >= e.saved + e.pending
  BY <1>2, <1>4
<1> QED
  BY <1>3, <1>4, <1>5, <1>6 DEF Results

\* FetchNext at the end of the rows held.
LEMMA FetchStep ==
  ASSUME ConnInv, NEW s \in Stmts, FetchNext(s)
  PROVE  StatementStep(s)
<1> DEFINE e == eng[stmt[s].dbc]
<1>1. EngineOK(e)
  BY ConnectedOK DEF FetchNext
<1>2. \/ Becomes(s, "held", EndQueryInternal(e, TRUE, FALSE))
      \/ \E inv \in BOOLEAN : Becomes(s, "none", EndQueryInternal(e, FALSE, inv))
      \/ Becomes(s, "none", e)
      \/ Becomes(s, "held", e)
  BY DEF FetchNext
<1>3. ASSUME NEW ok \in BOOLEAN, NEW inv \in BOOLEAN
      PROVE  LET f == EndQueryInternal(e, ok, inv)
             IN  EngineOK(f) /\ KeepsWork(e, f)
  BY <1>1, EndedKeeps
<1>4. KeepsWork(e, e)
  BY <1>1 DEF KeepsWork, EngineOK, EngineStates
<1>5. ASSUME NEW f, EngineOK(f), KeepsWork(e, f), NEW r \in Results, Becomes(s, r, f)
      PROVE  StatementStep(s)
  BY <1>5 DEF StatementStep, EngineOK
<1> HIDE DEF e
<1> QED
  BY <1>1, <1>2, <1>3, <1>4, <1>5 DEF Results

\* Calls on statements keep the invariant.
LEMMA StatementStepKeeps ==
  ASSUME ConnInv, NEW s \in Stmts, Connected(s), StatementStep(s)
  PROVE  ConnInv'
BY ConnectedOK, BecomesKeeps DEF StatementStep
----------------------------------------------------------------------------
(***************************************************************************)
(* Allocating, connecting and freeing.                                     *)
(***************************************************************************)
\* What of a typed state is needed of each handle.
LEMMA Fields ==
  ASSUME ConnInv
  PROVE  /\ \A d \in Dbcs : /\ dbc[d] \in DbcSet /\ dbc[d].live \in BOOLEAN /\ dbc[d].conn \in BOOLEAN
                            /\ dbc[d].autocommit \in BOOLEAN /\ dbc[d].vec_stmt_ref \in Seq(Stmts)
         /\ \A s \in Stmts : stmt[s] \in StmtSet /\ stmt[s].live \in BOOLEAN
         /\ \A x \in Descs : desc[x] \in DescSet /\ desc[x].live \in BOOLEAN
BY DEF ConnInv, Typed, DbcSet, StmtSet, DescSet

\* A new connection has no statement: nothing refers to the address before.
LEMMA AllocDbcKeeps ==
  ASSUME ConnInv, NEW d \in Dbcs, AllocDbc(d)
  PROVE  ConnInv'
<1>1. Typed /\ Handles /\ Engines
  BY DEF ConnInv
<1> DEFINE new == [NoDbc EXCEPT !.live = TRUE]
<1>2. new.live /\ ~new.conn /\ new.vec_stmt_ref = << >>
  BY DEF NoDbc
<1>12. << >> \in Seq(Stmts)
  OBVIOUS
<1>3. new \in DbcSet
  BY <1>12 DEF NoDbc, DbcSet
<1>4. /\ ~dbc[d].live /\ dbc' = [dbc EXCEPT ![d] = new] /\ valid' = valid \cup {d}
      /\ UNCHANGED <<stmt, desc, eng, tran>>
  BY DEF AllocDbc
<1> HIDE DEF new
<1>5. dbc'[d] = new /\ \A c \in Dbcs \ {d} : dbc'[c] = dbc[c]
  BY <1>1, <1>4 DEF Typed
<1>6. Typed'
  BY <1>1, <1>3, <1>4 DEF Typed
<1>7. d \notin valid /\ ~dbc[d].conn
  BY <1>1, <1>4 DEF Handles, DbcOK
<1>8. \A c \in Dbcs : ListOK(c)' /\ DbcOK(c)'
  BY <1>1, <1>2, <1>4, <1>5 DEF Handles, ListOK, DbcOK
<1>9. ASSUME NEW s \in Stmts PROVE StmtOK(s)'
  <2>1. StmtOK(s) /\ (s \in valid' => s \in valid)
    BY <1>1, <1>4 DEF Handles
  <2>2. stmt[s].live => stmt[s].dbc # d
    BY <1>4, <2>1 DEF StmtOK
  <2> QED
    BY <1>4, <1>5, <2>1, <2>2 DEF StmtOK, InVec
<1>10. ASSUME NEW x \in Descs PROVE DescOK(x)'
  BY <1>1, <1>4, <1>5, <1>7 DEF Handles, DescOK
<1>11. Engines'
  BY <1>1, <1>2, <1>4, <1>5, <1>7 DEF Engines, EngineOK
<1> QED
  BY <1>6, <1>8, <1>9, <1>10, <1>11 DEF ConnInv, Handles

\* A new statement was on no list, and is last on that of its connection.
LEMMA AllocStmtKeeps ==
  ASSUME ConnInv, NEW d \in Dbcs, NEW s \in Stmts, AllocStmt(d, s)
  PROVE  ConnInv'
<1>1. Typed /\ Handles /\ Engines
  BY DEF ConnInv
<1> DEFINE new == [NoStmt EXCEPT !.live = TRUE, !.dbc = d]
           vec == dbc[d].vec_stmt_ref
           ext == Append(vec, s)
<1>2. new.live /\ new.dbc = d /\ new.ard = Own /\ new.apd = Own
  BY DEF NoStmt
<1>3. new \in StmtSet
  BY DEF NoStmt, StmtSet, Results
<1>4. /\ d \in valid /\ dbc[d].conn /\ ~stmt[s].live /\ stmt' = [stmt EXCEPT ![s] = new]
      /\ dbc' = [dbc EXCEPT ![d].vec_stmt_ref = ext]
      /\ valid' = valid \cup {s} /\ UNCHANGED <<desc, eng, tran>>
  BY DEF AllocStmt
<1>5. /\ vec \in Seq(Stmts) /\ ext \in Seq(Stmts)
      /\ DOMAIN ext = 1 .. Len(vec) + 1 /\ DOMAIN vec = 1 .. Len(vec) /\ Len(vec) \in Nat
      /\ \A i \in DOMAIN vec : ext[i] = vec[i]
      /\ ext[Len(vec) + 1] = s
  BY Fields
<1> HIDE DEF new, ext, vec
<1>6. /\ stmt'[s] = new /\ \A t \in Stmts \ {s} : stmt'[t] = stmt[t]
      /\ stmt' \in [Stmts -> StmtSet]
  BY <1>1, <1>3, <1>4 DEF Typed
<1>7. /\ dbc'[d].vec_stmt_ref = ext /\ dbc'[d].live = dbc[d].live /\ dbc'[d].conn = dbc[d].conn
      /\ \A c \in Dbcs \ {d} : dbc'[c] = dbc[c]
      /\ dbc' \in [Dbcs -> DbcSet]
  <2>1. dbc \in [Dbcs -> DbcSet]
    BY <1>1 DEF Typed
  <2> DEFINE upd == [dbc[d] EXCEPT !.vec_stmt_ref = ext]
  <2>2. /\ upd \in DbcSet /\ upd.vec_stmt_ref = ext /\ upd.live = dbc[d].live
        /\ upd.conn = dbc[d].conn
    BY <1>5, <2>1 DEF DbcSet
  <2>3. dbc' = [dbc EXCEPT ![d] = upd]
    BY <1>4
  <2> HIDE DEF upd
  <2> QED
    BY <2>1, <2>2, <2>3
<1>8. Typed'
  BY <1>1, <1>4, <1>6, <1>7 DEF Typed
<1>9. \A c \in Dbcs : \A i \in DOMAIN dbc[c].vec_stmt_ref :
        dbc[c].vec_stmt_ref[i] \in Stmts \ {s} /\ stmt[dbc[c].vec_stmt_ref[i]].live
        /\ stmt[dbc[c].vec_stmt_ref[i]].dbc = c
  <2>1. \A c \in Dbcs : \A i \in DOMAIN dbc[c].vec_stmt_ref : dbc[c].vec_stmt_ref[i] \in Stmts
    BY <1>1 DEF Typed, DbcSet
  <2> QED
    BY <1>1, <1>4, <2>1 DEF Handles, ListOK
<1>10. ASSUME NEW c \in Dbcs PROVE ListOK(c)' /\ DbcOK(c)'
  <2>1. ListOK(c) /\ DbcOK(c)
    BY <1>1 DEF Handles
  <2>2. c \in valid' => c \in valid
    BY <1>4
  <2>3. CASE c # d
    BY <1>4, <1>6, <1>7, <1>9, <2>1, <2>2, <2>3 DEF ListOK, DbcOK
  <2>4. CASE c = d
    <3>1. \A i \in DOMAIN ext : i = Len(vec) + 1 \/ i \in DOMAIN vec
      BY <1>5
    <3>2. \A i \in DOMAIN vec : vec[i] \in Stmts \ {s} /\ stmt[vec[i]].live /\ stmt[vec[i]].dbc = d
      BY <1>9 DEF vec
    <3>3. \A i \in DOMAIN ext : stmt'[ext[i]].live /\ stmt'[ext[i]].dbc = d
      BY <1>2, <1>5, <1>6, <3>1, <3>2
    <3>4. \A i, j \in DOMAIN vec : vec[i] = vec[j] => i = j
      BY <2>1, <2>4 DEF ListOK, vec
    <3>5. \A i, j \in DOMAIN ext : ext[i] = ext[j] => i = j
      BY <1>5, <3>1, <3>2, <3>4
    <3> QED
      BY <1>4, <1>7, <2>1, <2>2, <2>4, <3>3, <3>5 DEF ListOK, DbcOK
  <2> QED
    BY <2>3, <2>4
<1>11. \A c \in Dbcs : dbc'[c].live = dbc[c].live /\ dbc'[c].conn = dbc[c].conn
  BY <1>7
<1>12. ASSUME NEW c \in Dbcs, NEW t \in InVec(c) PROVE t \in InVec(c)'
  <2>1. PICK i \in DOMAIN dbc[c].vec_stmt_ref : t = dbc[c].vec_stmt_ref[i]
    BY <1>12 DEF InVec
  <2>2. i \in DOMAIN dbc'[c].vec_stmt_ref /\ t = dbc'[c].vec_stmt_ref[i]
    BY SMTT(30), <1>5, <1>7, <2>1 DEF vec
  <2> QED
    BY <2>2 DEF InVec
<1>13. ASSUME NEW t \in Stmts PROVE StmtOK(t)'
  <2>1. StmtOK(t)
    BY <1>1 DEF Handles
  <2>2. CASE t = s
    <3>1. dbc[d].live /\ s \in InVec(d)'
      BY <1>1, <1>4, <1>5, <1>7 DEF Handles, DbcOK, InVec
    <3> QED
      BY <1>2, <1>4, <1>6, <1>11, <2>2, <3>1 DEF StmtOK
  <2>3. CASE t # s
    BY <1>4, <1>6, <1>11, <1>12, <2>1, <2>3 DEF StmtOK
  <2> QED
    BY <2>2, <2>3
<1>14. ASSUME NEW x \in Descs PROVE DescOK(x)'
  BY <1>1, <1>4, <1>11 DEF Handles, DescOK
<1>15. Engines'
  BY <1>1, <1>4, <1>11 DEF Engines, EngineOK
<1> QED
  BY <1>8, <1>10, <1>13, <1>14, <1>15 DEF ConnInv, Handles

\* A new descriptor was used by no statement.
LEMMA AllocDescKeeps ==
  ASSUME ConnInv, NEW d \in Dbcs, NEW x \in Descs, AllocDesc(d, x)
  PROVE  ConnInv'
<1>1. Typed /\ Handles /\ Engines
  BY DEF ConnInv
<1> DEFINE new == [live |-> TRUE, dbc |-> d]
<1>2. new.live /\ new.dbc = d /\ new \in DescSet
  BY DEF DescSet
<1>3. /\ d \in valid /\ dbc[d].conn /\ ~desc[x].live /\ desc' = [desc EXCEPT ![x] = new]
      /\ valid' = valid \cup {x} /\ UNCHANGED <<dbc, stmt, eng, tran>>
  BY DEF AllocDesc
<1> HIDE DEF new
<1>4. /\ desc'[x] = new /\ \A y \in Descs \ {x} : desc'[y] = desc[y]
      /\ desc' \in [Descs -> DescSet]
  BY <1>1, <1>2, <1>3 DEF Typed
<1>5. Typed'
  BY <1>1, <1>3, <1>4 DEF Typed
<1>6. \A c \in Dbcs : ListOK(c)' /\ DbcOK(c)'
  BY <1>1, <1>3 DEF Handles, ListOK, DbcOK
<1>7. ASSUME NEW s \in Stmts PROVE StmtOK(s)'
  <2>1. StmtOK(s) /\ (s \in valid' => s \in valid)
    BY <1>1, <1>3 DEF Handles
  <2>2. {stmt[s].ard, stmt[s].apd} \ {Own} \subseteq Descs
    BY <1>1 DEF Typed, StmtSet
  <2>3. stmt[s].live => x \notin {stmt[s].ard, stmt[s].apd} \ {Own}
    BY <1>3, <2>1 DEF StmtOK
  <2> QED
    BY <1>3, <1>4, <2>1, <2>2, <2>3 DEF StmtOK, InVec
<1>8. ASSUME NEW y \in Descs PROVE DescOK(y)'
  BY <1>1, <1>2, <1>3, <1>4 DEF Handles, DescOK
<1>9. Engines'
  BY <1>1, <1>3 DEF Engines, EngineOK
<1> QED
  BY <1>5, <1>6, <1>7, <1>8, <1>9 DEF ConnInv, Handles

\* Connecting starts a new engine, on which nothing was pending.
LEMMA SetConnectionKeeps ==
  ASSUME ConnInv, NEW d \in Dbcs, SetConnection(d)
  PROVE  /\ ConnInv'
         /\ \A c \in Dbcs : eng'[c].saved + eng'[c].pending = eng[c].saved + eng[c].pending
<1>1. Typed /\ Handles /\ Engines
  BY DEF ConnInv
<1> DEFINE f == [NewEngine EXCEPT !.saved = eng[d].saved]
           g == SetAutoCommit(f, dbc[d].autocommit)
<1>2. eng[d].saved \in 0 .. MaxWrites /\ eng \in [Dbcs -> EngineStates] /\ eng[d].pending = 0
  BY <1>1 DEF Engines, EngineStates, SetConnection
<1>3. EngineOK(f) /\ f.saved = eng[d].saved /\ f.pending = 0
  BY <1>2, NewEngineOK
<1>4. dbc[d].autocommit \in BOOLEAN /\ dbc \in [Dbcs -> DbcSet]
  BY <1>1 DEF Typed, DbcSet
<1> HIDE DEF f
<1>5. EngineOK(g) /\ g.saved = f.saved /\ g.pending = f.pending
  BY <1>3, <1>4, SwitchesMode
<1>6. /\ d \in valid /\ ~dbc[d].conn /\ dbc' = [dbc EXCEPT ![d].conn = TRUE]
      /\ eng' = [eng EXCEPT ![d] = g] /\ UNCHANGED <<stmt, desc, valid, tran>>
  BY DEF SetConnection, f
<1> HIDE DEF g
<1>7. /\ dbc' \in [Dbcs -> DbcSet] /\ dbc'[d].conn
      /\ \A c \in Dbcs : dbc'[c].live = dbc[c].live /\ dbc'[c].vec_stmt_ref = dbc[c].vec_stmt_ref
      /\ \A c \in Dbcs \ {d} : dbc'[c] = dbc[c]
  BY <1>4, <1>6 DEF DbcSet
<1>8. Typed'
  BY <1>1, <1>6, <1>7 DEF Typed
<1>9. \A c \in Dbcs : ListOK(c)' /\ DbcOK(c)'
  BY <1>1, <1>6, <1>7 DEF Handles, ListOK, DbcOK
<1>10. \A s \in Stmts : StmtOK(s)'
  BY <1>1, <1>6, <1>7 DEF Handles, StmtOK, InVec
<1>11. \A x \in Descs : DescOK(x)'
  BY <1>1, <1>6, <1>7 DEF Handles, DescOK
<1>12. /\ eng' \in [Dbcs -> EngineStates] /\ eng'[d] = g
       /\ \A c \in Dbcs \ {d} : eng'[c] = eng[c]
  BY <1>2, <1>5, <1>6 DEF EngineOK
<1>13. Engines'
  BY <1>1, <1>5, <1>7, <1>12 DEF Engines
<1>14. \A c \in Dbcs : eng'[c].saved + eng'[c].pending = eng[c].saved + eng[c].pending
  BY <1>2, <1>3, <1>5, <1>12
<1> QED
  BY <1>8, <1>9, <1>10, <1>11, <1>13, <1>14 DEF ConnInv, Handles

\* Disconnecting keeps the handles and their lists; the engine starts anew.
LEMMA DisconnectKeeps ==
  ASSUME ConnInv, NEW d \in Dbcs, SQLDisconnect(d)
  PROVE  ConnInv' /\ \A c \in Dbcs \ {d} : eng'[c] = eng[c]
<1>1. Typed /\ Handles /\ Engines
  BY DEF ConnInv
<1> DEFINE f == [NewEngine EXCEPT !.saved = eng[d].saved]
<1>2. eng[d].saved \in 0 .. MaxWrites /\ eng \in [Dbcs -> EngineStates]
  BY <1>1 DEF Engines, EngineStates
<1>3. EngineOK(f) /\ f.pending = 0
  BY <1>2, NewEngineOK
<1>4. /\ dbc' = [dbc EXCEPT ![d].conn = FALSE] /\ eng' = [eng EXCEPT ![d] = f]
      /\ stmt' = [s \in Stmts |-> IF stmt[s].dbc = d /\ Streaming(s)
                                  THEN [stmt[s] EXCEPT !.res = "orphan"] ELSE stmt[s]]
      /\ valid' = valid \ ({s \in Stmts : stmt[s].dbc = d} \cup {x \in Descs : desc[x].dbc = d})
      /\ UNCHANGED <<desc, tran>>
  BY DEF SQLDisconnect
<1> HIDE DEF f
<1>5. dbc \in [Dbcs -> DbcSet] /\ stmt \in [Stmts -> StmtSet]
  BY <1>1 DEF Typed
<1>6. /\ dbc' \in [Dbcs -> DbcSet] /\ ~dbc'[d].conn
      /\ \A c \in Dbcs : dbc'[c].live = dbc[c].live /\ dbc'[c].vec_stmt_ref = dbc[c].vec_stmt_ref
      /\ \A c \in Dbcs \ {d} : dbc'[c] = dbc[c]
  BY <1>4, <1>5 DEF DbcSet
<1>7. /\ stmt' \in [Stmts -> StmtSet]
      /\ \A s \in Stmts : /\ stmt'[s].live = stmt[s].live /\ stmt'[s].dbc = stmt[s].dbc
                          /\ stmt'[s].ard = stmt[s].ard /\ stmt'[s].apd = stmt[s].apd
  <2>1. ASSUME NEW s \in Stmts
        PROVE  /\ stmt'[s] \in StmtSet
               /\ stmt'[s].live = stmt[s].live /\ stmt'[s].dbc = stmt[s].dbc
               /\ stmt'[s].ard = stmt[s].ard /\ stmt'[s].apd = stmt[s].apd
    <3>1. stmt'[s] = stmt[s] \/ stmt'[s] = [stmt[s] EXCEPT !.res = "orphan"]
      BY <1>4
    <3>2. stmt[s] \in StmtSet
      BY <1>5
    <3> QED
      BY <3>1, <3>2 DEF StmtSet, Results
  <2>2. stmt' = [s \in Stmts |-> stmt'[s]]
    BY <1>4
  <2> QED
    BY <2>1, <2>2
<1>8. Typed'
  BY <1>1, <1>4, <1>6, <1>7 DEF Typed
<1>9. \A c \in Dbcs : \A i \in DOMAIN dbc[c].vec_stmt_ref : dbc[c].vec_stmt_ref[i] \in Stmts
  BY <1>5 DEF DbcSet
<1>10. ASSUME NEW c \in Dbcs PROVE ListOK(c)' /\ DbcOK(c)'
  <2>1. ListOK(c) /\ DbcOK(c)
    BY <1>1 DEF Handles
  <2>2. ListOK(c)'
    BY <1>6, <1>7, <1>9, <2>1 DEF ListOK
  <2>3. DbcOK(c)'
    BY <1>4, <1>6, <2>1 DEF DbcOK
  <2> QED
    BY <2>2, <2>3
<1>11. ASSUME NEW s \in Stmts PROVE StmtOK(s)'
  <2>1. StmtOK(s)
    BY <1>1 DEF Handles
  <2>2. s \in valid' => s \in valid /\ stmt[s].dbc # d
    BY <1>4
  <2> QED
    BY <1>4, <1>6, <1>7, <2>1, <2>2 DEF StmtOK, InVec
<1>12. ASSUME NEW x \in Descs PROVE DescOK(x)'
  <2>1. x \in valid' => x \in valid /\ desc[x].dbc # d
    BY <1>4
  <2> QED
    BY <1>1, <1>4, <1>6, <2>1 DEF Handles, DescOK
<1>13. /\ eng' \in [Dbcs -> EngineStates] /\ eng'[d] = f
       /\ \A c \in Dbcs \ {d} : eng'[c] = eng[c]
  BY <1>2, <1>3, <1>4 DEF EngineOK
<1>14. Engines'
  BY <1>1, <1>3, <1>6, <1>13 DEF Engines
<1> QED
  BY <1>8, <1>10, <1>11, <1>12, <1>13, <1>14 DEF ConnInv, Handles

\* The list of a connection and the connection of a statement agree.
LEMMA ListedExactly ==
  ASSUME ConnInv, NEW c \in Dbcs, NEW s \in Stmts
  PROVE  /\ s \in InVec(c) => stmt[s].live /\ stmt[s].dbc = c
         /\ stmt[s].live /\ stmt[s].dbc = c => s \in InVec(c)
BY DEF ConnInv, Handles, ListOK, StmtOK, InVec

\* Freeing a connection frees exactly its statements.
LEMMA FreeDbcKeeps ==
  ASSUME ConnInv, NEW d \in Dbcs, FreeDbc(d)
  PROVE  ConnInv'
<1>1. Typed /\ Handles /\ Engines
  BY DEF ConnInv
<1>2. /\ d \in valid /\ ~dbc[d].conn
      /\ stmt' = [s \in Stmts |-> IF s \in InVec(d) THEN NoStmt ELSE stmt[s]]
      /\ dbc' = [dbc EXCEPT ![d] = NoDbc]
      /\ valid' = valid \ {d} /\ UNCHANGED <<desc, eng, tran>>
  BY DEF FreeDbc
<1>3. ~NoStmt.live /\ NoStmt \in StmtSet
  BY DEF NoStmt, StmtSet, Results
<1>4. ~NoDbc.conn /\ NoDbc.vec_stmt_ref = << >>
  BY DEF NoDbc
<1>5. << >> \in Seq(Stmts)
  OBVIOUS
<1>6. NoDbc \in DbcSet
  BY <1>5 DEF NoDbc, DbcSet
<1>7. /\ dbc' \in [Dbcs -> DbcSet] /\ dbc'[d] = NoDbc
      /\ \A c \in Dbcs \ {d} : dbc'[c] = dbc[c]
  BY <1>1, <1>2, <1>6 DEF Typed
<1>8. /\ stmt' \in [Stmts -> StmtSet]
      /\ \A s \in Stmts : stmt'[s] = IF s \in InVec(d) THEN NoStmt ELSE stmt[s]
  BY <1>1, <1>2, <1>3 DEF Typed
<1>9. Typed'
  BY <1>1, <1>2, <1>7, <1>8 DEF Typed
<1>10. \A c \in Dbcs : \A i \in DOMAIN dbc[c].vec_stmt_ref : dbc[c].vec_stmt_ref[i] \in Stmts
  BY <1>1 DEF Typed, DbcSet
<1>11. ASSUME NEW c \in Dbcs PROVE ListOK(c)' /\ DbcOK(c)'
  <2>1. ListOK(c) /\ DbcOK(c)
    BY <1>1 DEF Handles
  <2>2. CASE c = d
    BY <1>2, <1>4, <1>7, <2>2 DEF ListOK, DbcOK
  <2>3. CASE c # d
    <3>1. \A i \in DOMAIN dbc[c].vec_stmt_ref : dbc[c].vec_stmt_ref[i] \notin InVec(d)
      BY <1>10, <2>1, <2>3, ListedExactly DEF ListOK
    <3>2. ListOK(c)'
      BY <1>7, <1>8, <1>10, <2>1, <2>3, <3>1 DEF ListOK
    <3>3. DbcOK(c)'
      BY <1>2, <1>7, <2>1, <2>3 DEF DbcOK
    <3> QED
      BY <3>2, <3>3
  <2> QED
    BY <2>2, <2>3
<1>12. ASSUME NEW s \in Stmts PROVE StmtOK(s)'
  <2>1. StmtOK(s) /\ (s \in valid' => s \in valid)
    BY <1>1, <1>2 DEF Handles
  <2>2. CASE s \in InVec(d)
    <3>1. s \notin valid
      BY <1>2, <2>1, <2>2, ListedExactly DEF StmtOK
    <3> QED
      BY <1>3, <1>8, <2>1, <2>2, <3>1 DEF StmtOK
  <2>3. CASE s \notin InVec(d)
    <3>1. stmt[s].live => stmt[s].dbc # d
      BY <2>3, ListedExactly
    <3> QED
      BY <1>2, <1>7, <1>8, <2>1, <2>3, <3>1 DEF StmtOK, InVec
  <2> QED
    BY <2>2, <2>3
<1>13. ASSUME NEW x \in Descs PROVE DescOK(x)'
  BY <1>1, <1>2, <1>7 DEF Handles, DescOK
<1>14. Engines'
  BY <1>1, <1>2, <1>4, <1>7 DEF Engines, EngineOK
<1> QED
  BY <1>9, <1>11, <1>12, <1>13, <1>14 DEF ConnInv, Handles

\* Erasing one reference leaves the others, each still there once.
LEMMA Erases ==
  ASSUME NEW vec \in Seq(Stmts), NEW k \in DOMAIN vec,
         \A i, j \in DOMAIN vec : vec[i] = vec[j] => i = j
  PROVE  LET cut == EraseAt(vec, k)
         IN  /\ cut \in Seq(Stmts)
             /\ \A i \in DOMAIN cut : \E j \in DOMAIN vec : cut[i] = vec[j] /\ cut[i] # vec[k]
             /\ \A j \in DOMAIN vec : vec[j] # vec[k] => \E i \in DOMAIN cut : cut[i] = vec[j]
             /\ \A i, j \in DOMAIN cut : cut[i] = cut[j] => i = j
<1> DEFINE cut == EraseAt(vec, k)
<1>1. Len(vec) \in Nat /\ DOMAIN vec = 1 .. Len(vec) /\ k \in 1 .. Len(vec)
      /\ Len(vec) - 1 \in Nat
  OBVIOUS
<1>2. cut = [i \in 1 .. Len(vec) - 1 |-> IF i < k THEN vec[i] ELSE vec[i + 1]]
  BY DEF EraseAt
<1>3. DOMAIN cut = 1 .. Len(vec) - 1
  BY <1>2
<1>4. \A i \in 1 .. Len(vec) - 1 : /\ i \in DOMAIN vec /\ i + 1 \in DOMAIN vec
                                   /\ cut[i] = IF i < k THEN vec[i] ELSE vec[i + 1]
  BY <1>1, <1>2
<1>5. cut \in Seq(Stmts)
  <2>1. \A i \in 1 .. Len(vec) - 1 : (IF i < k THEN vec[i] ELSE vec[i + 1]) \in Stmts
    BY <1>4
  <2>2. cut \in [1 .. Len(vec) - 1 -> Stmts]
    BY <1>2, <2>1
  <2> QED
    BY <1>1, <2>2
<1> HIDE DEF cut
<1>6. \A i \in DOMAIN cut : \E j \in DOMAIN vec : cut[i] = vec[j] /\ cut[i] # vec[k]
  <2> SUFFICES ASSUME NEW i \in DOMAIN cut
               PROVE  \E j \in DOMAIN vec : cut[i] = vec[j] /\ cut[i] # vec[k]
    OBVIOUS
  <2>1. PICK j \in {i, i + 1} : j \in DOMAIN vec /\ cut[i] = vec[j] /\ j # k
    BY <1>1, <1>3, <1>4
  <2> QED
    BY <2>1
<1>7. ASSUME NEW j \in DOMAIN vec, vec[j] # vec[k]
      PROVE  \E i \in DOMAIN cut : cut[i] = vec[j]
  <2>1. CASE j < k
    BY <1>1, <1>3, <1>4, <2>1
  <2>2. CASE j > k
    <3>1. j - 1 \in DOMAIN cut /\ ~(j - 1 < k) /\ (j - 1) + 1 = j
      BY <1>1, <1>3, <2>2
    <3> QED
      BY <1>3, <1>4, <3>1
  <2> QED
    BY <1>1, <1>7, <2>1, <2>2
<1>8. ASSUME NEW i \in DOMAIN cut, NEW j \in DOMAIN cut, cut[i] = cut[j]
      PROVE  i = j
  <2> DEFINE at(n) == IF n < k THEN n ELSE n + 1
  <2>1. i \in Int /\ j \in Int /\ k \in Int
    BY <1>1, <1>3
  <2>2. at(i) \in DOMAIN vec /\ at(j) \in DOMAIN vec /\ cut[i] = vec[at(i)] /\ cut[j] = vec[at(j)]
    BY <1>3, <1>4
  <2>3. at(i) = at(j)
    BY <1>8, <2>2
  <2> QED
    BY <2>1, <2>3
<1> QED
  BY <1>5, <1>6, <1>7, <1>8 DEF cut

\* The list of the connection of s without s.
LEMMA ErasesRef ==
  ASSUME ConnInv, NEW s \in Stmts, NEW d \in Dbcs, stmt[s].live, stmt[s].dbc = d
  PROVE  \E cut \in Seq(Stmts) :
           /\ EraseStmtRef(d, s) = [dbc EXCEPT ![d].vec_stmt_ref = cut]
           /\ {cut[i] : i \in DOMAIN cut} = InVec(d) \ {s}
           /\ \A i, j \in DOMAIN cut : cut[i] = cut[j] => i = j
<1> DEFINE vec == dbc[d].vec_stmt_ref
           refs == {i \in DOMAIN vec : vec[i] = s}
           k == CHOOSE i \in refs : \A j \in refs : i <= j
           cut == EraseAt(vec, k)
<1>1. vec \in Seq(Stmts) /\ \A i, j \in DOMAIN vec : vec[i] = vec[j] => i = j
  BY Fields DEF ConnInv, Handles, ListOK
<1>2. PICK r \in DOMAIN vec : vec[r] = s
  BY ListedExactly DEF InVec
<1>3. r \in refs /\ \A j \in refs : r <= j
  BY <1>1, <1>2
<1>4. k \in refs
  BY <1>3
<1>5. k \in DOMAIN vec /\ vec[k] = s /\ refs # {}
  BY <1>4
<1>6. EraseStmtRef(d, s) = [dbc EXCEPT ![d].vec_stmt_ref = cut]
  BY <1>5 DEF EraseStmtRef
<1>7. InVec(d) = {vec[i] : i \in DOMAIN vec}
  BY DEF InVec
<1> HIDE DEF vec, refs, k
<1>8. /\ cut \in Seq(Stmts)
      /\ \A i \in DOMAIN cut : \E j \in DOMAIN vec : cut[i] = vec[j] /\ cut[i] # vec[k]
      /\ \A j \in DOMAIN vec : vec[j] # vec[k] => \E i \in DOMAIN cut : cut[i] = vec[j]
      /\ \A i, j \in DOMAIN cut : cut[i] = cut[j] => i = j
  BY <1>1, <1>5, Erases
<1> HIDE DEF cut
<1>9. {cut[i] : i \in DOMAIN cut} = InVec(d) \ {s}
  BY <1>5, <1>7, <1>8
<1> QED
  BY <1>6, <1>8, <1>9

\* Freeing a statement takes it off its list and leaves the work.
LEMMA FreeStmtKeeps ==
  ASSUME ConnInv, NEW s \in Stmts, FreeStmt(s)
  PROVE  /\ ConnInv'
         /\ \A c \in Dbcs : eng'[c].saved + eng'[c].pending = eng[c].saved + eng[c].pending
<1>1. Typed /\ Handles /\ Engines
  BY DEF ConnInv
<1> DEFINE d == stmt[s].dbc
           f == Released(s)
<1>2. stmt[s].live /\ d \in Dbcs /\ dbc[d].conn
  BY <1>1 DEF FreeStmt, Handles, StmtOK
<1>3. EngineOK(eng[d])
  BY <1>1, <1>2 DEF Engines
<1>4. EngineOK(f) /\ f.saved = eng[d].saved /\ f.pending = eng[d].pending
  BY <1>3, ReleasedOK
<1>5. PICK cut \in Seq(Stmts) :
        /\ EraseStmtRef(d, s) = [dbc EXCEPT ![d].vec_stmt_ref = cut]
        /\ {cut[i] : i \in DOMAIN cut} = InVec(d) \ {s}
        /\ \A i, j \in DOMAIN cut : cut[i] = cut[j] => i = j
  BY <1>2, ErasesRef
<1>6. /\ dbc' = [dbc EXCEPT ![d].vec_stmt_ref = cut] /\ eng' = [eng EXCEPT ![d] = f]
      /\ stmt' = [stmt EXCEPT ![s] = NoStmt] /\ valid' = valid \ {s}
      /\ UNCHANGED <<desc, tran>>
  BY <1>5 DEF FreeStmt
<1> HIDE DEF f, d
<1>7. ~NoStmt.live /\ NoStmt \in StmtSet
  BY DEF NoStmt, StmtSet, Results
<1>8. /\ stmt' \in [Stmts -> StmtSet] /\ stmt'[s] = NoStmt
      /\ \A t \in Stmts \ {s} : stmt'[t] = stmt[t]
  BY <1>1, <1>6, <1>7 DEF Typed
<1>9. /\ dbc' \in [Dbcs -> DbcSet] /\ dbc'[d].vec_stmt_ref = cut
      /\ \A c \in Dbcs : dbc'[c].live = dbc[c].live /\ dbc'[c].conn = dbc[c].conn
      /\ \A c \in Dbcs \ {d} : dbc'[c] = dbc[c]
  <2>1. dbc \in [Dbcs -> DbcSet]
    BY <1>1 DEF Typed
  <2> DEFINE upd == [dbc[d] EXCEPT !.vec_stmt_ref = cut]
  <2>2. /\ upd \in DbcSet /\ upd.vec_stmt_ref = cut /\ upd.live = dbc[d].live
        /\ upd.conn = dbc[d].conn
    BY <1>2, <2>1 DEF DbcSet
  <2>3. dbc' = [dbc EXCEPT ![d] = upd]
    BY <1>6
  <2> HIDE DEF upd
  <2> QED
    BY <1>2, <2>1, <2>2, <2>3
<1>10. Typed'
  BY <1>1, <1>6, <1>8, <1>9 DEF Typed
<1>11. \A c \in Dbcs : \A i \in DOMAIN dbc[c].vec_stmt_ref : dbc[c].vec_stmt_ref[i] \in Stmts
  BY <1>1 DEF Typed, DbcSet
<1>12. ASSUME NEW c \in Dbcs PROVE ListOK(c)' /\ DbcOK(c)'
  <2>1. ListOK(c) /\ DbcOK(c)
    BY <1>1 DEF Handles
  <2>2. DbcOK(c)'
    BY <1>6, <1>9, <2>1 DEF DbcOK
  <2>3. CASE c = d
    <3>1. \A i \in DOMAIN cut : cut[i] \in InVec(d) /\ cut[i] # s /\ cut[i] \in Stmts
      BY <1>5
    <3>2. \A i \in DOMAIN cut : stmt[cut[i]].live /\ stmt[cut[i]].dbc = d
      BY <1>2, <3>1, ListedExactly
    <3> QED
      BY <1>5, <1>8, <1>9, <2>2, <2>3, <3>1, <3>2 DEF ListOK
  <2>4. CASE c # d
    <3>1. \A i \in DOMAIN dbc[c].vec_stmt_ref : dbc[c].vec_stmt_ref[i] \in Stmts \ {s}
      BY <1>11, <2>1, <2>4 DEF ListOK, d
    <3> QED
      BY <1>8, <1>9, <2>1, <2>2, <2>4, <3>1 DEF ListOK
  <2> QED
    BY <2>3, <2>4
<1>19. ASSUME NEW c \in Dbcs, NEW t \in InVec(c), t # s PROVE t \in InVec(c)'
  <2>1. CASE c = d
    BY <1>5, <1>9, <1>19, <2>1 DEF InVec
  <2>2. CASE c # d
    BY <1>9, <1>19, <2>2 DEF InVec
  <2> QED
    BY <2>1, <2>2
<1>13. ASSUME NEW t \in Stmts PROVE StmtOK(t)'
  <2>1. StmtOK(t)
    BY <1>1 DEF Handles
  <2>2. CASE t = s
    BY <1>6, <1>7, <1>8, <2>2 DEF StmtOK
  <2>3. CASE t # s
    <3>1. stmt'[t] = stmt[t] /\ (t \in valid' => t \in valid) /\ desc' = desc
      BY <1>6, <1>8, <2>3
    <3> QED
      BY <1>9, <1>19, <2>1, <2>3, <3>1 DEF StmtOK
  <2> QED
    BY <2>2, <2>3
<1>14. ASSUME NEW x \in Descs PROVE DescOK(x)'
  BY <1>1, <1>6, <1>9 DEF Handles, DescOK
<1>15. eng \in [Dbcs -> EngineStates]
  BY <1>1 DEF Engines
<1>16. /\ eng' \in [Dbcs -> EngineStates] /\ eng'[d] = f
       /\ \A c \in Dbcs \ {d} : eng'[c] = eng[c]
  BY <1>2, <1>4, <1>6, <1>15 DEF EngineOK
<1>17. Engines'
  BY <1>1, <1>2, <1>4, <1>9, <1>16 DEF Engines
<1>18. \A c \in Dbcs : eng'[c].saved + eng'[c].pending = eng[c].saved + eng[c].pending
  BY <1>4, <1>16
<1> QED
  BY <1>10, <1>12, <1>13, <1>14, <1>17, <1>18 DEF ConnInv, Handles

\* No statement of any connection uses a descriptor that is freed.
LEMMA FreeDescKeeps ==
  ASSUME ConnInv, NEW x \in Descs, FreeDesc(x)
  PROVE  ConnInv'
<1>1. Typed /\ Handles /\ Engines
  BY DEF ConnInv
<1> DEFINE c == desc[x].dbc
<1>2. /\ x \in valid /\ stmt' = ResetStmtDescriptors(c, x) /\ desc' = [desc EXCEPT ![x] = NoDesc]
      /\ valid' = valid \ {x} /\ UNCHANGED <<dbc, eng, tran>>
  BY DEF FreeDesc
<1>3. c \in Dbcs
  BY <1>1, <1>2 DEF Handles, DescOK
<1>4. NoDesc \in DescSet
  BY DEF NoDesc, DescSet
<1>5. desc' \in [Descs -> DescSet] /\ \A y \in Descs \ {x} : desc'[y] = desc[y]
  BY <1>1, <1>2, <1>4 DEF Typed
<1>6. ASSUME NEW s \in Stmts
      PROVE  /\ stmt'[s] \in StmtSet
             /\ stmt'[s].live = stmt[s].live /\ stmt'[s].dbc = stmt[s].dbc
             /\ stmt'[s].ard \in {stmt[s].ard, Own} /\ stmt'[s].apd \in {stmt[s].apd, Own}
             /\ s \in InVec(c) => stmt'[s].ard # x /\ stmt'[s].apd # x
  <2>1. stmt[s] \in StmtSet
    BY <1>1 DEF Typed
  <2>2. stmt'[s] = IF s \notin InVec(c) THEN stmt[s]
                   ELSE [stmt[s] EXCEPT !.ard = IF @ = x THEN Own ELSE @,
                                        !.apd = IF @ = x THEN Own ELSE @]
    BY <1>2 DEF ResetStmtDescriptors
  <2> QED
    BY <2>1, <2>2 DEF StmtSet
<1>7. stmt' \in [Stmts -> StmtSet]
  <2>1. stmt' = [s \in Stmts |-> stmt'[s]]
    BY <1>2 DEF ResetStmtDescriptors
  <2> QED
    BY <1>6, <2>1
<1>8. Typed'
  BY <1>1, <1>2, <1>5, <1>7 DEF Typed
<1>9. \A e \in Dbcs : \A i \in DOMAIN dbc[e].vec_stmt_ref : dbc[e].vec_stmt_ref[i] \in Stmts
  BY <1>1 DEF Typed, DbcSet
<1>10. ASSUME NEW e \in Dbcs PROVE ListOK(e)' /\ DbcOK(e)'
  <2>1. ListOK(e) /\ DbcOK(e)
    BY <1>1 DEF Handles
  <2> QED
    BY <1>2, <1>6, <1>9, <2>1 DEF ListOK, DbcOK
<1>11. ASSUME NEW s \in Stmts PROVE StmtOK(s)'
  <2>1. StmtOK(s) /\ (s \in valid' => s \in valid)
    BY <1>1, <1>2 DEF Handles
  <2>2. ASSUME stmt[s].live, NEW y \in {stmt'[s].ard, stmt'[s].apd} \ {Own}
        PROVE  y \in Descs /\ y # x /\ desc[y].live /\ desc[y].dbc = stmt[s].dbc
    <3>1. y \in {stmt[s].ard, stmt[s].apd} \ {Own}
      BY <1>6, <2>2
    <3>2. y \in Descs
      BY <1>6, <2>2 DEF StmtSet
    <3>3. desc[y].live /\ desc[y].dbc = stmt[s].dbc
      BY <2>1, <2>2, <3>1 DEF StmtOK
    <3>4. y # x
      BY <1>3, <1>6, <2>2, <3>3, ListedExactly
    <3> QED
      BY <3>2, <3>3, <3>4
  <2> QED
    BY <1>2, <1>5, <1>6, <2>1, <2>2 DEF StmtOK, InVec
<1>12. ASSUME NEW y \in Descs PROVE DescOK(y)'
  BY <1>1, <1>2, <1>5 DEF Handles, DescOK
<1>13. Engines'
  BY <1>1, <1>2 DEF Engines, EngineOK
<1> QED
  BY <1>8, <1>10, <1>11, <1>12, <1>13 DEF ConnInv, Handles

\* A statement only gets descriptors of its connection.
LEMMA SetAppDescKeeps ==
  ASSUME ConnInv, NEW s \in Stmts, NEW x \in Descs \cup {Own}, SetAppDesc(s, x)
  PROVE  ConnInv'
<1>1. Typed /\ Handles /\ Engines
  BY DEF ConnInv
<1>2. /\ s \in valid
      /\ x = Own \/ (x \in valid /\ x \in Descs /\ desc[x].dbc = stmt[s].dbc)
      /\ stmt' = [stmt EXCEPT ![s].ard = x] \/ stmt' = [stmt EXCEPT ![s].apd = x]
      /\ UNCHANGED <<dbc, desc, valid, eng, tran>>
  BY DEF SetAppDesc
<1>3. /\ stmt' \in [Stmts -> StmtSet]
      /\ \A t \in Stmts : /\ stmt'[t].live = stmt[t].live /\ stmt'[t].dbc = stmt[t].dbc
                          /\ stmt'[t].ard = stmt[t].ard \/ (t = s /\ stmt'[t].ard = x)
                          /\ stmt'[t].apd = stmt[t].apd \/ (t = s /\ stmt'[t].apd = x)
  <2>1. stmt \in [Stmts -> StmtSet]
    BY <1>1 DEF Typed
  <2>2. CASE stmt' = [stmt EXCEPT ![s].ard = x]
    BY <2>1, <2>2 DEF StmtSet
  <2>3. CASE stmt' = [stmt EXCEPT ![s].apd = x]
    BY <2>1, <2>3 DEF StmtSet
  <2> QED
    BY <1>2, <2>2, <2>3
<1>4. Typed'
  BY <1>1, <1>2, <1>3 DEF Typed
<1>5. \A d \in Dbcs : \A i \in DOMAIN dbc[d].vec_stmt_ref : dbc[d].vec_stmt_ref[i] \in Stmts
  BY <1>1 DEF Typed, DbcSet
<1>6. ASSUME NEW d \in Dbcs PROVE ListOK(d)' /\ DbcOK(d)'
  <2>1. ListOK(d) /\ DbcOK(d)
    BY <1>1 DEF Handles
  <2> QED
    BY <1>2, <1>3, <1>5, <2>1 DEF ListOK, DbcOK
<1>7. ASSUME NEW t \in Stmts PROVE StmtOK(t)'
  <2>1. StmtOK(t)
    BY <1>1 DEF Handles
  <2>2. x # Own => desc[x].live /\ desc[x].dbc = stmt[s].dbc
    BY <1>1, <1>2 DEF Handles, DescOK
  <2>3. ASSUME stmt[t].live, NEW y \in {stmt'[t].ard, stmt'[t].apd} \ {Own}
        PROVE  desc[y].live /\ desc[y].dbc = stmt[t].dbc
    <3>1. y \in {stmt[t].ard, stmt[t].apd} \ {Own} \/ (t = s /\ y = x /\ x # Own)
      BY <1>3, <2>3
    <3> QED
      BY <2>1, <2>2, <2>3, <3>1 DEF StmtOK
  <2> QED
    BY <1>2, <1>3, <2>1, <2>3 DEF StmtOK, InVec
<1>8. ASSUME NEW y \in Descs PROVE DescOK(y)'
  BY <1>1, <1>2 DEF Handles, DescOK
<1>9. Engines'
  BY <1>1, <1>2 DEF Engines, EngineOK
<1> QED
  BY <1>4, <1>6, <1>7, <1>8, <1>9 DEF ConnInv, Handles
----------------------------------------------------------------------------
(***************************************************************************)
(* Transactions.                                                           *)
(***************************************************************************)
\* Switching the mode leaves the work.
LEMMA SetAutocommitKeeps ==
  ASSUME ConnInv, NEW d \in Dbcs, NEW b \in BOOLEAN, SetAutocommitAttr(d, b)
  PROVE  /\ ConnInv'
         /\ \A c \in Dbcs : eng'[c].saved + eng'[c].pending = eng[c].saved + eng[c].pending
<1>1. Typed /\ Handles /\ Engines
  BY DEF ConnInv
<1> DEFINE f == SetAutoCommit(eng[d], b)
<1>2. eng \in [Dbcs -> EngineStates] /\ EngineOK(eng[d])
  BY <1>1 DEF Engines
<1>3. EngineOK(f) /\ f.saved = eng[d].saved /\ f.pending = eng[d].pending
  BY <1>2, SwitchesMode
<1>4. /\ dbc' = [dbc EXCEPT ![d].autocommit = b] /\ eng' = [eng EXCEPT ![d] = f]
      /\ UNCHANGED <<stmt, desc, valid, tran>> /\ dbc[d].conn
  BY <1>2 DEF SetAutocommitAttr
<1> HIDE DEF f
<1>5. dbc \in [Dbcs -> DbcSet]
  BY <1>1 DEF Typed
<1>6. /\ dbc' \in [Dbcs -> DbcSet]
      /\ \A c \in Dbcs : /\ dbc'[c].live = dbc[c].live /\ dbc'[c].conn = dbc[c].conn
                         /\ dbc'[c].vec_stmt_ref = dbc[c].vec_stmt_ref
  BY <1>4, <1>5 DEF DbcSet
<1>7. Typed'
  BY <1>1, <1>4, <1>6 DEF Typed
<1>8. Handles'
  BY <1>1, <1>4, <1>6, SameHandles
<1>9. /\ eng' \in [Dbcs -> EngineStates] /\ eng'[d] = f
      /\ \A c \in Dbcs \ {d} : eng'[c] = eng[c]
  BY <1>2, <1>3, <1>4 DEF EngineOK
<1>10. Engines'
  BY <1>1, <1>3, <1>4, <1>6, <1>9 DEF Engines
<1>11. \A c \in Dbcs : eng'[c].saved + eng'[c].pending = eng[c].saved + eng[c].pending
  BY <1>3, <1>9
<1> QED
  BY <1>7, <1>8, <1>10, <1>11 DEF ConnInv

\* What SQLEndTran does to the engine of the connection, and to one result.
TransactionStep(d, loss) ==
  /\ \E f \in EngineStates :
       /\ EngineOK(f) /\ eng' = [eng EXCEPT ![d] = f]
       /\ loss \/ KeepsWork(eng[d], f)
  /\ \/ stmt' = stmt
     \/ \E s \in Stmts, r \in Results : stmt' = [stmt EXCEPT ![s].res = r]
  /\ tran' \in {"none", "SQL_SUCCESS", "SQL_ERROR", "EXCEPTION"}
  /\ UNCHANGED <<dbc, desc, valid>>

\* Such a step keeps the invariant.
LEMMA TransactionStepKeeps ==
  ASSUME ConnInv, NEW d \in Dbcs, dbc[d].conn, NEW loss \in BOOLEAN, TransactionStep(d, loss)
  PROVE  ConnInv'
<1>1. Typed /\ Handles /\ Engines
  BY DEF ConnInv
<1>2. PICK f \in EngineStates : EngineOK(f) /\ eng' = [eng EXCEPT ![d] = f]
  BY DEF TransactionStep
<1>3. stmt \in [Stmts -> StmtSet] /\ eng \in [Dbcs -> EngineStates]
  BY <1>1 DEF Typed, Engines
<1>4. /\ stmt' \in [Stmts -> StmtSet]
      /\ \A t \in Stmts : /\ stmt'[t].live = stmt[t].live
                          /\ stmt'[t].dbc = stmt[t].dbc
                          /\ stmt'[t].ard = stmt[t].ard
                          /\ stmt'[t].apd = stmt[t].apd
  <2>1. CASE stmt' = stmt
    BY <1>3, <2>1
  <2>2. ASSUME NEW s \in Stmts, NEW r \in Results, stmt' = [stmt EXCEPT ![s].res = r]
        PROVE  /\ stmt' \in [Stmts -> StmtSet]
               /\ \A t \in Stmts : /\ stmt'[t].live = stmt[t].live
                                   /\ stmt'[t].dbc = stmt[t].dbc
                                   /\ stmt'[t].ard = stmt[t].ard
                                   /\ stmt'[t].apd = stmt[t].apd
    BY <1>3, <2>2 DEF StmtSet
  <2> QED
    BY <2>1, <2>2 DEF TransactionStep
<1>5. Typed'
  BY <1>1, <1>4 DEF Typed, TransactionStep
<1>6. Handles'
  BY <1>1, <1>4, SameHandles DEF TransactionStep
<1>7. Engines'
  <2>1. /\ eng' \in [Dbcs -> EngineStates] /\ eng'[d] = f
        /\ \A c \in Dbcs \ {d} : eng'[c] = eng[c]
    BY <1>2, <1>3
  <2> QED
    BY <1>1, <1>2, <2>1 DEF Engines, TransactionStep
<1> QED
  BY <1>5, <1>6, <1>7 DEF ConnInv

\* A commit from the state e the engine is in once the result is materialized, e0 being
\* the one before: work is lost with an invalid transaction or an exception only.
LEMMA CommitOrNothingKeeps ==
  ASSUME NEW e0, EngineOK(e0), NEW e, EngineOK(e), KeepsWork(e0, e),
         ~e.auto => ~e0.auto /\ e.tx = e0.tx,
         NEW d \in Dbcs, CommitOrNothing(d, e)
  PROVE  /\ \E f \in EngineStates :
              /\ EngineOK(f) /\ eng' = [eng EXCEPT ![d] = f]
              /\ tran' = "EXCEPTION" \/ KeepsWork(e0, f)
         /\ tran' \in {"SQL_SUCCESS", "EXCEPTION"}
<1>1. CASE e.auto
  <2>1. eng' = [eng EXCEPT ![d] = e] /\ tran' = "SQL_SUCCESS" /\ e \in EngineStates
    BY <1>1 DEF CommitOrNothing, EngineOK
  <2> QED
    BY <2>1
<1>2. CASE ~e.auto
  <2> DEFINE f == InitialCleanup(e)
             g == Commit(f)
             h == Rollback(f)
  <2>1. \/ f.tx = "open" /\ eng' = [eng EXCEPT ![d] = g] /\ tran' = "SQL_SUCCESS"
        \/ f.tx = "aborted" /\ eng' = [eng EXCEPT ![d] = h] /\ tran' = "SQL_SUCCESS"
        \/ eng' = [eng EXCEPT ![d] = h] /\ tran' = "EXCEPTION"
    BY <1>2 DEF CommitOrNothing, CommitQuery
  <2>2. Cleaned(e, f)
    BY CleansUp
  <2> HIDE DEF f
  <2>3. /\ f \in EngineStates /\ f.saved + f.pending <= MaxWrites /\ EngineOK(f)
        /\ f.tx = e.tx /\ f.saved + f.pending = e.saved + e.pending
    BY <1>2, <2>2 DEF Cleaned, EngineOK
  <2>4. /\ EngineOK(g) /\ EngineOK(h) /\ g \in EngineStates /\ h \in EngineStates
        /\ g.saved = f.saved + f.pending /\ g.pending = 0
    BY <2>3, EndsTransaction DEF EngineOK
  <2> HIDE DEF g, h
  <2>5. g.saved \in Nat /\ e.saved \in Nat /\ e.pending \in Nat
    BY <2>4 DEF EngineOK, EngineStates
  <2>6. KeepsWork(e0, g)
    BY <2>3, <2>4, <2>5 DEF KeepsWork
  <2>7. f.tx = "aborted" => KeepsWork(e0, h)
    BY <1>2, <2>3 DEF KeepsWork
  <2> QED
    BY <2>1, <2>4, <2>6, <2>7
<1>3. e.auto \in BOOLEAN
  BY DEF EngineOK, EngineStates
<1> QED
  BY <1>1, <1>2, <1>3

\* SQLEndTran(SQL_COMMIT) loses work with an exception at most.
LEMMA CommitStep ==
  ASSUME ConnInv, NEW d \in Dbcs, SQLEndTranCommit(d)
  PROVE  TransactionStep(d, tran' = "EXCEPTION")
<1>1. Typed /\ Handles /\ Engines
  BY DEF ConnInv
<1> DEFINE e0 == eng[d]
<1>2. EngineOK(e0)
  BY <1>1 DEF Engines
<1>3. ToMaterialize(d) \subseteq Stmts
  <2>1. dbc[d].vec_stmt_ref \in Seq(Stmts)
    BY Fields
  <2>2. dbc[d].vec_stmt_ref # << >> => Len(dbc[d].vec_stmt_ref) \in DOMAIN dbc[d].vec_stmt_ref
    BY <2>1
  <2> QED
    BY <2>1, <2>2 DEF ToMaterialize
<1>4. UNCHANGED <<dbc, desc, valid>>
  BY DEF SQLEndTranCommit
<1>5. KeepsWork(e0, e0)
  BY <1>2 DEF KeepsWork, EngineOK, EngineStates
<1>6. CASE CommitOrNothing(d, e0) /\ UNCHANGED stmt
  <2>1. /\ \E f \in EngineStates :
             /\ EngineOK(f) /\ eng' = [eng EXCEPT ![d] = f]
             /\ tran' = "EXCEPTION" \/ KeepsWork(e0, f)
        /\ tran' \in {"SQL_SUCCESS", "EXCEPTION"}
    BY <1>2, <1>5, <1>6, CommitOrNothingKeeps
  <2> QED
    BY <1>4, <1>6, <2>1 DEF TransactionStep
<1>7. ASSUME NEW s \in Stmts, stmt' = [stmt EXCEPT ![s].res = "held"],
             CommitOrNothing(d, IF Streaming(s) THEN EndQueryInternal(e0, TRUE, FALSE) ELSE e0)
      PROVE  TransactionStep(d, tran' = "EXCEPTION")
  <2> DEFINE q == EndQueryInternal(e0, TRUE, FALSE)
             e == IF Streaming(s) THEN q ELSE e0
  <2>1. Ended(e0, q, TRUE, FALSE)
    BY <1>2, OKCounted, EndsQuery
  <2>2. EngineOK(q) /\ KeepsWork(e0, q)
    BY <1>2, EndedKeeps
  <2> HIDE DEF q, e0
  <2>3. ~q.auto => ~e0.auto /\ q.tx = e0.tx
    BY <2>1 DEF Ended
  <2>4. EngineOK(e) /\ KeepsWork(e0, e) /\ (~e.auto => ~e0.auto /\ e.tx = e0.tx)
    BY <1>2, <1>5, <2>2, <2>3
  <2>5. CommitOrNothing(d, e)
    BY <1>7 DEF q
  <2> HIDE DEF e
  <2>6. /\ \E f \in EngineStates :
             /\ EngineOK(f) /\ eng' = [eng EXCEPT ![d] = f]
             /\ tran' = "EXCEPTION" \/ KeepsWork(e0, f)
        /\ tran' \in {"SQL_SUCCESS", "EXCEPTION"}
    BY <1>2, <2>4, <2>5, CommitOrNothingKeeps
  <2> QED
    BY <1>4, <1>7, <2>6 DEF TransactionStep, Results, e0
<1>8. ASSUME NEW s \in Stmts, stmt' = [stmt EXCEPT ![s].res = "none"], tran' = "SQL_ERROR",
             NEW inv \in BOOLEAN,
             eng' = [eng EXCEPT ![d] = IF Streaming(s) THEN EndQueryInternal(@, FALSE, inv) ELSE @]
      PROVE  TransactionStep(d, tran' = "EXCEPTION")
  <2> DEFINE q == EndQueryInternal(e0, FALSE, inv)
             f == IF Streaming(s) THEN q ELSE e0
  <2>1. EngineOK(q) /\ KeepsWork(e0, q)
    BY <1>2, EndedKeeps
  <2>2. EngineOK(f) /\ KeepsWork(e0, f)
    BY <1>2, <1>5, <2>1
  <2>3. d \in DOMAIN eng
    BY <1>1 DEF Engines
  <2>4. eng' = [eng EXCEPT ![d] = f]
    BY <1>8, <2>3
  <2> HIDE DEF f
  <2>5. f \in EngineStates
    BY <2>2 DEF EngineOK
  <2> QED
    BY <1>4, <1>8, <2>2, <2>4, <2>5 DEF TransactionStep, Results
<1>9. \/ CommitOrNothing(d, e0) /\ UNCHANGED stmt
      \/ \E s \in Stmts :
           \/ /\ stmt' = [stmt EXCEPT ![s].res = "held"]
              /\ CommitOrNothing(d, IF Streaming(s) THEN EndQueryInternal(e0, TRUE, FALSE) ELSE e0)
           \/ /\ stmt' = [stmt EXCEPT ![s].res = "none"]
              /\ \E inv \in BOOLEAN :
                   eng' = [eng EXCEPT ![d] = IF Streaming(s) THEN EndQueryInternal(@, FALSE, inv) ELSE @]
              /\ tran' = "SQL_ERROR"
  BY <1>3 DEF SQLEndTranCommit
<1> HIDE DEF e0
<1> QED
  BY <1>6, <1>7, <1>8, <1>9

\* SQLEndTran(SQL_ROLLBACK).
LEMMA RollbackStep ==
  ASSUME ConnInv, NEW d \in Dbcs, SQLEndTranRollback(d)
  PROVE  TransactionStep(d, TRUE)
<1> DEFINE e == InitialCleanup(eng[d])
           r == Rollback(e)
           o == [e EXCEPT !.active = Other]
<1>1. EngineOK(eng[d])
  BY DEF ConnInv, Engines
<1>2. EngineOK(e)
  BY <1>1, CleansUp DEF Cleaned
<1>3. /\ eng' = [eng EXCEPT ![d] = r] \/ eng' = [eng EXCEPT ![d] = e] \/ eng' = [eng EXCEPT ![d] = o]
      /\ tran' \in {"SQL_SUCCESS", "SQL_ERROR"} /\ UNCHANGED <<dbc, stmt, desc, valid>>
  BY DEF SQLEndTranRollback
<1> HIDE DEF e
<1>4. EngineOK(r)
  BY <1>2, EndsTransaction DEF EngineOK
<1>5. EngineOK(o)
  BY <1>2, SetsActive
<1> HIDE DEF r, o
<1>6. e \in EngineStates /\ r \in EngineStates /\ o \in EngineStates
  BY <1>2, <1>4, <1>5 DEF EngineOK
<1> QED
  BY <1>2, <1>3, <1>4, <1>5, <1>6 DEF TransactionStep
----------------------------------------------------------------------------
(***************************************************************************)
(* The theorems.                                                           *)
(***************************************************************************)
\* Nothing is allocated at first.
LEMMA ConnInitOK == Init => ConnInv
<1> SUFFICES ASSUME Init PROVE ConnInv
  OBVIOUS
<1>1. NoStmt \in StmtSet /\ ~NoStmt.live
  BY DEF NoStmt, StmtSet, Results
<1>2. << >> \in Seq(Stmts) /\ 0 \in 0 .. MaxWrites
  OBVIOUS
<1>3. NoDbc \in DbcSet /\ ~NoDbc.conn /\ NoDbc.vec_stmt_ref = << >>
  BY <1>2 DEF NoDbc, DbcSet
<1>4. NoDesc \in DescSet
  BY DEF NoDesc, DescSet
<1>5. /\ NewEngine \in EngineStates /\ NewEngine.auto /\ NewEngine.tx = "none"
      /\ NewEngine.pending = 0 /\ NewEngine.saved = 0
  BY <1>2 DEF NewEngine, EngineStates
<1>6. EngineOK(NewEngine)
  BY <1>5 DEF EngineOK
<1>7. Typed
  BY <1>1, <1>3, <1>4 DEF Init, Typed
<1>8. Handles
  BY <1>1, <1>3 DEF Init, Handles, ListOK, DbcOK, StmtOK, DescOK
<1>9. Engines
  BY <1>5, <1>6 DEF Init, Engines
<1> QED
  BY <1>7, <1>8, <1>9 DEF ConnInv

\* Every step keeps the invariant, and loses work only where WorkKept allows it.
LossAllowed(d) ==
  \/ SQLEndTranRollback(d) \/ SQLDisconnect(d)
  \/ eng[d].tx = "aborted" \/ eng[d].left
  \/ SQLEndTranCommit(d) /\ tran' = "EXCEPTION"

TotalKept(d) ==
  eng'[d].saved + eng'[d].pending < eng[d].saved + eng[d].pending => LossAllowed(d)

\* Every step keeps the invariant and the work it has to keep.
LEMMA ConnNextOK ==
  ASSUME ConnInv, [Next]_vars
  PROVE  ConnInv' /\ \A d \in Dbcs : TotalKept(d)
<1>1. \A d \in Dbcs : eng[d].saved \in Nat /\ eng[d].pending \in Nat
  BY DEF ConnInv, Engines, EngineStates
<1>2. ASSUME \A d \in Dbcs : eng'[d].saved + eng'[d].pending = eng[d].saved + eng[d].pending
      PROVE  \A d \in Dbcs : TotalKept(d)
  BY <1>1, <1>2 DEF TotalKept
<1>3. ASSUME UNCHANGED eng
      PROVE  \A d \in Dbcs : TotalKept(d)
  BY <1>2, <1>3
<1>4. CASE UNCHANGED vars
  BY <1>3, <1>4 DEF vars, ConnInv, Typed, Handles, ListOK, DbcOK, StmtOK, DescOK, Engines, EngineOK,
     InVec
<1>5. ASSUME NEW d \in Dbcs, AllocDbc(d)
      PROVE  ConnInv' /\ \A c \in Dbcs : TotalKept(c)
  BY <1>3, <1>5, AllocDbcKeeps DEF AllocDbc
<1>6. ASSUME NEW d \in Dbcs, SetConnection(d)
      PROVE  ConnInv' /\ \A c \in Dbcs : TotalKept(c)
  BY <1>2, <1>6, SetConnectionKeeps
<1>7. ASSUME NEW d \in Dbcs, SQLDisconnect(d)
      PROVE  ConnInv' /\ \A c \in Dbcs : TotalKept(c)
  <2>1. ASSUME NEW c \in Dbcs PROVE TotalKept(c)
    <3>1. CASE c = d
      BY <1>7, <3>1 DEF TotalKept, LossAllowed
    <3>2. CASE c # d
      BY <1>1, <1>7, <3>2, DisconnectKeeps DEF TotalKept
    <3> QED
      BY <3>1, <3>2
  <2> QED
    BY <1>7, <2>1, DisconnectKeeps
<1>8. ASSUME NEW d \in Dbcs, FreeDbc(d)
      PROVE  ConnInv' /\ \A c \in Dbcs : TotalKept(c)
  BY <1>3, <1>8, FreeDbcKeeps DEF FreeDbc
<1>9. ASSUME NEW d \in Dbcs, dbc[d].conn, NEW loss \in BOOLEAN, TransactionStep(d, loss),
             loss => LossAllowed(d)
      PROVE  ConnInv' /\ \A c \in Dbcs : TotalKept(c)
  <2>1. ConnInv'
    BY <1>9, TransactionStepKeeps
  <2>2. PICK f \in EngineStates : EngineOK(f) /\ eng' = [eng EXCEPT ![d] = f]
                                  /\ (loss \/ KeepsWork(eng[d], f))
    BY <1>9 DEF TransactionStep
  <2>3. eng'[d] = f /\ \A c \in Dbcs \ {d} : eng'[c] = eng[c]
    BY <2>2 DEF ConnInv, Engines
  <2>4. f.saved \in Nat /\ f.pending \in Nat
    BY DEF EngineStates
  <2>5. TotalKept(d)
    BY <1>1, <1>9, <2>2, <2>3, <2>4 DEF TotalKept, LossAllowed, KeepsWork
  <2>6. \A c \in Dbcs \ {d} : TotalKept(c)
    BY <1>1, <2>3 DEF TotalKept
  <2> QED
    BY <2>1, <2>5, <2>6
<1>10. ASSUME NEW d \in Dbcs, SQLEndTranCommit(d)
       PROVE  ConnInv' /\ \A c \in Dbcs : TotalKept(c)
  BY <1>9, <1>10, CommitStep DEF SQLEndTranCommit, LossAllowed
<1>11. ASSUME NEW d \in Dbcs, SQLEndTranRollback(d)
       PROVE  ConnInv' /\ \A c \in Dbcs : TotalKept(c)
  BY <1>9, <1>11, RollbackStep DEF SQLEndTranRollback, LossAllowed
<1>12. ASSUME NEW d \in Dbcs, NEW b \in BOOLEAN, SetAutocommitAttr(d, b)
       PROVE  ConnInv' /\ \A c \in Dbcs : TotalKept(c)
  BY <1>2, <1>12, SetAutocommitKeeps
<1>13. ASSUME NEW d \in Dbcs, NEW s \in Stmts, AllocStmt(d, s)
       PROVE  ConnInv' /\ \A c \in Dbcs : TotalKept(c)
  BY <1>3, <1>13, AllocStmtKeeps DEF AllocStmt
<1>14. ASSUME NEW d \in Dbcs, NEW x \in Descs, AllocDesc(d, x)
       PROVE  ConnInv' /\ \A c \in Dbcs : TotalKept(c)
  BY <1>3, <1>14, AllocDescKeeps DEF AllocDesc
<1>15. ASSUME NEW s \in Stmts, FreeStmt(s)
       PROVE  ConnInv' /\ \A c \in Dbcs : TotalKept(c)
  BY <1>2, <1>15, FreeStmtKeeps
<1>16. ASSUME NEW s \in Stmts, Connected(s), StatementStep(s)
       PROVE  ConnInv' /\ \A c \in Dbcs : TotalKept(c)
  <2>1. ConnInv' /\ stmt[s].dbc \in Dbcs
    BY <1>16, StatementStepKeeps, ConnectedOK
  <2>2. PICK f \in EngineStates : KeepsWork(eng[stmt[s].dbc], f) /\ eng' = [eng EXCEPT ![stmt[s].dbc] = f]
    BY <1>16 DEF StatementStep, Becomes
  <2>3. eng'[stmt[s].dbc] = f /\ \A c \in Dbcs \ {stmt[s].dbc} : eng'[c] = eng[c]
    BY <2>1, <2>2 DEF ConnInv, Engines
  <2>4. f.saved \in Nat /\ f.pending \in Nat
    BY DEF EngineStates
  <2>5. TotalKept(stmt[s].dbc)
    BY <1>1, <2>1, <2>2, <2>3, <2>4 DEF TotalKept, LossAllowed, KeepsWork
  <2>6. \A c \in Dbcs \ {stmt[s].dbc} : TotalKept(c)
    BY <1>1, <2>3 DEF TotalKept
  <2> QED
    BY <2>1, <2>5, <2>6
<1>17. ASSUME NEW s \in Stmts,
              \/ SQLCloseCursor(s) \/ SQLPrepare(s) \/ ParseError(s)
              \/ BeginFails(s) \/ SQLExecute(s) \/ FetchNext(s)
       PROVE  ConnInv' /\ \A c \in Dbcs : TotalKept(c)
  <2>1. Connected(s)
    BY <1>17 DEF SQLCloseCursor, SQLPrepare, ParseError, BeginFails, SQLExecute, FetchNext
  <2>2. StatementStep(s)
    BY <1>17, CloseStep, PrepareStep, BeginFailsStep, ExecuteStep, FetchStep
  <2> QED
    BY <1>16, <2>1, <2>2
<1>18. ASSUME NEW s \in Stmts, NEW x \in Descs \cup {Own}, SetAppDesc(s, x)
       PROVE  ConnInv' /\ \A c \in Dbcs : TotalKept(c)
  BY <1>3, <1>18, SetAppDescKeeps DEF SetAppDesc
<1>19. ASSUME NEW x \in Descs, FreeDesc(x)
       PROVE  ConnInv' /\ \A c \in Dbcs : TotalKept(c)
  BY <1>3, <1>19, FreeDescKeeps DEF FreeDesc
<1> QED
  BY <1>4, <1>5, <1>6, <1>7, <1>8, <1>10, <1>11, <1>12, <1>13, <1>14, <1>15, <1>17, <1>18, <1>19
  DEF Next

\* The inductive invariant.
THEOREM Invariance == Spec => []ConnInv
<1>1. ConnInv /\ [Next]_vars => ConnInv'
  BY ConnNextOK
<1> QED
  BY ConnInitOK, <1>1, PTL DEF Spec

\* The type invariant: on every connection each row written is counted once, as pending
\* or as saved, however executions, failures and ends of transactions follow each other.
THEOREM ConnTyped == Spec => []ConnTypeOK
<1>1. ConnInv => ConnTypeOK
  BY DEF ConnInv, Typed, Engines, EngineOK, ConnTypeOK, DbcSet, StmtSet, DescSet
<1> QED
  BY Invariance, <1>1, PTL

\* No handle an application can still use leads to freed memory: the lists of the
\* connections (vec_stmt_ref) name exactly the allocated statements, each once, and the
\* descriptors a statement uses are allocated, in any order of the calls.
THEOREM NothingDangles == Spec => []NoDangling
<1>1. ConnInv => NoDangling
  <2> SUFFICES ASSUME ConnInv PROVE NoDangling
    OBVIOUS
  <2>1. \A d \in Dbcs : LET vec == dbc[d].vec_stmt_ref IN
          /\ \A i \in DOMAIN vec : stmt[vec[i]].live /\ stmt[vec[i]].dbc = d
          /\ \A i, j \in DOMAIN vec : vec[i] = vec[j] => i = j
    BY DEF ConnInv, Handles, ListOK
  <2>2. \A s \in Stmts : stmt[s].live =>
          /\ dbc[stmt[s].dbc].live /\ s \in InVec(stmt[s].dbc)
          /\ \A x \in {stmt[s].ard, stmt[s].apd} \ {Own} : desc[x].live
    BY DEF ConnInv, Handles, StmtOK
  <2>3. \A x \in valid \cap Descs : desc[x].live /\ dbc[desc[x].dbc].live
    BY DEF ConnInv, Handles, DescOK, DbcOK
  <2>4. \A s \in valid \cap Stmts : stmt[s].live
    BY DEF ConnInv, Handles, StmtOK
  <2> QED
    BY <2>1, <2>2, <2>3, <2>4 DEF NoDangling
<1> QED
  BY Invariance, <1>1, PTL

\* The engine's mode and its transaction agree: SQLEndTran has a transaction to end in
\* manual mode, and in automatic mode the next query can begin one.
THEOREM ModeMatches == Spec => []ModeMatchesTransaction
<1>1. ConnInv => ModeMatchesTransaction
  BY DEF ConnInv, Engines, EngineOK, ModeMatchesTransaction
<1> QED
  BY Invariance, <1>1, PTL

\* Rows written stay written: executing, fetching, closing, freeing and committing other
\* statements of the connection takes none of them away.
THEOREM WorkStays == Spec => WorkKept
<1>1. ConnInv /\ [Next]_vars =>
        [\A d \in Dbcs :
           eng'[d].saved + eng'[d].pending < eng[d].saved + eng[d].pending =>
             \/ SQLEndTranRollback(d) \/ SQLDisconnect(d)
             \/ eng[d].tx = "aborted" \/ eng[d].left
             \/ SQLEndTranCommit(d) /\ tran' = "EXCEPTION"]_vars
  BY ConnNextOK DEF TotalKept, LossAllowed
<1> QED
  BY Invariance, <1>1, PTL DEF Spec, WorkKept
============================================================================
