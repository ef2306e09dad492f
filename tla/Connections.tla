---------------------------- MODULE Connections ----------------------------
(***************************************************************************)
(* Connections, the statements and descriptors allocated on them, the raw  *)
(* pointers between these handles, and the transaction that all statements *)
(* of a connection share: SQLAllocHandle, SQLFreeHandle, connecting and    *)
(* disconnecting, SQL_ATTR_AUTOCOMMIT, executing, fetching, SQLEndTran.    *)
(*                                                                         *)
(* Of a statement's result only what matters to the other statements is    *)
(* kept (StatementCursor has the rest): whether rows still have to come    *)
(* from the engine, which runs one query per connection, and whether the   *)
(* end was seen.  Of the work done only the amount is kept.                *)
(***************************************************************************)
EXTENDS Integers, Sequences

CONSTANTS
  Dbcs, Stmts, Descs,  \* addresses of connection, statement and explicit descriptor handles
  MaxWrites            \* bound: rows written on a connection, kept or not

ASSUME ConnectionsAssumption == MaxWrites \in Nat

VARIABLES
  dbc,     \* [Dbcs -> OdbcHandleDbc]
  stmt,    \* [Stmts -> OdbcHandleStmt]
  desc,    \* [Descs -> OdbcHandleDesc], the explicitly allocated ones
  valid,   \* handles the driver manager passes on to the driver
  eng,     \* [Dbcs -> the engine's ClientContext behind dbc->conn]
  tran     \* SQLRETURN of the last SQLEndTran

vars == <<dbc, stmt, desc, valid, eng, tran>>

Nobody == "nobody"   \* the engine runs no query; the handle is not allocated
Other  == "other"    \* it runs one whose result no statement holds
Own    == "own"      \* a statement's implicit descriptor

\* Handles are addresses of different objects.
ASSUME HandlesAssumption ==
  /\ Dbcs \cap Stmts = {} /\ Dbcs \cap Descs = {} /\ Stmts \cap Descs = {}
  /\ Nobody \notin Dbcs \cup Stmts /\ Other \notin Stmts /\ Own \notin Descs

\* Results of a statement: no healthy one; rows that still come from the engine;
\* a materialized result whose end was not fetched yet; one whose end was, with and
\* without rows held; rows of a connection that was closed.
Results == {"none", "stream", "complete", "held", "empty", "orphan"}
----------------------------------------------------------------------------
(***************************************************************************)
(* The engine: the transaction context and the active query.               *)
(***************************************************************************)
\* History: rows saved, and whether the transaction was begun by the application in
\* manual mode and left open when it switched to automatic mode.
NewEngine == [auto |-> TRUE, tx |-> "none", pending |-> 0, active |-> Nobody,
              saved |-> 0, left |-> FALSE]

\* Mutant: the work of the transaction is counted again in the next one.
ClearTransactionKeepsWork(e) == [e EXCEPT !.auto = TRUE, !.tx = "none", !.left = FALSE]

\* Auto-commit is switched back on by every end of a transaction.
ClearTransaction(e) == [e EXCEPT !.auto = TRUE, !.tx = "none", !.pending = 0, !.left = FALSE]

Commit(e)   == ClearTransaction([e EXCEPT !.saved = @ + e.pending])
Rollback(e) == ClearTransaction(e)

\* Mutant: manual mode does not begin a transaction.
SetAutoCommitFlag(e, b) == [e EXCEPT !.auto = b]

SetAutoCommit(e, b) == [e EXCEPT !.auto = b, !.tx = IF ~b /\ @ = "none" THEN "open" ELSE @,
                                 !.left = b /\ (@ \/ (~e.auto /\ e.tx # "none"))]

\* Mutant: a query that fails ends the application's transaction too.
EndQueryAlwaysEnds(e, success, invalidate) ==
  LET f == [e EXCEPT !.active = Nobody]
  IN  IF f.tx = "none" \/ (success /\ ~f.auto) THEN f ELSE IF success THEN Commit(f) ELSE Rollback(f)

\* success, or an error that does or does not invalidate the transaction
EndQueryInternal(e, success, invalidate) ==
  LET f == [e EXCEPT !.active = Nobody]
  IN  CASE f.tx = "none" -> f
        [] f.tx # "none" /\ f.auto -> IF success THEN Commit(f) ELSE Rollback(f)
        [] f.tx # "none" /\ ~f.auto -> IF invalidate THEN [f EXCEPT !.tx = "aborted"] ELSE f

\* Before any query: the query that is still active is given up.
InitialCleanup(e) == IF e.active = Nobody THEN e ELSE EndQueryInternal(e, FALSE, FALSE)

\* BeginTransaction throws inside a transaction, after the query was made active.
CanBegin(e) == e.auto => e.tx = "none"
BeginQueryInternal(e, owner) ==
  [e EXCEPT !.active = owner, !.tx = IF e.auto THEN "open" ELSE @]
----------------------------------------------------------------------------
(***************************************************************************)
(* Handles.                                                                *)
(***************************************************************************)
NoDbc  == [live |-> FALSE, conn |-> FALSE, autocommit |-> TRUE, vec_stmt_ref |-> << >>]
NoStmt == [live |-> FALSE, dbc |-> Nobody, ard |-> Own, apd |-> Own, res |-> "none"]
NoDesc == [live |-> FALSE, dbc |-> Nobody]

InVec(d) == {dbc[d].vec_stmt_ref[i] : i \in DOMAIN dbc[d].vec_stmt_ref}

\* The first reference to s is erased from the list.
EraseAt(vec, k) == [i \in 1 .. Len(vec) - 1 |-> IF i < k THEN vec[i] ELSE vec[i + 1]]
EraseStmtRef(d, s) ==
  LET vec == dbc[d].vec_stmt_ref
      refs == {i \in DOMAIN vec : vec[i] = s}
  IN  IF refs = {} THEN dbc
      ELSE [dbc EXCEPT ![d].vec_stmt_ref = EraseAt(vec, CHOOSE i \in refs : \A j \in refs : i <= j)]

\* Mutant: only the first use of the descriptor by a statement is found.
ResetFirstDescriptor(d, x) ==
  [s \in Stmts |->
     IF s \notin InVec(d) THEN stmt[s]
     ELSE IF stmt[s].apd = x THEN [stmt[s] EXCEPT !.apd = Own]
     ELSE [stmt[s] EXCEPT !.ard = IF @ = x THEN Own ELSE @]]

\* Every statement of the connection that uses the descriptor goes back to its own.
ResetStmtDescriptors(d, x) ==
  [s \in Stmts |->
     IF s \notin InVec(d) THEN stmt[s]
     ELSE [stmt[s] EXCEPT !.ard = IF @ = x THEN Own ELSE @, !.apd = IF @ = x THEN Own ELSE @]]

\* The rows still to come are to be had: the engine runs this statement's query.
Streaming(s) == stmt[s].res = "stream" /\ eng[stmt[s].dbc].active = s

\* The statement lets go of its result, whose query the engine goes on running.
Released(s) == IF Streaming(s) THEN [eng[stmt[s].dbc] EXCEPT !.active = Other] ELSE eng[stmt[s].dbc]

Init ==
  /\ dbc = [d \in Dbcs |-> NoDbc]
  /\ stmt = [s \in Stmts |-> NoStmt]
  /\ desc = [x \in Descs |-> NoDesc]
  /\ valid = {}
  /\ eng = [d \in Dbcs |-> NewEngine]
  /\ tran = "none"

AllocDbc(d) ==
  /\ ~dbc[d].live
  /\ dbc' = [dbc EXCEPT ![d] = [NoDbc EXCEPT !.live = TRUE]]
  /\ valid' = valid \cup {d}
  /\ UNCHANGED <<stmt, desc, eng, tran>>

\* Statements and descriptors can be allocated on a connection that is open.
AllocStmt(d, s) ==
  /\ d \in valid /\ dbc[d].conn /\ ~stmt[s].live
  /\ stmt' = [stmt EXCEPT ![s] = [NoStmt EXCEPT !.live = TRUE, !.dbc = d]]
  /\ dbc' = [dbc EXCEPT ![d].vec_stmt_ref = Append(@, s)]
  /\ valid' = valid \cup {s}
  /\ UNCHANGED <<desc, eng, tran>>

AllocDesc(d, x) ==
  /\ d \in valid /\ dbc[d].conn /\ ~desc[x].live
  /\ desc' = [desc EXCEPT ![x] = [live |-> TRUE, dbc |-> d]]
  /\ valid' = valid \cup {x}
  /\ UNCHANGED <<dbc, stmt, eng, tran>>

\* SQLConnect, SQLDriverConnect.  The context of an earlier connection is not used again.
SetConnection(d) ==
  /\ d \in valid /\ ~dbc[d].conn
  /\ dbc' = [dbc EXCEPT ![d].conn = TRUE]
  /\ eng' = [eng EXCEPT ![d] = SetAutoCommit([NewEngine EXCEPT !.saved = eng[d].saved],
                                             dbc[d].autocommit)]
  /\ UNCHANGED <<stmt, desc, valid, tran>>

\* The driver forgets the engine's connection and nothing else; the driver manager
\* forgets the handles of the connection.  The statements keep the old context alive,
\* with the rows one of them was reading and the transaction nobody can commit.
SQLDisconnect(d) ==
  /\ d \in valid /\ dbc[d].conn
  /\ dbc' = [dbc EXCEPT ![d].conn = FALSE]
  /\ stmt' = [s \in Stmts |-> IF stmt[s].dbc = d /\ Streaming(s)
                              THEN [stmt[s] EXCEPT !.res = "orphan"] ELSE stmt[s]]
  /\ eng' = [eng EXCEPT ![d] = [NewEngine EXCEPT !.saved = eng[d].saved]]
  /\ valid' = valid \ ({s \in Stmts : stmt[s].dbc = d} \cup {x \in Descs : desc[x].dbc = d})
  /\ UNCHANGED <<desc, tran>>

\* The driver manager asks for SQLDisconnect first.  The destructor deletes the
\* statements of the list; descriptors stay allocated.
FreeDbc(d) ==
  /\ d \in valid /\ ~dbc[d].conn
  /\ stmt' = [s \in Stmts |-> IF s \in InVec(d) THEN NoStmt ELSE stmt[s]]
  /\ dbc' = [dbc EXCEPT ![d] = NoDbc]
  /\ valid' = valid \ {d}
  /\ UNCHANGED <<desc, eng, tran>>

FreeStmt(s) ==
  /\ s \in valid \cap Stmts
  /\ dbc' = EraseStmtRef(stmt[s].dbc, s)
  /\ eng' = [eng EXCEPT ![stmt[s].dbc] = Released(s)]
  /\ stmt' = [stmt EXCEPT ![s] = NoStmt]
  /\ valid' = valid \ {s}
  /\ UNCHANGED <<desc, tran>>

FreeDesc(x) ==
  /\ x \in valid \cap Descs
  /\ stmt' = ResetStmtDescriptors(desc[x].dbc, x)
  /\ desc' = [desc EXCEPT ![x] = NoDesc]
  /\ valid' = valid \ {x}
  /\ UNCHANGED <<dbc, eng, tran>>

\* SQL_ATTR_APP_ROW_DESC and SQL_ATTR_APP_PARAM_DESC: the driver manager lets through
\* explicit descriptors of the same connection, and the statement's own one.
SetAppDesc(s, x) ==
  /\ s \in valid \cap Stmts
  /\ x = Own \/ (x \in valid \cap Descs /\ desc[x].dbc = stmt[s].dbc)
  /\ \/ stmt' = [stmt EXCEPT ![s].ard = x]
     \/ stmt' = [stmt EXCEPT ![s].apd = x]
  /\ UNCHANGED <<dbc, desc, valid, eng, tran>>
----------------------------------------------------------------------------
(***************************************************************************)
(* Statements.                                                             *)
(***************************************************************************)
Connected(s) == s \in valid \cap Stmts /\ dbc[stmt[s].dbc].conn

\* The result of s and the state of the engine of its connection after a call.
Becomes(s, res, e) ==
  /\ stmt' = [stmt EXCEPT ![s].res = res]
  /\ eng' = [eng EXCEPT ![stmt[s].dbc] = e]
  /\ UNCHANGED <<dbc, desc, valid, tran>>

SQLCloseCursor(s) == Connected(s) /\ Becomes(s, "none", Released(s))

\* An error while preparing invalidates a transaction of the application or does not.
SQLPrepare(s) ==
  /\ Connected(s)
  /\ LET e == InitialCleanup(Released(s))
     IN  \/ Becomes(s, "none", e)
         \/ /\ e.tx # "none"
            /\ Becomes(s, "none", [e EXCEPT !.tx = "aborted"])

\* A text SQLExecDirect cannot parse does not reach the engine's queries.
ParseError(s) == Connected(s) /\ Becomes(s, "none", Released(s))

\* A query that cannot start because a transaction is open stays the active one.
BeginFails(s) ==
  /\ Connected(s)
  /\ LET e == InitialCleanup(Released(s))
     IN  ~CanBegin(e) /\ Becomes(s, "none", [e EXCEPT !.active = Other])

\* SQLExecute, SQLExecDirect: the query fails, writes a row, or returns rows, of which
\* BatchExecuteStmt fetches the first chunk.
SQLExecute(s) ==
  /\ Connected(s)
  /\ LET e == InitialCleanup(Released(s))
         q == BeginQueryInternal(e, s)
     IN  /\ CanBegin(e)
         /\ \/ \E inv \in BOOLEAN : Becomes(s, "none", EndQueryInternal(q, FALSE, inv))
            \/ /\ q.tx = "open" /\ q.saved + q.pending < MaxWrites
               /\ Becomes(s, "complete",
                          EndQueryInternal([q EXCEPT !.pending = @ + 1], TRUE, FALSE))
            \/ q.tx = "open" /\ Becomes(s, "stream", q)
            \/ q.tx = "open" /\ Becomes(s, "empty", EndQueryInternal(q, TRUE, FALSE))

\* FetchNext at the end of the rows held: the next rows (no change), the end or an error.
FetchNext(s) ==
  /\ Connected(s)
  /\ \/ Streaming(s) /\ Becomes(s, "held", EndQueryInternal(eng[stmt[s].dbc], TRUE, FALSE))
     \/ /\ Streaming(s)
        /\ \E inv \in BOOLEAN : Becomes(s, "none", EndQueryInternal(eng[stmt[s].dbc], FALSE, inv))
     \/ stmt[s].res = "stream" /\ ~Streaming(s) /\ Becomes(s, "none", eng[stmt[s].dbc])
     \/ stmt[s].res = "complete" /\ Becomes(s, "held", eng[stmt[s].dbc])
----------------------------------------------------------------------------
(***************************************************************************)
(* Transactions.                                                           *)
(***************************************************************************)
SetAutocommitAttr(d, b) ==
  /\ d \in valid /\ dbc[d].conn
  /\ dbc' = [dbc EXCEPT ![d].autocommit = b]
  /\ eng' = [eng EXCEPT ![d] = SetAutoCommit(@, b)]
  /\ UNCHANGED <<stmt, desc, valid, tran>>

\* The statement whose result a commit materializes: the one allocated last.
ToMaterialize(d) ==
  IF dbc[d].vec_stmt_ref = << >> THEN {} ELSE {dbc[d].vec_stmt_ref[Len(dbc[d].vec_stmt_ref)]}

\* Connection::Commit and Connection::Rollback run a query: COMMIT of an invalidated
\* transaction is a rollback that succeeds, and either may be refused or fail.
CommitQuery(d, e) ==
  LET f == InitialCleanup(e)
  IN  \/ /\ f.tx = "open"
         /\ eng' = [eng EXCEPT ![d] = Commit(f)] /\ tran' = "SQL_SUCCESS"
      \/ /\ f.tx = "aborted"
         /\ eng' = [eng EXCEPT ![d] = Rollback(f)] /\ tran' = "SQL_SUCCESS"
      \/ /\ f.tx = "open"
         /\ eng' = [eng EXCEPT ![d] = Rollback(f)] /\ tran' = "EXCEPTION"

\* MaterializeResult returned success with the engine in state e.
CommitOrNothing(d, e) ==
  \/ e.auto /\ eng' = [eng EXCEPT ![d] = e] /\ tran' = "SQL_SUCCESS"
  \/ ~e.auto /\ CommitQuery(d, e)

\* SQLEndTran(SQL_COMMIT).  When the last statement has seen the end of its rows and
\* holds some, Materialize does not return (StatementCursor, CommitTerminates).
SQLEndTranCommit(d) ==
  /\ d \in valid /\ dbc[d].conn
  /\ \/ \* nothing to materialize
        /\ \A s \in ToMaterialize(d) : stmt[s].res \in {"none", "empty"}
        /\ CommitOrNothing(d, eng[d]) /\ UNCHANGED stmt
     \/ \E s \in ToMaterialize(d) :
          \/ /\ Streaming(s) \/ stmt[s].res \in {"complete", "orphan"}
             /\ stmt' = [stmt EXCEPT ![s].res = "held"]
             /\ CommitOrNothing(d, IF Streaming(s) THEN EndQueryInternal(eng[d], TRUE, FALSE) ELSE eng[d])
          \/ /\ stmt[s].res \in {"stream", "orphan"}
             /\ stmt' = [stmt EXCEPT ![s].res = "none"]
             /\ \E inv \in BOOLEAN :
                  eng' = [eng EXCEPT ![d] = IF Streaming(s) THEN EndQueryInternal(@, FALSE, inv) ELSE @]
             /\ tran' = "SQL_ERROR"
  /\ UNCHANGED <<dbc, desc, valid>>

\* SQLEndTran(SQL_ROLLBACK).  Without a transaction the engine refuses the query.
SQLEndTranRollback(d) ==
  /\ d \in valid /\ dbc[d].conn
  /\ LET e == InitialCleanup(eng[d])
     IN  \/ ~e.auto /\ eng' = [eng EXCEPT ![d] = Rollback(e)] /\ tran' = "SQL_SUCCESS"
         \/ e.auto /\ CanBegin(e) /\ eng' = [eng EXCEPT ![d] = e] /\ tran' = "SQL_ERROR"
         \/ ~CanBegin(e) /\ eng' = [eng EXCEPT ![d] = [e EXCEPT !.active = Other]]
            /\ tran' = "SQL_ERROR"
  /\ UNCHANGED <<dbc, stmt, desc, valid>>
----------------------------------------------------------------------------
Next ==
  \/ \E d \in Dbcs :
       \/ AllocDbc(d) \/ SetConnection(d) \/ SQLDisconnect(d) \/ FreeDbc(d)
       \/ SQLEndTranCommit(d) \/ SQLEndTranRollback(d)
       \/ \E b \in BOOLEAN : SetAutocommitAttr(d, b)
       \/ \E s \in Stmts : AllocStmt(d, s)
       \/ \E x \in Descs : AllocDesc(d, x)
  \/ \E s \in Stmts :
       \/ FreeStmt(s) \/ SQLCloseCursor(s) \/ SQLPrepare(s) \/ ParseError(s)
       \/ BeginFails(s) \/ SQLExecute(s) \/ FetchNext(s)
       \/ \E x \in Descs \cup {Own} : SetAppDesc(s, x)
  \/ \E x \in Descs : FreeDesc(x)

Spec == Init /\ [][Next]_vars
----------------------------------------------------------------------------
(***************************************************************************)
(* Properties.                                                             *)
(***************************************************************************)
EngineStates == [auto : BOOLEAN, tx : {"none", "open", "aborted"}, pending : 0 .. MaxWrites,
                 active : Stmts \cup {Nobody, Other}, saved : 0 .. MaxWrites,
                 left : BOOLEAN]

\* The type invariant.  It counts every row written on a connection once: a row is
\* pending until its transaction ends and saved after a commit, never both.
ConnTypeOK ==
  /\ dbc \in [Dbcs -> [live : BOOLEAN, conn : BOOLEAN, autocommit : BOOLEAN,
                       vec_stmt_ref : Seq(Stmts)]]
  /\ stmt \in [Stmts -> [live : BOOLEAN, dbc : Dbcs \cup {Nobody}, ard : Descs \cup {Own},
                         apd : Descs \cup {Own}, res : Results]]
  /\ desc \in [Descs -> [live : BOOLEAN, dbc : Dbcs \cup {Nobody}]]
  /\ valid \subseteq Dbcs \cup Stmts \cup Descs
  /\ eng \in [Dbcs -> EngineStates]
  /\ \A d \in Dbcs : eng[d].saved + eng[d].pending <= MaxWrites
  /\ tran \in {"none", "SQL_SUCCESS", "SQL_ERROR", "EXCEPTION"}

\* No handle the application can still use leads the driver to freed memory, in any
\* order of allocating, sharing descriptors, freeing, disconnecting and reconnecting:
\* the list of a connection names its statements, each once and allocated, so the
\* destructor and a commit may follow it; a statement's connection and current
\* descriptors are allocated; so is the connection FreeHandle asks a descriptor for.
NoDangling ==
  /\ \A d \in Dbcs : LET vec == dbc[d].vec_stmt_ref IN
       /\ \A i \in DOMAIN vec : stmt[vec[i]].live /\ stmt[vec[i]].dbc = d
       /\ \A i, j \in DOMAIN vec : vec[i] = vec[j] => i = j
  /\ \A s \in Stmts : stmt[s].live =>
       /\ dbc[stmt[s].dbc].live /\ s \in InVec(stmt[s].dbc)
       /\ \A x \in {stmt[s].ard, stmt[s].apd} \ {Own} : desc[x].live
  /\ \A x \in valid \cap Descs : desc[x].live /\ dbc[desc[x].dbc].live
  /\ \A s \in valid \cap Stmts : stmt[s].live

\* The engine's mode and its transaction agree whatever the driver did to both: in
\* manual mode a transaction is open, so SQLEndTran has one to end; in automatic mode
\* one is open only for the active query, so the next one can begin (BeginTransaction
\* throws otherwise, and the statement of the application fails).  The exception is a
\* transaction the application left open when it switched to automatic mode.
ModeMatchesTransaction ==
  \A d \in Dbcs : /\ ~eng[d].auto => eng[d].tx # "none"
                  /\ eng[d].auto /\ eng[d].tx # "none" => eng[d].active # Nobody \/ eng[d].left

\* A row the application was told is written does not vanish behind its back: only a
\* rollback, a disconnect, a commit that fails with an exception, or the end of a
\* transaction already reported as invalid, or left open by a switch to automatic mode,
\* takes it away.  Executing, fetching, closing and freeing statements does not.
WorkKept ==
  [][\A d \in Dbcs :
       eng'[d].saved + eng'[d].pending < eng[d].saved + eng[d].pending =>
         \/ SQLEndTranRollback(d) \/ SQLDisconnect(d)
         \/ eng[d].tx = "aborted" \/ eng[d].left
         \/ SQLEndTranCommit(d) /\ tran' = "EXCEPTION"]_vars

CommitSucceeds(d) == SQLEndTranCommit(d) /\ tran' = "SQL_SUCCESS"

\* What transaction_api.cpp says of a commit, "ODBC can still fetch after a commit", and
\* SQLGetInfo with SQL_CB_PRESERVE, for every statement of the connection: one that was
\* reading has its rows, or goes on.  It holds for the statement allocated last only (README
\* section 4).
CommitKeepsCursor ==
  [][\A d \in Dbcs : CommitSucceeds(d) =>
       \A s \in Stmts : stmt[s].dbc = d /\ Streaming(s) =>
         stmt'[s].res = "held" \/ eng'[d].active = s]_vars

\* While SQL_ATTR_AUTOCOMMIT is off, as SQLGetConnectAttr reports it, work becomes
\* permanent in SQLEndTran only.
ManualCommit ==
  [][\A d \in Dbcs : ~dbc[d].autocommit /\ dbc'[d].autocommit = FALSE
                     /\ eng'[d].saved > eng[d].saved => SQLEndTranCommit(d)]_vars
============================================================================
