--------------------------- MODULE InstanceCache ---------------------------
(***************************************************************************)
(* Connecting: Connect::SetConnection, the cache of database instances     *)
(* that all connections of the process share (DBInstanceCache), opening    *)
(* and shutting down an instance, and SessionInit::Run.                    *)
(*                                                                         *)
(* Handles of different environments are used by different threads.  An    *)
(* instance, its DuckDB object and its cache entry have one name; the name *)
(* is used again once all three are gone.  A weak pointer to an entry that *)
(* is gone is None, which every reader treats as it treats an expired one. *)
(***************************************************************************)
EXTENDS Naturals, FiniteSets

CONSTANTS
  Envs, Dbcs,   \* handles
  EnvOf,        \* [Dbcs -> Envs]
  FilesOf,      \* [Envs -> SUBSET of the paths (or Memory) its connections open]
  Files,        \* canonical paths
  Configs,      \* option maps that compare different
  ReadOnly,     \* the ones with access_mode = READ_ONLY
  Ids,          \* names of instances
  Keepers,      \* connections the application leaves with statements still allocated
  MaxCalls      \* bound: calls of SQLDriverConnect

Memory == "memory"   \* the path of a database that is not cached, and its instance
None   == "none"

ASSUME InstanceCacheAssumption ==
  /\ EnvOf \in [Dbcs -> Envs]
  /\ FilesOf \in [Envs -> SUBSET (Files \cup {Memory})]
  /\ ReadOnly \subseteq Configs
  /\ Keepers \subseteq Dbcs
  /\ MaxCalls \in Nat
  /\ IsFiniteSet(Ids)
  /\ {Memory, None} \cap (Files \cup Ids) = {}
  /\ None \notin Dbcs

VARIABLES
  env,           \* [Envs -> the DuckDB object OdbcHandleEnv::db owns]
  dbc,           \* [Dbcs -> the connection handle and the thread that calls with it]
  inst,          \* [Ids -> DatabaseInstance]
  db_instances,  \* [Files -> the entry of the cache]
  db_paths,      \* [Files -> DatabasePathInfo], the files the process has registered as open
  calls          \* history: calls of SQLDriverConnect so far

vars == <<env, dbc, inst, db_instances, db_paths, calls>>

\* conn and stmts own the instance (a statement through its prepared statement, also
\* after SQLDisconnect); db is a shared_ptr<DuckDB> and entry a shared_ptr to a cache
\* entry on the thread's stack, weak a weak pointer to one.
NoCall == [pc |-> "idle", file |-> None, config |-> None, entry |-> None,
           weak |-> None, db |-> None, db_created |-> FALSE, conn |-> None, stmts |-> {}]

\* st: opening (no file yet), attached, open, then closing, closed (the file), detached (its
\* path erased); gone: only its entry is left, which threads that wait hold.  mutex is
\* update_database_mutex, closer the thread that runs the destructor, inits counts the database parts run.
NoInstance == [st |-> "none", file |-> None, config |-> None, mutex |-> None,
               closer |-> None, inits |-> 0]

\* DatabasePathInfo of a path nobody has registered.
NoPath == [reference_count |-> 0, access_mode |-> None]

Busy(t)  == \E i \in Ids : inst[i].closer = t
Ready(c) == ~Busy(c)

\* The calls on the handles of one environment do not overlap (the driver manager's
\* serialisation): OdbcHandleEnv::db is a shared_ptr without a lock.
Quiet(e) == ~Busy(e) /\ \A c \in Dbcs : EnvOf[c] = e => dbc[c].pc = "idle" /\ Ready(c)

DatabaseAlive(i) == (\E e \in Envs : env[e] = i) \/ (\E c \in Dbcs : dbc[c].db = i)

Owned(i, en, d) ==
  \/ \E e \in Envs : en[e] = i
  \/ \E c \in Dbcs : d[c].db = i \/ d[c].conn = i \/ i \in d[c].stmts

\* Thread t has released pointers; it destroys the instances nobody owns any more.
LetGo(t, en, d) ==
  inst' = [i \in Ids |-> IF inst[i].st = "open" /\ ~Owned(i, en, d)
                         THEN [inst[i] EXCEPT !.st = "closing", !.closer = t] ELSE inst[i]]

Set(c, r) == dbc' = [dbc EXCEPT ![c] = r]

\* The last pointer to the entry of i is released: weak pointers to it expire.
Expired(i, d) == [c \in Dbcs |-> [d[c] EXCEPT !.weak = IF @ = i THEN None ELSE @]]
ExpireEntry(i) == db_instances' = [f \in Files |-> IF db_instances[f] = i THEN None ELSE db_instances[f]]
Waiters(i) == {c \in Dbcs : dbc[c].entry = i}

Init ==
  /\ env = [e \in Envs |-> Memory]
  /\ dbc = [c \in Dbcs |-> NoCall]
  /\ inst = [i \in Ids |-> NoInstance]
  /\ db_instances = [f \in Files |-> None]
  /\ db_paths = [f \in Files |-> NoPath]
  /\ calls = 0
----------------------------------------------------------------------------
(***************************************************************************)
(* SQLDriverConnect.                                                       *)
(***************************************************************************)
\* The options were parsed and the session file read: both fail without a trace.
SQLDriverConnect(c) ==
  /\ Quiet(EnvOf[c])
  /\ dbc[c].conn = None
  /\ calls < MaxCalls /\ calls' = calls + 1
  /\ \E f \in FilesOf[EnvOf[c]], g \in Configs :
       Set(c, [dbc[c] EXCEPT !.pc = "lock", !.file = f, !.config = g])
  /\ UNCHANGED <<env, inst, db_instances, db_paths>>

\* A connect that ends in an error.
Fail(r) == [r EXCEPT !.pc = "idle", !.file = None, !.config = None,
                     !.entry = None, !.db = None, !.db_created = FALSE]

\* Under cache_lock: no entry, or one that has expired.
NotCached(c) ==
  /\ dbc[c].pc = "lock" /\ Ready(c)
  /\ dbc[c].file \in Files /\ db_instances[dbc[c].file] = None

Free == {i \in Ids : inst[i].st = "none"}
Opening(c, owner) == [NoInstance EXCEPT !.st = "opening", !.file = dbc[c].file,
                                        !.config = dbc[c].config, !.mutex = owner]

\* Mutant: the entry is in the cache before its mutex is taken.
CreateUnlocked(c) ==
  /\ NotCached(c)
  /\ \E i \in Free :
       /\ i = CHOOSE j \in Free : TRUE
       /\ inst' = [inst EXCEPT ![i] = Opening(c, None)]
       /\ db_instances' = [db_instances EXCEPT ![dbc[c].file] = i]
       /\ Set(c, [dbc[c] EXCEPT !.pc = "open", !.entry = i])
  /\ UNCHANGED <<env, db_paths, calls>>

\* CreateInstanceInternal up to the release of cache_lock.
CreateInstance(c) ==
  /\ NotCached(c)
  /\ \E i \in Free :
       /\ i = CHOOSE j \in Free : TRUE
       /\ inst' = [inst EXCEPT ![i] = Opening(c, c)]
       /\ db_instances' = [db_instances EXCEPT ![dbc[c].file] = i]
       /\ Set(c, [dbc[c] EXCEPT !.pc = "open", !.entry = i])
  /\ UNCHANGED <<env, db_paths, calls>>

\* A database in memory is created for this connection, and not cached.
CreateMemory(c) ==
  /\ dbc[c].pc = "lock" /\ Ready(c) /\ dbc[c].file = Memory
  /\ Set(c, [dbc[c] EXCEPT !.pc = "assign", !.db = Memory, !.db_created = TRUE])
  /\ UNCHANGED <<env, inst, db_instances, db_paths, calls>>

AccessMode(g) == IF g \in ReadOnly THEN "READ_ONLY" ELSE "AUTOMATIC"

\* DatabaseFilePathManager::InsertDatabasePath, under db_paths_lock: a path that is
\* registered is counted once more if the first and the new attachment only read it.
CanInsertDatabasePath(p, mode) ==
  p.reference_count = 0 \/ (mode = "READ_ONLY" /\ p.access_mode = "READ_ONLY")

InsertDatabasePath(p, mode) ==
  IF p.reference_count = 0 THEN [reference_count |-> 1, access_mode |-> mode]
  ELSE [p EXCEPT !.reference_count = @ + 1]

\* Mutant: the first of several attachments that ends erases the path.
ErasedAtOnce(p) == NoPath

\* EraseDatabasePath, when the StoredDatabasePath is destroyed.
ErasedDatabasePath(p) ==
  IF p.reference_count <= 1 THEN NoPath ELSE [p EXCEPT !.reference_count = @ - 1]

\* DatabaseInstance::Initialize up to the attachment of the file: its path is registered
\* first, and the file counts as open from then on.
OpenFile(c) ==
  /\ dbc[c].pc = "open" /\ Ready(c) /\ inst[dbc[c].entry].st = "opening"
  /\ LET i == dbc[c].entry
         f == inst[i].file
         mode == AccessMode(inst[i].config)
     IN  /\ CanInsertDatabasePath(db_paths[f], mode)
         /\ db_paths' = [db_paths EXCEPT ![f] = InsertDatabasePath(@, mode)]
  /\ inst' = [inst EXCEPT ![dbc[c].entry].st = "attached"]
  /\ UNCHANGED <<env, dbc, db_instances, calls>>

\* The constructor throws and the instance is destroyed, the mutex still held: because
\* of the other instances, or before or after the file was attached for other reasons.
OpenFails(c) ==
  /\ dbc[c].pc = "open" /\ Ready(c)
  /\ LET i == dbc[c].entry
     IN  inst' = [inst EXCEPT ![i].closer = c,
                              ![i].st = IF @ = "opening" THEN "detached" ELSE "closing"]
  /\ Set(c, Fail(dbc[c]))
  /\ UNCHANGED <<env, db_instances, db_paths, calls>>

\* The entry gets its weak pointer to the DuckDB object and the mutex is released.
Opened(c) ==
  /\ dbc[c].pc = "open" /\ Ready(c) /\ inst[dbc[c].entry].st = "attached"
  /\ inst' = [inst EXCEPT ![dbc[c].entry].st = "open", ![dbc[c].entry].mutex = None]
  /\ Set(c, [dbc[c] EXCEPT !.pc = "assign", !.entry = None, !.db = dbc[c].entry, !.db_created = TRUE])
  /\ UNCHANGED <<env, db_instances, db_paths, calls>>

\* GetInstanceInternal: the entry is there; cache_lock is released to wait for its mutex.
FindEntry(c) ==
  /\ dbc[c].pc = "lock" /\ Ready(c)
  /\ dbc[c].file \in Files /\ db_instances[dbc[c].file] # None
  /\ Set(c, [dbc[c] EXCEPT !.pc = "wait", !.entry = db_instances[dbc[c].file]])
  /\ UNCHANGED <<env, inst, db_instances, db_paths, calls>>

GotMutex(c) == dbc[c].pc = "wait" /\ Ready(c) /\ inst[dbc[c].entry].mutex = None

\* The DuckDB object still exists.
FindDatabase(c) ==
  /\ GotMutex(c) /\ DatabaseAlive(dbc[c].entry)
  /\ Set(c, [dbc[c] EXCEPT !.pc = "check", !.db = dbc[c].entry])
  /\ UNCHANGED <<env, inst, db_instances, db_paths, calls>>

\* Mutant: a connection that found the instance counts as its creator.
CheckConfigCreated(c) ==
  /\ dbc[c].pc = "check" /\ Ready(c)
  /\ LET r == IF inst[dbc[c].db].config = dbc[c].config
              THEN [dbc[c] EXCEPT !.pc = "assign", !.entry = None, !.db_created = TRUE]
              ELSE Fail(dbc[c])
     IN  Set(c, r) /\ LetGo(c, env, [dbc EXCEPT ![c] = r])
  /\ UNCHANGED <<env, db_instances, db_paths, calls>>

\* The configurations must match; if not, the object found is released again.
CheckConfig(c) ==
  /\ dbc[c].pc = "check" /\ Ready(c)
  /\ LET r == IF inst[dbc[c].db].config = dbc[c].config
              THEN [dbc[c] EXCEPT !.pc = "assign", !.entry = None] ELSE Fail(dbc[c])
     IN  Set(c, r) /\ LetGo(c, env, [dbc EXCEPT ![c] = r])
  /\ UNCHANGED <<env, db_instances, db_paths, calls>>

\* Mutant: cache_entry is not reset before the busy wait.
FindNoDatabaseHolds(c) ==
  /\ GotMutex(c) /\ ~DatabaseAlive(dbc[c].entry)
  /\ Set(c, [dbc[c] EXCEPT !.pc = "spin", !.weak = dbc[c].entry])
  /\ UNCHANGED <<env, inst, db_instances, db_paths, calls>>

\* The DuckDB object is gone: the entry is released, and the thread waits until it
\* has expired (at once if this was the last pointer to it).
FindNoDatabase(c) ==
  /\ GotMutex(c) /\ ~DatabaseAlive(dbc[c].entry)
  /\ LET i == dbc[c].entry
         last == inst[i].st = "gone" /\ Waiters(i) = {c}
         d == [dbc EXCEPT ![c] = [dbc[c] EXCEPT !.pc = "spin", !.entry = None, !.weak = i]]
     IN  IF last THEN /\ dbc' = Expired(i, d) /\ ExpireEntry(i)
                      /\ inst' = [inst EXCEPT ![i] = NoInstance]
                 ELSE dbc' = d /\ UNCHANGED <<inst, db_instances>>
  /\ UNCHANGED <<env, db_paths, calls>>

\* When the entry has expired cache_lock is taken again to erase the key, whichever
\* entry is there by now; then the search starts again.
EraseKey(c) ==
  /\ dbc[c].pc = "spin" /\ Ready(c) /\ dbc[c].weak = None
  /\ db_instances' = [db_instances EXCEPT ![dbc[c].file] = None]
  /\ Set(c, [dbc[c] EXCEPT !.pc = "lock"])
  /\ UNCHANGED <<env, inst, db_paths, calls>>

Done(r) == [r EXCEPT !.pc = "idle", !.config = None, !.db_created = FALSE]

\* Mutant: the object is kept in a local variable only.
AssignLocal(c) ==
  /\ dbc[c].pc = "assign" /\ Ready(c)
  /\ LET r == [dbc[c] EXCEPT !.db = None, !.conn = dbc[c].db]
     IN  /\ LetGo(c, env, [dbc EXCEPT ![c] = r])
         /\ \/ Set(c, Done(r))
            \/ Set(c, [r EXCEPT !.pc = IF r.db_created THEN "dbinit" ELSE "conninit"])
  /\ UNCHANGED <<env, db_instances, db_paths, calls>>

\* dbc->env->db = ..., which releases the object the environment owned, and a Connection
\* to the instance; then the session file, if there is one, with its database part if
\* this call created the instance.
Assign(c) ==
  /\ dbc[c].pc = "assign" /\ Ready(c)
  /\ LET e == [env EXCEPT ![EnvOf[c]] = dbc[c].db]
         r == [dbc[c] EXCEPT !.db = None, !.conn = dbc[c].db]
     IN  /\ env' = e /\ LetGo(c, e, [dbc EXCEPT ![c] = r])
         /\ \/ Set(c, Done(r))
            \/ Set(c, [r EXCEPT !.pc = IF r.db_created THEN "dbinit" ELSE "conninit"])
  /\ UNCHANGED <<db_instances, db_paths, calls>>

\* SessionInit::Run, the part for a database that was just created.
InitDatabase(c) ==
  /\ dbc[c].pc = "dbinit" /\ Ready(c)
  /\ Set(c, [dbc[c] EXCEPT !.pc = "conninit"])
  /\ inst' = [i \in Ids |-> [inst[i] EXCEPT !.inits = IF i = dbc[c].conn /\ @ < 2 THEN @ + 1 ELSE @]]
  /\ UNCHANGED <<env, db_instances, db_paths, calls>>

InitConnection(c) ==
  /\ dbc[c].pc = "conninit" /\ Ready(c)
  /\ Set(c, Done(dbc[c]))
  /\ UNCHANGED <<env, inst, db_instances, db_paths, calls>>

\* Either part fails, or attaching a Cupola connection after them: conn.reset().  The
\* environment keeps the instance.
InitFails(c) ==
  /\ dbc[c].pc \in {"dbinit", "conninit"} /\ Ready(c)
  /\ LET r == [Fail(dbc[c]) EXCEPT !.conn = None]
     IN  Set(c, r) /\ LetGo(c, env, [dbc EXCEPT ![c] = r])
  /\ UNCHANGED <<env, db_instances, db_paths, calls>>
----------------------------------------------------------------------------
(***************************************************************************)
(* The other calls, and the destructor they may have to run.               *)
(***************************************************************************)
\* Statements that are still allocated keep the instance, by the context they share.
SQLDisconnect(c) ==
  /\ Quiet(EnvOf[c]) /\ dbc[c].conn # None
  /\ \E kept \in SUBSET ({dbc[c].conn} \cap Ids) :
       /\ kept # {} => c \in Keepers
       /\ LET r == [dbc[c] EXCEPT !.conn = None, !.file = None, !.stmts = @ \cup kept]
          IN  Set(c, r) /\ LetGo(c, env, [dbc EXCEPT ![c] = r])
  /\ UNCHANGED <<env, db_instances, db_paths, calls>>

\* The connection handle is freed with its statements, and allocated again.
FreeDbc(c) ==
  /\ Quiet(EnvOf[c]) /\ dbc[c].conn = None /\ dbc[c].stmts # {}
  /\ Set(c, NoCall) /\ LetGo(c, env, [dbc EXCEPT ![c] = NoCall])
  /\ UNCHANGED <<env, db_instances, db_paths, calls>>

\* An environment without connection handles is freed, and one is allocated again.
FreeEnv(e) ==
  /\ Quiet(e) /\ env[e] # Memory
  /\ \A c \in Dbcs : EnvOf[c] = e => dbc[c].conn = None /\ dbc[c].stmts = {}
  /\ env' = [env EXCEPT ![e] = Memory]
  /\ LetGo(e, [env EXCEPT ![e] = Memory], dbc)
  /\ UNCHANGED <<dbc, db_instances, db_paths, calls>>

\* ~DatabaseInstance, AttachedDatabase::Cleanup: the file is closed (storage.reset()) ...
ResetDatabases(t) ==
  /\ \E i \in Ids : /\ inst[i].closer = t /\ inst[i].st = "closing"
                    /\ inst' = [inst EXCEPT ![i].st = "closed"]
  /\ UNCHANGED <<env, dbc, db_instances, db_paths, calls>>

\* ... then its path is forgotten (stored_database_path.reset()) ...
EraseDatabasePath(t) ==
  /\ \E i \in Ids :
       /\ inst[i].closer = t /\ inst[i].st = "closed"
       /\ inst' = [inst EXCEPT ![i].st = "detached"]
       /\ db_paths' = [db_paths EXCEPT ![inst[i].file] = ErasedDatabasePath(@)]
  /\ UNCHANGED <<env, dbc, db_instances, calls>>

\* ... and after everything else the entry is released.
ResetCacheEntry(t) ==
  /\ \E i \in Ids :
       /\ inst[i].closer = t /\ inst[i].st = "detached"
       /\ IF Waiters(i) = {}
          THEN /\ inst' = [inst EXCEPT ![i] = NoInstance]
               /\ dbc' = Expired(i, dbc) /\ ExpireEntry(i)
          ELSE /\ inst' = [inst EXCEPT ![i].st = "gone", ![i].closer = None, ![i].mutex = None]
               /\ UNCHANGED <<dbc, db_instances>>
  /\ UNCHANGED <<env, db_paths, calls>>

\* What the thread of a connection does inside SQLDriverConnect.
ConnectStep(c) ==
  \/ CreateInstance(c) \/ CreateMemory(c) \/ OpenFile(c) \/ OpenFails(c) \/ Opened(c)
  \/ FindEntry(c) \/ FindDatabase(c) \/ CheckConfig(c) \/ FindNoDatabase(c) \/ EraseKey(c)
  \/ Assign(c) \/ InitDatabase(c) \/ InitConnection(c) \/ InitFails(c)

CloseStep(t) == ResetDatabases(t) \/ EraseDatabasePath(t) \/ ResetCacheEntry(t)

Next ==
  \/ \E c \in Dbcs : ConnectStep(c) \/ SQLDriverConnect(c) \/ SQLDisconnect(c) \/ FreeDbc(c)
  \/ \E e \in Envs : FreeEnv(e)
  \/ \E t \in Envs \cup Dbcs : CloseStep(t)

Spec == Init /\ [][Next]_vars

\* A thread inside a call goes on.
FairSpec == Spec /\ (\A c \in Dbcs : WF_vars(ConnectStep(c)))
                 /\ (\A t \in Envs \cup Dbcs : WF_vars(CloseStep(t)))
----------------------------------------------------------------------------
(***************************************************************************)
(* Properties.                                                             *)
(***************************************************************************)
\* Types, and the pointers between handles, instances and entries: a connection or an
\* environment owns an instance that is open; an entry in the cache exists and is for
\* that path; the mutex of an entry is held by the thread that creates its instance.
CacheTypeOK ==
  /\ env \in [Envs -> Ids \cup {Memory}]
  /\ calls \in 0..MaxCalls
  /\ \A e \in Envs : env[e] \in Ids => inst[env[e]].st = "open"
  /\ \A c \in Dbcs :
       /\ dbc[c].conn \in Ids => inst[dbc[c].conn].st = "open" /\ inst[dbc[c].conn].file = dbc[c].file
       /\ dbc[c].entry \in Ids => inst[dbc[c].entry].st # "none"
       /\ dbc[c].pc = "open" => inst[dbc[c].entry].mutex = c
  /\ \A f \in Files : db_instances[f] \in Ids =>
       inst[db_instances[f]].st # "none" /\ inst[db_instances[f]].file = f

\* Instances that have the file open.
Attached(f) == {i \in Ids : inst[i].file = f /\ inst[i].st \in {"attached", "open", "closing"}}

\* Two instances have a file open at the same time only if both merely read it: a
\* read-write database has one instance in the process, whatever the cache forgets.  All
\* that stands between them is the count and the mode of the first attachment in db_paths
\* ("we only ever open a single database file once", database_file_path_manager.hpp:34).
SameDatabase ==
  \A f \in Files : \A i, j \in Attached(f) :
     i = j \/ {inst[i].config, inst[j].config} \subseteq ReadOnly

\* The database part of a session file is run at most once on an instance.
DbInitOnce == \A i \in Ids : inst[i].inits <= 1

\* A thread that busy-waits waits for an instance that is being shut down, or for
\* threads that are about to see that it is (the comment in GetInstanceInternal).
SpinIsShutdown ==
  \A c \in Dbcs : dbc[c].weak # None => inst[dbc[c].weak].st \in {"closing", "closed", "detached", "gone"}

\* SQLDriverConnect returns, whatever connects, shuts down or fails at the same time.
ConnectReturns == \A c \in Dbcs : dbc[c].pc # "idle" ~> dbc[c].pc = "idle"
============================================================================
