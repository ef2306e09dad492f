------------------------ MODULE InstanceCacheProofs ------------------------
(***************************************************************************)
(* Theorems about InstanceCache, for any number of environments,           *)
(* connections, files and instances and any assignment of files to         *)
(* environments.                                                           *)
(***************************************************************************)
EXTENDS InstanceCache, FiniteSetTheorems, TLAPS

\* The type invariant's sets.
PCs == {"idle", "lock", "open", "wait", "check", "spin", "assign", "dbinit", "conninit"}
States == {"none", "opening", "attached", "open", "closing", "closed", "detached", "gone"}

DbcSet ==
  [pc : PCs, file : Files \cup {Memory, None}, config : Configs \cup {None},
   entry : Ids \cup {None}, weak : Ids \cup {None}, db : Ids \cup {Memory, None},
   db_created : BOOLEAN, conn : Ids \cup {Memory, None}, stmts : SUBSET Ids]

InstSet ==
  [st : States, file : Files \cup {Memory, None}, config : Configs \cup {None},
   mutex : Dbcs \cup {None}, closer : Envs \cup Dbcs \cup {None}, inits : Nat]

Types ==
  /\ env \in [Envs -> Ids \cup {Memory}]
  /\ dbc \in [Dbcs -> DbcSet]
  /\ inst \in [Ids -> InstSet]
  /\ db_instances \in [Files -> Ids \cup {None}]
  /\ calls \in 0..MaxCalls

\* What the thread of a connection holds at each point of a connect.
Holds(c) ==
  /\ dbc[c].pc \in {"wait", "open"} => dbc[c].entry \in Ids
  /\ dbc[c].pc = "check" => dbc[c].db \in Ids
  /\ dbc[c].pc = "assign" => dbc[c].db # None
  /\ dbc[c].pc \in {"idle", "dbinit", "conninit"} => dbc[c].db = None
  /\ dbc[c].entry # None => dbc[c].pc \in {"open", "wait", "check"}
  /\ dbc[c].pc \in {"lock", "open", "wait", "check", "spin", "assign"} => dbc[c].conn = None
  /\ dbc[c].db_created => dbc[c].pc \in {"assign", "dbinit", "conninit"}

\* Pointers lead to instances in the state they imply, of the file of the connection.
Points(c) ==
  /\ dbc[c].entry \in Ids => /\ inst[dbc[c].entry].st # "none"
                             /\ inst[dbc[c].entry].file = dbc[c].file
  /\ dbc[c].db \in Ids => inst[dbc[c].db].st = "open" /\ inst[dbc[c].db].file = dbc[c].file
  /\ dbc[c].conn \in Ids => inst[dbc[c].conn].st = "open" /\ inst[dbc[c].conn].file = dbc[c].file

\* c is creating instance i: it will run the database part on it.
Creating(c, i) ==
  \/ dbc[c].pc = "open" /\ dbc[c].entry = i
  \/ dbc[c].pc = "assign" /\ dbc[c].db_created /\ dbc[c].db = i
  \/ dbc[c].pc = "dbinit" /\ dbc[c].conn = i

Created ==
  /\ \A c \in Dbcs, i \in Ids : Creating(c, i) => inst[i].inits = 0
  /\ \A c, d \in Dbcs, i \in Ids : Creating(c, i) /\ Creating(d, i) => c = d
  /\ \A c \in Dbcs : dbc[c].pc = "open" =>
       inst[dbc[c].entry].st \in {"opening", "attached"} /\ inst[dbc[c].entry].mutex = c

Entries ==
  /\ \A e \in Envs : env[e] \in Ids => inst[env[e]].st = "open"
  /\ \A f \in Files : db_instances[f] \in Ids =>
       inst[db_instances[f]].st # "none" /\ inst[db_instances[f]].file = f

CacheInv ==
  /\ Types
  /\ \A c \in Dbcs : Holds(c) /\ Points(c)
  /\ Created
  /\ Entries
  /\ DbInitOnce
----------------------------------------------------------------------------
USE DEF Memory, None

\* No connection has been made: no instance, no entry, no call in progress.
LEMMA InitInv == Init => CacheInv
<1>1. SUFFICES ASSUME Init PROVE CacheInv
  OBVIOUS
<1>2. NoCall \in DbcSet
  BY DEF NoCall, DbcSet, PCs
<1>3. NoInstance \in InstSet
  BY DEF NoInstance, InstSet, States
<1>4. Types
  BY <1>1, <1>2, <1>3, InstanceCacheAssumption DEF Init, Types
<1>5. \A c \in Dbcs : Holds(c) /\ Points(c)
  BY <1>1, InstanceCacheAssumption DEF Init, Holds, Points, NoCall
<1>6. Created
  BY <1>1, InstanceCacheAssumption DEF Init, Created, Creating, NoCall
<1>7. Entries /\ DbInitOnce
  BY <1>1, InstanceCacheAssumption DEF Init, Entries, DbInitOnce, NoInstance
<1> QED
  BY <1>4, <1>5, <1>6, <1>7 DEF CacheInv

\* Only the record of c changes.
LEMMA OneDbc ==
  ASSUME Types, NEW c \in Dbcs, NEW r \in DbcSet, dbc' = [dbc EXCEPT ![c] = r]
  PROVE  /\ dbc' \in [Dbcs -> DbcSet]
         /\ dbc'[c] = r
         /\ \A d \in Dbcs : d # c => dbc'[d] = dbc[d]
BY DEF Types

\* A step that changes the record of c and what is said of instances only where nobody
\* else looks.
LEMMA StepOfOne ==
  ASSUME CacheInv, Types', NEW c \in Dbcs,
         \A d \in Dbcs : d # c => dbc'[d] = dbc[d],
         \A d \in Dbcs : d # c => Points(d)',
         \A d \in Dbcs : d # c /\ dbc[d].pc = "open" =>
            inst'[dbc[d].entry].st \in {"opening", "attached"} /\ inst'[dbc[d].entry].mutex = d,
         \A d \in Dbcs, i \in Ids : d # c /\ Creating(d, i) => inst'[i].inits = 0,
         Holds(c)', Points(c)',
         \A i \in Ids : Creating(c, i)' =>
            inst'[i].inits = 0 /\ \A d \in Dbcs : d # c => ~Creating(d, i),
         dbc'[c].pc = "open" =>
            inst'[dbc'[c].entry].st \in {"opening", "attached"} /\ inst'[dbc'[c].entry].mutex = c,
         Entries', DbInitOnce'
  PROVE  CacheInv'
<1>1. \A d \in Dbcs : Holds(d)' /\ Points(d)'
  BY DEF CacheInv, Holds
<1>2. \A d \in Dbcs, i \in Ids : d # c => (Creating(d, i)' <=> Creating(d, i))
  BY DEF Creating
<1>3. Created'
  <2>1. \A d \in Dbcs, i \in Ids : Creating(d, i)' => inst'[i].inits = 0
    BY <1>2
  <2>2. \A d, e \in Dbcs, i \in Ids : Creating(d, i)' /\ Creating(e, i)' => d = e
    BY <1>2 DEF CacheInv, Created
  <2>3. \A d \in Dbcs : dbc'[d].pc = "open" =>
           inst'[dbc'[d].entry].st \in {"opening", "attached"} /\ inst'[dbc'[d].entry].mutex = d
    OBVIOUS
  <2> QED
    BY <2>1, <2>2, <2>3 DEF Created
<1> QED
  BY <1>1, <1>3 DEF CacheInv

\* A thread that lets go changes only instances nobody owns, from open to closing.
LEMMA LetGoKeeps ==
  ASSUME Types, NEW t \in Envs \cup Dbcs, LetGo(t, env', dbc')
  PROVE  /\ inst' \in [Ids -> InstSet]
         /\ \A i \in Ids : /\ inst'[i].file = inst[i].file
                           /\ inst'[i].mutex = inst[i].mutex
                           /\ inst'[i].inits = inst[i].inits
                           /\ inst'[i].st = inst[i].st \/ (inst[i].st = "open" /\ inst'[i].st = "closing")
                           /\ Owned(i, env', dbc') => inst'[i].st = inst[i].st
<1>1. ASSUME NEW i \in Ids
      PROVE  /\ inst'[i] \in InstSet
             /\ inst'[i].file = inst[i].file
             /\ inst'[i].mutex = inst[i].mutex
             /\ inst'[i].inits = inst[i].inits
             /\ inst'[i].st = inst[i].st \/ (inst[i].st = "open" /\ inst'[i].st = "closing")
             /\ Owned(i, env', dbc') => inst'[i].st = inst[i].st
  <2> DEFINE closed == [inst[i] EXCEPT !.st = "closing", !.closer = t]
  <2>1. inst'[i] = IF inst[i].st = "open" /\ ~Owned(i, env', dbc') THEN closed ELSE inst[i]
    BY DEF LetGo
  <2>2. inst[i] \in InstSet
    BY DEF Types
  <2>3. /\ closed \in InstSet
        /\ closed.st = "closing" /\ closed.file = inst[i].file
        /\ closed.mutex = inst[i].mutex /\ closed.inits = inst[i].inits
    BY <2>2 DEF InstSet, States
  <2>4. CASE inst[i].st = "open" /\ ~Owned(i, env', dbc')
    <3>1. inst'[i] = closed
      BY <2>1, <2>4
    <3> QED
      BY <3>1, <2>3, <2>4
  <2>5. CASE ~(inst[i].st = "open" /\ ~Owned(i, env', dbc'))
    <3>1. inst'[i] = inst[i]
      BY <2>1, <2>5
    <3> QED
      BY <3>1, <2>2
  <2> QED
    BY <2>4, <2>5
<1> QED
  BY <1>1 DEF LetGo

\* A step that ends with LetGo and otherwise only drops or hands over pointers.
LEMMA Releases ==
  ASSUME CacheInv, NEW t \in Envs \cup Dbcs, LetGo(t, env', dbc'),
         env' \in [Envs -> Ids \cup {Memory}],
         \A e \in Envs : env'[e] \in Ids => inst[env'[e]].st = "open",
         dbc' \in [Dbcs -> DbcSet],
         UNCHANGED <<db_instances, calls>>,
         \A c \in Dbcs : Holds(c)',
         \A c \in Dbcs : dbc'[c].entry \in Ids =>
            inst[dbc'[c].entry].st # "none" /\ inst[dbc'[c].entry].file = dbc'[c].file,
         \A c \in Dbcs : dbc'[c].db \in Ids =>
            inst[dbc'[c].db].st = "open" /\ inst[dbc'[c].db].file = dbc'[c].file,
         \A c \in Dbcs : dbc'[c].conn \in Ids =>
            inst[dbc'[c].conn].st = "open" /\ inst[dbc'[c].conn].file = dbc'[c].file,
         \A c \in Dbcs, i \in Ids : Creating(c, i)' => Creating(c, i),
         \A c \in Dbcs : dbc'[c].pc = "open" => dbc[c].pc = "open" /\ dbc'[c].entry = dbc[c].entry
  PROVE  CacheInv'
<1>0. Types
  BY DEF CacheInv
<1>1. inst' \in [Ids -> InstSet]
  BY <1>0, LetGoKeeps
<1>2. \A i \in Ids : /\ inst'[i].file = inst[i].file
                     /\ inst'[i].mutex = inst[i].mutex
                     /\ inst'[i].inits = inst[i].inits
                     /\ inst'[i].st = inst[i].st \/ (inst[i].st = "open" /\ inst'[i].st = "closing")
                     /\ Owned(i, env', dbc') => inst'[i].st = inst[i].st
  BY <1>0, LetGoKeeps
<1>3. Types'
  BY <1>0, <1>1 DEF Types
<1>4. ASSUME NEW c \in Dbcs PROVE Points(c)'
  <2>1. dbc'[c].entry \in Ids =>
           inst'[dbc'[c].entry].st # "none" /\ inst'[dbc'[c].entry].file = dbc'[c].file
    BY <1>2
  <2>2. dbc'[c].db \in Ids => Owned(dbc'[c].db, env', dbc')
    BY DEF Owned
  <2>3. dbc'[c].conn \in Ids => Owned(dbc'[c].conn, env', dbc')
    BY DEF Owned
  <2> QED
    BY <1>2, <2>1, <2>2, <2>3 DEF Points
<1>5. Created'
  <2>1. \A c \in Dbcs, i \in Ids : Creating(c, i)' => inst'[i].inits = 0
    BY <1>2 DEF CacheInv, Created
  <2>2. \A c, d \in Dbcs, i \in Ids : Creating(c, i)' /\ Creating(d, i)' => c = d
    BY DEF CacheInv, Created
  <2>3. ASSUME NEW c \in Dbcs, dbc'[c].pc = "open"
        PROVE  inst'[dbc'[c].entry].st \in {"opening", "attached"} /\ inst'[dbc'[c].entry].mutex = c
    <3>1. dbc[c].pc = "open" /\ dbc'[c].entry = dbc[c].entry
      BY <2>3
    <3>2. dbc[c].entry \in Ids
      BY <3>1 DEF CacheInv, Holds
    <3>3. inst[dbc[c].entry].st \in {"opening", "attached"} /\ inst[dbc[c].entry].mutex = c
      BY <3>1 DEF CacheInv, Created
    <3> QED
      BY <1>2, <3>1, <3>2, <3>3
  <2> QED
    BY <2>1, <2>2, <2>3 DEF Created
<1>6. Entries'
  <2>1. ASSUME NEW e \in Envs, env'[e] \in Ids PROVE inst'[env'[e]].st = "open"
    <3>1. Owned(env'[e], env', dbc')
      BY DEF Owned
    <3> QED
      BY <1>2, <2>1, <3>1
  <2>2. \A f \in Files : db_instances[f] \in Ids =>
           inst[db_instances[f]].st # "none" /\ inst[db_instances[f]].file = f
    BY DEF CacheInv, Entries
  <2> QED
    BY <1>2, <2>1, <2>2 DEF Entries
<1>7. DbInitOnce'
  BY <1>2 DEF CacheInv, DbInitOnce
<1> QED
  BY <1>3, <1>4, <1>5, <1>6, <1>7 DEF CacheInv

\* A step that only changes what c's thread does.
LEMMA OnlyDbc ==
  ASSUME CacheInv, NEW c \in Dbcs, NEW r \in DbcSet, dbc' = [dbc EXCEPT ![c] = r],
         UNCHANGED <<env, inst, db_instances>>, calls' \in 0..MaxCalls,
         Holds(c)', Points(c)', r.pc # "open",
         \A i \in Ids : Creating(c, i)' => Creating(c, i)
  PROVE  CacheInv'
<1>1. Types
  BY DEF CacheInv
<1>2. /\ dbc' \in [Dbcs -> DbcSet]
      /\ dbc'[c] = r
      /\ \A d \in Dbcs : d # c => dbc'[d] = dbc[d]
  BY <1>1, OneDbc
<1>3. Types'
  BY <1>1, <1>2 DEF Types
<1>4. \A d \in Dbcs : d # c => Points(d)'
  BY <1>2 DEF CacheInv, Points
<1>5. \A d \in Dbcs : d # c /\ dbc[d].pc = "open" =>
         inst'[dbc[d].entry].st \in {"opening", "attached"} /\ inst'[dbc[d].entry].mutex = d
  BY DEF CacheInv, Created
<1>6. \A d \in Dbcs, i \in Ids : d # c /\ Creating(d, i) => inst'[i].inits = 0
  BY DEF CacheInv, Created
<1>7. \A i \in Ids : Creating(c, i)' =>
         inst'[i].inits = 0 /\ \A d \in Dbcs : d # c => ~Creating(d, i)
  BY DEF CacheInv, Created
<1>8. Entries' /\ DbInitOnce'
  BY DEF CacheInv, Entries, DbInitOnce
<1> QED
  BY <1>2, <1>3, <1>4, <1>5, <1>6, <1>7, <1>8, StepOfOne

\* A connect begins on a handle without pointers.
LEMMA SQLDriverConnectKeeps ==
  ASSUME CacheInv, NEW c \in Dbcs, SQLDriverConnect(c)
  PROVE  CacheInv'
<1>1. dbc[c] \in DbcSet /\ Holds(c) /\ Points(c) /\ calls \in 0..MaxCalls
  BY DEF CacheInv, Types
<1>2. PICK f \in FilesOf[EnvOf[c]], g \in Configs :
         dbc' = [dbc EXCEPT ![c] = [dbc[c] EXCEPT !.pc = "lock", !.file = f, !.config = g]]
  BY DEF SQLDriverConnect, Set
<1> DEFINE r == [dbc[c] EXCEPT !.pc = "lock", !.file = f, !.config = g]
<1>3. dbc[c].pc = "idle" /\ dbc[c].conn = None
  BY DEF SQLDriverConnect, Quiet
<1>4. f \in Files \cup {Memory}
  BY InstanceCacheAssumption
<1>5. /\ r \in DbcSet /\ r.pc = "lock" /\ r.entry = dbc[c].entry /\ r.db = dbc[c].db
      /\ r.conn = dbc[c].conn /\ r.db_created = dbc[c].db_created
  BY <1>1, <1>4 DEF DbcSet, PCs
<1>6. dbc'[c] = r
  BY <1>2 DEF CacheInv, Types
<1>7. calls' \in 0..MaxCalls /\ UNCHANGED <<env, inst, db_instances>>
  BY <1>1, InstanceCacheAssumption DEF SQLDriverConnect
<1> HIDE DEF r
<1>8. dbc[c].entry = None /\ dbc[c].db = None /\ ~dbc[c].db_created
  BY <1>1, <1>3 DEF Holds
<1>9. Holds(c)' /\ Points(c)'
  BY <1>3, <1>5, <1>6, <1>8, InstanceCacheAssumption DEF Holds, Points
<1>10. \A i \in Ids : ~Creating(c, i)'
  BY <1>5, <1>6 DEF Creating
<1> QED
  BY <1>2, <1>5, <1>6, <1>7, <1>9, <1>10, OnlyDbc DEF r

\* An instance in memory has no name: nobody else can find it.
LEMMA CreateMemoryKeeps ==
  ASSUME CacheInv, NEW c \in Dbcs, CreateMemory(c)
  PROVE  CacheInv'
<1> DEFINE r == [dbc[c] EXCEPT !.pc = "assign", !.db = Memory, !.db_created = TRUE]
<1>1. dbc[c] \in DbcSet /\ Holds(c) /\ Points(c) /\ calls \in 0..MaxCalls
  BY DEF CacheInv, Types
<1>2. dbc' = [dbc EXCEPT ![c] = r] /\ dbc[c].pc = "lock" /\ UNCHANGED <<env, inst, db_instances, calls>>
  BY DEF CreateMemory, Set
<1>3. /\ r \in DbcSet /\ r.pc = "assign" /\ r.entry = dbc[c].entry /\ r.db = Memory
      /\ r.conn = dbc[c].conn /\ r.db_created /\ r.file = dbc[c].file
  BY <1>1 DEF DbcSet, PCs
<1>4. dbc'[c] = r
  BY <1>2 DEF CacheInv, Types
<1> HIDE DEF r
<1>5. Holds(c)' /\ Points(c)'
  BY <1>1, <1>2, <1>3, <1>4, InstanceCacheAssumption DEF Holds, Points
<1>6. \A i \in Ids : ~Creating(c, i)'
  BY <1>3, <1>4, InstanceCacheAssumption DEF Creating
<1> QED
  BY <1>1, <1>2, <1>3, <1>5, <1>6, OnlyDbc

\* The entry found under cache_lock exists and is for the path.
LEMMA FindEntryKeeps ==
  ASSUME CacheInv, NEW c \in Dbcs, FindEntry(c)
  PROVE  CacheInv'
<1> DEFINE r == [dbc[c] EXCEPT !.pc = "wait", !.entry = db_instances[dbc[c].file]]
<1>1. dbc[c] \in DbcSet /\ Holds(c) /\ Points(c) /\ calls \in 0..MaxCalls
  BY DEF CacheInv, Types
<1>2. dbc' = [dbc EXCEPT ![c] = r] /\ dbc[c].pc = "lock" /\ UNCHANGED <<env, inst, db_instances, calls>>
  BY DEF FindEntry, Set
<1>3. /\ dbc[c].file \in Files /\ db_instances[dbc[c].file] \in Ids
      /\ inst[db_instances[dbc[c].file]].st # "none" /\ inst[db_instances[dbc[c].file]].file = dbc[c].file
  BY DEF FindEntry, CacheInv, Types, Entries
<1>4. /\ r \in DbcSet /\ r.pc = "wait" /\ r.entry = db_instances[dbc[c].file] /\ r.db = dbc[c].db
      /\ r.conn = dbc[c].conn /\ r.db_created = dbc[c].db_created /\ r.file = dbc[c].file
  BY <1>1, <1>3 DEF DbcSet, PCs
<1>5. dbc'[c] = r
  BY <1>2 DEF CacheInv, Types
<1> HIDE DEF r
<1>6. Holds(c)' /\ Points(c)'
  BY <1>1, <1>2, <1>3, <1>4, <1>5 DEF Holds, Points
<1>7. \A i \in Ids : ~Creating(c, i)'
  BY <1>4, <1>5 DEF Creating
<1> QED
  BY <1>1, <1>2, <1>4, <1>6, <1>7, OnlyDbc

\* The DuckDB object exists, so its instance is open.
LEMMA FindDatabaseKeeps ==
  ASSUME CacheInv, NEW c \in Dbcs, FindDatabase(c)
  PROVE  CacheInv'
<1> DEFINE r == [dbc[c] EXCEPT !.pc = "check", !.db = dbc[c].entry]
<1>1. dbc[c] \in DbcSet /\ Holds(c) /\ Points(c) /\ calls \in 0..MaxCalls
  BY DEF CacheInv, Types
<1>2. /\ dbc' = [dbc EXCEPT ![c] = r] /\ dbc[c].pc = "wait" /\ UNCHANGED <<env, inst, db_instances, calls>>
      /\ DatabaseAlive(dbc[c].entry)
  BY DEF FindDatabase, GotMutex, Set
<1>3. dbc[c].entry \in Ids
  BY <1>1, <1>2 DEF Holds
<1>4. inst[dbc[c].entry].st = "open"
  BY <1>2, <1>3 DEF DatabaseAlive, CacheInv, Entries, Points
<1>5. /\ r \in DbcSet /\ r.pc = "check" /\ r.entry = dbc[c].entry /\ r.db = dbc[c].entry
      /\ r.conn = dbc[c].conn /\ r.db_created = dbc[c].db_created /\ r.file = dbc[c].file
  BY <1>1, <1>3 DEF DbcSet, PCs
<1>6. dbc'[c] = r
  BY <1>2 DEF CacheInv, Types
<1> HIDE DEF r
<1>7. Holds(c)' /\ Points(c)'
  BY <1>1, <1>2, <1>3, <1>4, <1>5, <1>6 DEF Holds, Points
<1>8. \A i \in Ids : ~Creating(c, i)'
  BY <1>5, <1>6 DEF Creating
<1> QED
  BY <1>1, <1>2, <1>5, <1>7, <1>8, OnlyDbc

\* The connection part of the session file touches no instance.
LEMMA InitConnectionKeeps ==
  ASSUME CacheInv, NEW c \in Dbcs, InitConnection(c)
  PROVE  CacheInv'
<1> DEFINE r == Done(dbc[c])
<1>1. dbc[c] \in DbcSet /\ Holds(c) /\ Points(c) /\ calls \in 0..MaxCalls
  BY DEF CacheInv, Types
<1>2. dbc' = [dbc EXCEPT ![c] = r] /\ dbc[c].pc = "conninit" /\ UNCHANGED <<env, inst, db_instances, calls>>
  BY DEF InitConnection, Set
<1>3. /\ r \in DbcSet /\ r.pc = "idle" /\ r.entry = dbc[c].entry /\ r.db = dbc[c].db
      /\ r.conn = dbc[c].conn /\ ~r.db_created /\ r.file = dbc[c].file
  BY <1>1 DEF Done, DbcSet, PCs
<1>4. dbc'[c] = r
  BY <1>2 DEF CacheInv, Types
<1> HIDE DEF r
<1>5. Holds(c)' /\ Points(c)'
  BY <1>1, <1>2, <1>3, <1>4 DEF Holds, Points
<1>6. \A i \in Ids : ~Creating(c, i)'
  BY <1>3, <1>4 DEF Creating
<1> QED
  BY <1>1, <1>2, <1>3, <1>5, <1>6, OnlyDbc

\* The same for a step of one connection.
LEMMA ReleasesOne ==
  ASSUME CacheInv, NEW c \in Dbcs, NEW r \in DbcSet, dbc' = [dbc EXCEPT ![c] = r],
         LetGo(c, env', dbc'),
         env' \in [Envs -> Ids \cup {Memory}],
         \A e \in Envs : env'[e] \in Ids => inst[env'[e]].st = "open",
         UNCHANGED <<db_instances, calls>>,
         Holds(c)', r.pc # "open",
         r.entry \in Ids => inst[r.entry].st # "none" /\ inst[r.entry].file = r.file,
         r.db \in Ids => inst[r.db].st = "open" /\ inst[r.db].file = r.file,
         r.conn \in Ids => inst[r.conn].st = "open" /\ inst[r.conn].file = r.file,
         \A i \in Ids : Creating(c, i)' => Creating(c, i)
  PROVE  CacheInv'
<1>1. Types
  BY DEF CacheInv
<1>2. /\ dbc' \in [Dbcs -> DbcSet]
      /\ dbc'[c] = r
      /\ \A d \in Dbcs : d # c => dbc'[d] = dbc[d]
  BY <1>1, OneDbc
<1>3. \A d \in Dbcs : Holds(d)'
  BY <1>2 DEF CacheInv, Holds
<1>4. \A d \in Dbcs, i \in Ids : Creating(d, i)' => Creating(d, i)
  BY <1>2 DEF Creating
<1>5. \A d \in Dbcs : dbc'[d].entry \in Ids =>
         inst[dbc'[d].entry].st # "none" /\ inst[dbc'[d].entry].file = dbc'[d].file
  BY <1>2 DEF CacheInv, Points
<1>6. \A d \in Dbcs : dbc'[d].db \in Ids =>
         inst[dbc'[d].db].st = "open" /\ inst[dbc'[d].db].file = dbc'[d].file
  BY <1>2 DEF CacheInv, Points
<1>7. \A d \in Dbcs : dbc'[d].conn \in Ids =>
         inst[dbc'[d].conn].st = "open" /\ inst[dbc'[d].conn].file = dbc'[d].file
  BY <1>2 DEF CacheInv, Points
<1>8. \A d \in Dbcs : dbc'[d].pc = "open" => dbc[d].pc = "open" /\ dbc'[d].entry = dbc[d].entry
  BY <1>2
<1> QED
  BY <1>2, <1>3, <1>4, <1>5, <1>6, <1>7, <1>8, Releases

\* A connect that ends in an error holds nothing but what conn held before.
LEMMA FailIsIdle ==
  ASSUME NEW r \in DbcSet
  PROVE  /\ Fail(r) \in DbcSet
         /\ Fail(r).pc = "idle" /\ Fail(r).entry = None /\ Fail(r).db = None
         /\ Fail(r).conn = r.conn /\ ~Fail(r).db_created
BY ZenonT(40) DEF Fail, DbcSet, PCs

\* A connection that found an instance is not its creator.
LEMMA CheckConfigKeeps ==
  ASSUME CacheInv, NEW c \in Dbcs, CheckConfig(c)
  PROVE  CacheInv'
<1> DEFINE s == [dbc[c] EXCEPT !.pc = "assign", !.entry = None]
           r == IF inst[dbc[c].db].config = dbc[c].config THEN s ELSE Fail(dbc[c])
<1>1. dbc[c] \in DbcSet /\ Holds(c) /\ Points(c)
  BY DEF CacheInv, Types
<1>2. /\ dbc' = [dbc EXCEPT ![c] = r] /\ dbc[c].pc = "check" /\ UNCHANGED <<env, db_instances, calls>>
      /\ LetGo(c, env', dbc')
  BY DEF CheckConfig, Set
<1>3. /\ s \in DbcSet /\ s.pc = "assign" /\ s.entry = None /\ s.db = dbc[c].db
      /\ s.conn = dbc[c].conn /\ s.db_created = dbc[c].db_created /\ s.file = dbc[c].file
  BY <1>1 DEF DbcSet, PCs
<1>4. dbc[c].conn = None /\ dbc[c].db \in Ids /\ ~dbc[c].db_created
  BY <1>1, <1>2 DEF Holds
<1>5. r \in DbcSet
  BY <1>1, <1>3, FailIsIdle
<1>6. dbc'[c] = r
  BY <1>2 DEF CacheInv, Types
<1>7. r = s \/ r = Fail(dbc[c])
  OBVIOUS
<1> HIDE DEF r, s
<1>8. Holds(c)' /\ r.pc # "open" /\ \A i \in Ids : ~Creating(c, i)'
  BY <1>1, <1>3, <1>4, <1>6, <1>7, FailIsIdle, InstanceCacheAssumption DEF Holds, Creating
<1>9. /\ r.entry \in Ids => inst[r.entry].st # "none" /\ inst[r.entry].file = r.file
      /\ r.db \in Ids => inst[r.db].st = "open" /\ inst[r.db].file = r.file
      /\ r.conn \in Ids => inst[r.conn].st = "open" /\ inst[r.conn].file = r.file
  BY <1>1, <1>3, <1>4, <1>7, FailIsIdle, InstanceCacheAssumption DEF Points
<1>10. /\ env' \in [Envs -> Ids \cup {Memory}]
       /\ \A e \in Envs : env'[e] \in Ids => inst[env'[e]].st = "open"
  BY <1>2 DEF CacheInv, Types, Entries
<1> QED
  BY <1>2, <1>5, <1>8, <1>9, <1>10, ReleasesOne

\* The pointer goes from the stack to the environment and the connection.
LEMMA AssignKeeps ==
  ASSUME CacheInv, NEW c \in Dbcs, Assign(c)
  PROVE  CacheInv'
<1> DEFINE e0 == [env EXCEPT ![EnvOf[c]] = dbc[c].db]
           r0 == [dbc[c] EXCEPT !.db = None, !.conn = dbc[c].db]
           r1 == Done(r0)
           r2 == [r0 EXCEPT !.pc = IF r0.db_created THEN "dbinit" ELSE "conninit"]
<1>1. dbc[c] \in DbcSet /\ Holds(c) /\ Points(c) /\ env \in [Envs -> Ids \cup {Memory}]
  BY DEF CacheInv, Types
<1>2. /\ dbc' = [dbc EXCEPT ![c] = r1] \/ dbc' = [dbc EXCEPT ![c] = r2]
      /\ dbc[c].pc = "assign" /\ env' = e0 /\ UNCHANGED <<db_instances, calls>>
      /\ LetGo(c, e0, [dbc EXCEPT ![c] = r0])
  BY DEF Assign, Set
<1>3. dbc[c].db \in Ids \cup {Memory}
  BY <1>1, <1>2 DEF Holds, DbcSet
<1>4. /\ r0 \in DbcSet /\ r0.pc = "assign" /\ r0.entry = dbc[c].entry /\ r0.db = None
      /\ r0.conn = dbc[c].db /\ r0.db_created = dbc[c].db_created /\ r0.file = dbc[c].file
      /\ r0.stmts = dbc[c].stmts
  BY <1>1, <1>2, <1>3 DEF DbcSet, PCs
<1>5. /\ r1 \in DbcSet /\ r1.pc = "idle" /\ r1.entry = r0.entry /\ r1.db = None
      /\ r1.conn = r0.conn /\ ~r1.db_created /\ r1.file = r0.file /\ r1.stmts = r0.stmts
  BY <1>4 DEF Done, DbcSet, PCs
<1>6. /\ r2 \in DbcSet /\ r2.pc = IF r0.db_created THEN "dbinit" ELSE "conninit"
      /\ r2.entry = r0.entry /\ r2.db = None
      /\ r2.conn = r0.conn /\ r2.db_created = r0.db_created /\ r2.file = r0.file /\ r2.stmts = r0.stmts
  BY <1>4 DEF DbcSet, PCs
<1>7. PICK r \in {r1, r2} : dbc' = [dbc EXCEPT ![c] = r]
  BY <1>2
<1>8. /\ r \in DbcSet /\ r.entry = dbc[c].entry /\ r.db = None /\ r.conn = dbc[c].db
      /\ r.file = dbc[c].file /\ r.stmts = dbc[c].stmts
      /\ r.pc = "idle" \/ (r.pc = "dbinit" /\ dbc[c].db_created) \/ r.pc = "conninit"
      /\ r.db_created => r.pc \in {"dbinit", "conninit"}
  BY <1>4, <1>5, <1>6, <1>7
<1> HIDE DEF r0, r1, r2
<1>9. dbc[c].entry = None
  BY <1>1, <1>2 DEF Holds
<1>10. dbc'[c] = r /\ \A d \in Dbcs : d # c => dbc'[d] = dbc[d]
  BY <1>7 DEF CacheInv, Types
<1>11. LetGo(c, env', dbc')
  <2> DEFINE d0 == [dbc EXCEPT ![c] = r0]
  <2>1. d0[c] = r0 /\ \A d \in Dbcs : d # c => d0[d] = dbc[d]
    BY DEF CacheInv, Types
  <2>2. \A d \in Dbcs : /\ d0[d].db = dbc'[d].db
                        /\ d0[d].conn = dbc'[d].conn
                        /\ d0[d].stmts = dbc'[d].stmts
    BY <2>1, <1>4, <1>8, <1>10
  <2>3. LetGo(c, env', d0)
    BY <1>2
  <2> HIDE DEF d0
  <2>4. \A i \in Ids : Owned(i, env', d0) <=> Owned(i, env', dbc')
    BY <2>2 DEF Owned
  <2> QED
    BY <2>3, <2>4 DEF LetGo
<1>12. Holds(c)'
  BY <1>8, <1>9, <1>10 DEF Holds
<1>13. \A i \in Ids : Creating(c, i)' => Creating(c, i)
  BY <1>2, <1>8, <1>9, <1>10 DEF Creating
<1>14. /\ r.pc # "open"
       /\ r.entry \in Ids => inst[r.entry].st # "none" /\ inst[r.entry].file = r.file
       /\ r.db \in Ids => inst[r.db].st = "open" /\ inst[r.db].file = r.file
       /\ r.conn \in Ids => inst[r.conn].st = "open" /\ inst[r.conn].file = r.file
  BY <1>1, <1>8, <1>9, InstanceCacheAssumption DEF Points
<1>15. env' \in [Envs -> Ids \cup {Memory}]
  BY <1>1, <1>2, <1>3
<1>16. \A e \in Envs : env'[e] \in Ids => inst[env'[e]].st = "open"
  <2>1. \A e \in Envs : env'[e] = env[e] \/ env'[e] = dbc[c].db
    BY <1>1, <1>2
  <2> QED
    BY <1>1, <2>1 DEF CacheInv, Entries, Points
<1> QED
  BY <1>2, <1>7, <1>8, <1>11, <1>12, <1>13, <1>14, <1>15, <1>16, ReleasesOne

\* conn.reset(): the creator is gone, and nobody takes its place.
LEMMA InitFailsKeeps ==
  ASSUME CacheInv, NEW c \in Dbcs, InitFails(c)
  PROVE  CacheInv'
<1> DEFINE r == [Fail(dbc[c]) EXCEPT !.conn = None]
<1>1. dbc[c] \in DbcSet
  BY DEF CacheInv, Types
<1>2. /\ dbc' = [dbc EXCEPT ![c] = r] /\ UNCHANGED <<env, db_instances, calls>>
      /\ LetGo(c, env', dbc')
  BY DEF InitFails, Set
<1>3. /\ r \in DbcSet /\ r.pc = "idle" /\ r.entry = None /\ r.db = None /\ r.conn = None
      /\ ~r.db_created
  BY <1>1 DEF Fail, DbcSet, PCs
<1>4. dbc'[c] = r
  BY <1>2 DEF CacheInv, Types
<1> HIDE DEF r
<1>5. Holds(c)' /\ \A i \in Ids : ~Creating(c, i)'
  BY <1>3, <1>4 DEF Holds, Creating
<1>6. /\ env' \in [Envs -> Ids \cup {Memory}]
      /\ \A e \in Envs : env'[e] \in Ids => inst[env'[e]].st = "open"
  BY <1>2 DEF CacheInv, Types, Entries
<1> QED
  BY <1>2, <1>3, <1>5, <1>6, InstanceCacheAssumption, ReleasesOne

\* The connection is dropped, or handed to the statements left behind.
LEMMA SQLDisconnectKeeps ==
  ASSUME CacheInv, NEW c \in Dbcs, SQLDisconnect(c)
  PROVE  CacheInv'
<1>1. dbc[c] \in DbcSet /\ Holds(c)
  BY DEF CacheInv, Types
<1>2. PICK kept \in SUBSET ({dbc[c].conn} \cap Ids) :
        LET r == [dbc[c] EXCEPT !.conn = None, !.file = None, !.stmts = @ \cup kept]
        IN  Set(c, r) /\ LetGo(c, env, [dbc EXCEPT ![c] = r])
  BY DEF SQLDisconnect
<1> DEFINE r == [dbc[c] EXCEPT !.conn = None, !.file = None, !.stmts = @ \cup kept]
<1>3. /\ dbc' = [dbc EXCEPT ![c] = r] /\ UNCHANGED <<env, db_instances, calls>>
      /\ LetGo(c, env', dbc') /\ dbc[c].pc = "idle"
  BY <1>2 DEF SQLDisconnect, Set, Quiet
<1>4. /\ r \in DbcSet /\ r.pc = dbc[c].pc /\ r.entry = dbc[c].entry /\ r.db = dbc[c].db
      /\ r.conn = None /\ r.db_created = dbc[c].db_created
  BY <1>1 DEF DbcSet
<1>5. dbc'[c] = r
  BY <1>3 DEF CacheInv, Types
<1> HIDE DEF r
<1>6. dbc[c].entry = None /\ dbc[c].db = None
  BY <1>1, <1>3 DEF Holds
<1>7. Holds(c)' /\ \A i \in Ids : ~Creating(c, i)'
  BY <1>1, <1>3, <1>4, <1>5, <1>6 DEF Holds, Creating
<1>8. /\ env' \in [Envs -> Ids \cup {Memory}]
      /\ \A e \in Envs : env'[e] \in Ids => inst[env'[e]].st = "open"
  BY <1>3 DEF CacheInv, Types, Entries
<1> QED
  BY <1>3, <1>4, <1>6, <1>7, <1>8, InstanceCacheAssumption, ReleasesOne

\* The statements go with the handle.
LEMMA FreeDbcKeeps ==
  ASSUME CacheInv, NEW c \in Dbcs, FreeDbc(c)
  PROVE  CacheInv'
<1>1. /\ dbc' = [dbc EXCEPT ![c] = NoCall] /\ UNCHANGED <<env, db_instances, calls>>
      /\ LetGo(c, env', dbc')
  BY DEF FreeDbc, Set
<1>2. NoCall \in DbcSet
  BY DEF NoCall, DbcSet, PCs
<1>3. dbc'[c] = NoCall
  BY <1>1 DEF CacheInv, Types
<1>4. Holds(c)' /\ \A i \in Ids : ~Creating(c, i)'
  BY <1>3 DEF Holds, Creating, NoCall
<1>5. NoCall.pc = "idle" /\ NoCall.entry = None /\ NoCall.db = None /\ NoCall.conn = None
  BY DEF NoCall
<1>6. /\ env' \in [Envs -> Ids \cup {Memory}]
      /\ \A e \in Envs : env'[e] \in Ids => inst[env'[e]].st = "open"
  BY <1>1 DEF CacheInv, Types, Entries
<1> QED
  BY <1>1, <1>2, <1>4, <1>5, <1>6, InstanceCacheAssumption, ReleasesOne

\* Connections of other environments keep what they own.
LEMMA FreeEnvKeeps ==
  ASSUME CacheInv, NEW e \in Envs, FreeEnv(e)
  PROVE  CacheInv'
<1>1. /\ env' = [env EXCEPT ![e] = Memory] /\ UNCHANGED <<dbc, db_instances, calls>>
      /\ LetGo(e, env', dbc')
  BY DEF FreeEnv
<1>2. env' \in [Envs -> Ids \cup {Memory}]
  BY <1>1 DEF CacheInv, Types
<1>3. \A d \in Envs : env'[d] \in Ids => inst[env'[d]].st = "open"
  <2>1. \A d \in Envs : env'[d] = env[d] \/ env'[d] = Memory
    BY <1>1 DEF CacheInv, Types
  <2> QED
    BY <2>1, InstanceCacheAssumption DEF CacheInv, Entries
<1>4. /\ dbc' \in [Dbcs -> DbcSet]
      /\ \A c \in Dbcs : Holds(c)'
      /\ \A c \in Dbcs, i \in Ids : Creating(c, i)' => Creating(c, i)
  BY <1>1 DEF CacheInv, Types, Holds, Creating
<1>5. \A c \in Dbcs : dbc'[c].entry \in Ids =>
         inst[dbc'[c].entry].st # "none" /\ inst[dbc'[c].entry].file = dbc'[c].file
  BY <1>1 DEF CacheInv, Points
<1>6. \A c \in Dbcs : dbc'[c].db \in Ids =>
         inst[dbc'[c].db].st = "open" /\ inst[dbc'[c].db].file = dbc'[c].file
  BY <1>1 DEF CacheInv, Points
<1>7. \A c \in Dbcs : dbc'[c].conn \in Ids =>
         inst[dbc'[c].conn].st = "open" /\ inst[dbc'[c].conn].file = dbc'[c].file
  BY <1>1 DEF CacheInv, Points
<1>8. \A c \in Dbcs : dbc'[c].pc = "open" => dbc[c].pc = "open" /\ dbc'[c].entry = dbc[c].entry
  BY <1>1
<1> QED
  BY <1>1, <1>2, <1>3, <1>4, <1>5, <1>6, <1>7, <1>8, Releases

\* The key is erased whichever entry it leads to by now; that entry stays valid.
LEMMA EraseKeyKeeps ==
  ASSUME CacheInv, NEW c \in Dbcs, EraseKey(c)
  PROVE  CacheInv'
<1> DEFINE r == [dbc[c] EXCEPT !.pc = "lock"]
<1>1. Types /\ dbc[c] \in DbcSet /\ Holds(c) /\ Points(c)
  BY DEF CacheInv, Types
<1>2. /\ dbc' = [dbc EXCEPT ![c] = r] /\ dbc[c].pc = "spin" /\ UNCHANGED <<env, inst, calls>>
      /\ db_instances' = [db_instances EXCEPT ![dbc[c].file] = None]
  BY DEF EraseKey, Set
<1>3. /\ r \in DbcSet /\ r.pc = "lock" /\ r.entry = dbc[c].entry /\ r.db = dbc[c].db
      /\ r.conn = dbc[c].conn /\ r.db_created = dbc[c].db_created /\ r.file = dbc[c].file
  BY <1>1 DEF DbcSet, PCs
<1> HIDE DEF r
<1>4. /\ dbc' \in [Dbcs -> DbcSet]
      /\ dbc'[c] = r
      /\ \A d \in Dbcs : d # c => dbc'[d] = dbc[d]
  BY <1>1, <1>2, <1>3, OneDbc
<1>5. /\ db_instances' \in [Files -> Ids \cup {None}]
      /\ \A f \in Files : db_instances'[f] = db_instances[f] \/ db_instances'[f] = None
  BY <1>1, <1>2 DEF Types
<1>6. Types'
  BY <1>1, <1>2, <1>4, <1>5 DEF Types
<1>7. Holds(c)' /\ Points(c)' /\ \A i \in Ids : ~Creating(c, i)'
  BY <1>1, <1>2, <1>3, <1>4 DEF Holds, Points, Creating
<1>8. \A d \in Dbcs : d # c => Points(d)'
  BY <1>2, <1>4 DEF CacheInv, Points
<1>9. \A d \in Dbcs : d # c /\ dbc[d].pc = "open" =>
         inst'[dbc[d].entry].st \in {"opening", "attached"} /\ inst'[dbc[d].entry].mutex = d
  BY <1>2 DEF CacheInv, Created
<1>10. \A d \in Dbcs, i \in Ids : d # c /\ Creating(d, i) => inst'[i].inits = 0
  BY <1>2 DEF CacheInv, Created
<1>11. Entries'
  BY <1>2, <1>5, InstanceCacheAssumption DEF CacheInv, Entries
<1>12. DbInitOnce'
  BY <1>2 DEF CacheInv, DbInitOnce
<1> QED
  BY <1>3, <1>4, <1>6, <1>7, <1>8, <1>9, <1>10, <1>11, <1>12, StepOfOne

\* Nobody points to a free name, so c is its only creator.
LEMMA CreateInstanceKeeps ==
  ASSUME CacheInv, NEW c \in Dbcs, CreateInstance(c)
  PROVE  CacheInv'
<1>1. Types /\ dbc[c] \in DbcSet /\ Holds(c) /\ Points(c)
  BY DEF CacheInv, Types
<1>2. PICK i \in Free : /\ inst' = [inst EXCEPT ![i] = Opening(c, c)]
                        /\ db_instances' = [db_instances EXCEPT ![dbc[c].file] = i]
                        /\ dbc' = [dbc EXCEPT ![c] = [dbc[c] EXCEPT !.pc = "open", !.entry = i]]
  BY DEF CreateInstance, Set
<1> DEFINE r == [dbc[c] EXCEPT !.pc = "open", !.entry = i]
<1>3. /\ i \in Ids /\ inst[i].st = "none" /\ dbc[c].pc = "lock" /\ dbc[c].file \in Files
      /\ UNCHANGED <<env, calls>>
  BY DEF Free, CreateInstance, NotCached
<1>4. /\ r \in DbcSet /\ r.pc = "open" /\ r.entry = i /\ r.db = dbc[c].db
      /\ r.conn = dbc[c].conn /\ r.db_created = dbc[c].db_created /\ r.file = dbc[c].file
  BY <1>1, <1>3 DEF DbcSet, PCs
<1>5. dbc' = [dbc EXCEPT ![c] = r]
  BY <1>2
<1> HIDE DEF r
<1>6. /\ dbc' \in [Dbcs -> DbcSet]
      /\ dbc'[c] = r
      /\ \A d \in Dbcs : d # c => dbc'[d] = dbc[d]
  BY <1>1, <1>4, <1>5, OneDbc
<1>7. /\ Opening(c, c) \in InstSet /\ Opening(c, c).st = "opening" /\ Opening(c, c).inits = 0
      /\ Opening(c, c).file = dbc[c].file /\ Opening(c, c).mutex = c
  BY <1>1 DEF Opening, NoInstance, InstSet, States, DbcSet
<1>8. /\ inst' \in [Ids -> InstSet] /\ inst'[i] = Opening(c, c)
      /\ \A j \in Ids : j # i => inst'[j] = inst[j]
  BY <1>1, <1>2, <1>3, <1>7 DEF Types
<1>9. /\ db_instances' \in [Files -> Ids \cup {None}] /\ db_instances'[dbc[c].file] = i
      /\ \A f \in Files : f # dbc[c].file => db_instances'[f] = db_instances[f]
  BY <1>1, <1>2, <1>3 DEF Types
<1>10. Types'
  BY <1>1, <1>3, <1>6, <1>8, <1>9 DEF Types
<1>11. \A d \in Dbcs : dbc[d].entry # i /\ dbc[d].db # i /\ dbc[d].conn # i
  BY <1>3 DEF CacheInv, Points
<1>12. \A d \in Dbcs : d # c => Points(d)'
  BY <1>6, <1>8, <1>11 DEF CacheInv, Points
<1>13. \A d \in Dbcs : d # c /\ dbc[d].pc = "open" =>
         inst'[dbc[d].entry].st \in {"opening", "attached"} /\ inst'[dbc[d].entry].mutex = d
  BY <1>8, <1>11 DEF CacheInv, Created, Holds
<1>14. \A d \in Dbcs, j \in Ids : d # c /\ Creating(d, j) => inst'[j].inits = 0
  BY <1>7, <1>8 DEF CacheInv, Created
<1>15. Holds(c)'
  BY <1>1, <1>3, <1>4, <1>6, InstanceCacheAssumption DEF Holds
<1>16. Points(c)'
  BY <1>1, <1>3, <1>4, <1>6, <1>7, <1>8, <1>11 DEF Points
<1>17. \A j \in Ids : Creating(c, j)' =>
         inst'[j].inits = 0 /\ \A d \in Dbcs : d # c => ~Creating(d, j)
  <2>1. \A j \in Ids : Creating(c, j)' => j = i
    BY <1>4, <1>6 DEF Creating
  <2> QED
    BY <2>1, <1>7, <1>8, <1>11 DEF Creating
<1>18. Entries'
  <2>1. \A e \in Envs : env[e] # i
    BY <1>3 DEF CacheInv, Entries
  <2>2. \A f \in Files : db_instances[f] # i
    BY <1>3 DEF CacheInv, Entries
  <2> QED
    BY <1>3, <1>7, <1>8, <1>9, <2>1, <2>2 DEF CacheInv, Entries
<1>19. DbInitOnce'
  BY <1>7, <1>8 DEF CacheInv, DbInitOnce
<1> QED
  BY <1>4, <1>6, <1>7, <1>8, <1>10, <1>12, <1>13, <1>14, <1>15, <1>16, <1>17, <1>18, <1>19, StepOfOne

\* The instance that c's thread opens; its entry's mutex is held by c.
LEMMA OpensOne ==
  ASSUME CacheInv, NEW c \in Dbcs, dbc[c].pc = "open"
  PROVE  /\ dbc[c].entry \in Ids
         /\ inst[dbc[c].entry].st \in {"opening", "attached"}
         /\ inst[dbc[c].entry].file = dbc[c].file
         /\ inst[dbc[c].entry].inits = 0
         /\ \A d \in Dbcs : dbc[d].db # dbc[c].entry /\ dbc[d].conn # dbc[c].entry
         /\ \A d \in Dbcs : d # c => ~Creating(d, dbc[c].entry)
         /\ \A d \in Dbcs : d # c /\ dbc[d].pc = "open" => dbc[d].entry # dbc[c].entry
         /\ \A e \in Envs : env[e] # dbc[c].entry
<1>1. dbc[c].entry \in Ids
  BY DEF CacheInv, Holds
<1>2. inst[dbc[c].entry].st \in {"opening", "attached"} /\ inst[dbc[c].entry].mutex = c
  BY DEF CacheInv, Created
<1>3. inst[dbc[c].entry].file = dbc[c].file
  BY <1>1 DEF CacheInv, Points
<1>4. Creating(c, dbc[c].entry)
  BY DEF Creating
<1>5. inst[dbc[c].entry].inits = 0 /\ \A d \in Dbcs : d # c => ~Creating(d, dbc[c].entry)
  BY <1>1, <1>4 DEF CacheInv, Created
<1>6. \A d \in Dbcs : dbc[d].db # dbc[c].entry /\ dbc[d].conn # dbc[c].entry
  BY <1>1, <1>2 DEF CacheInv, Points
<1>7. \A e \in Envs : env[e] # dbc[c].entry
  BY <1>1, <1>2 DEF CacheInv, Entries
<1>8. \A d \in Dbcs : d # c /\ dbc[d].pc = "open" => dbc[d].entry # dbc[c].entry
  BY <1>5 DEF Creating
<1> QED
  BY <1>1, <1>2, <1>3, <1>5, <1>6, <1>7, <1>8

\* A step of the thread that opens an instance: the instance stays typed and keeps its
\* file, and the thread goes on, or ends.
LEMMA OpenStep ==
  ASSUME CacheInv, NEW c \in Dbcs, dbc[c].pc = "open",
         NEW r \in DbcSet, dbc' = [dbc EXCEPT ![c] = r],
         NEW v \in InstSet, inst' = [inst EXCEPT ![dbc[c].entry] = v],
         v.st # "none", v.file = inst[dbc[c].entry].file, v.inits = inst[dbc[c].entry].inits,
         UNCHANGED <<env, db_instances, calls>>,
         Holds(c)',
         r.entry \in Ids => r.entry = dbc[c].entry /\ r.file = dbc[c].file,
         r.db \in Ids => \/ r.db = dbc[c].entry /\ v.st = "open" /\ r.file = dbc[c].file
                         \/ r.db = dbc[c].db /\ r.file = dbc[c].file,
         r.conn = None,
         \A i \in Ids : Creating(c, i)' => i = dbc[c].entry,
         r.pc = "open" => r.entry = dbc[c].entry /\ v.st \in {"opening", "attached"} /\ v.mutex = c
  PROVE  CacheInv'
<1> DEFINE i == dbc[c].entry
<1>1. Types /\ dbc[c] \in DbcSet /\ Holds(c) /\ Points(c)
  BY DEF CacheInv, Types
<1>2. /\ i \in Ids
      /\ inst[i].st \in {"opening", "attached"}
      /\ inst[i].file = dbc[c].file
      /\ inst[i].inits = 0
      /\ \A d \in Dbcs : dbc[d].db # i /\ dbc[d].conn # i
      /\ \A d \in Dbcs : d # c => ~Creating(d, i)
      /\ \A d \in Dbcs : d # c /\ dbc[d].pc = "open" => dbc[d].entry # i
      /\ \A e \in Envs : env[e] # i
  BY OpensOne
<1>3. /\ dbc' \in [Dbcs -> DbcSet]
      /\ dbc'[c] = r
      /\ \A d \in Dbcs : d # c => dbc'[d] = dbc[d]
  BY <1>1, OneDbc
<1>4. /\ inst' \in [Ids -> InstSet] /\ inst'[i] = v
      /\ \A j \in Ids : j # i => inst'[j] = inst[j]
  BY <1>1, <1>2 DEF Types
<1>5. Types'
  BY <1>1, <1>3, <1>4 DEF Types
<1>6. r.entry \in Ids => r.entry = i /\ r.file = dbc[c].file
  OBVIOUS
<1>7. r.db \in Ids => \/ r.db = i /\ v.st = "open" /\ r.file = dbc[c].file
                      \/ r.db = dbc[c].db /\ r.file = dbc[c].file
  OBVIOUS
<1>8. \A j \in Ids : Creating(c, j)' => j = i
  OBVIOUS
<1>9. r.pc = "open" => r.entry = i /\ v.st \in {"opening", "attached"} /\ v.mutex = c
  OBVIOUS
<1>10. v.file = inst[i].file /\ v.inits = inst[i].inits
  OBVIOUS
<1> HIDE DEF i
<1>11. \A d \in Dbcs : d # c => Points(d)'
  BY <1>2, <1>3, <1>4, <1>10 DEF CacheInv, Points
<1>12. \A d \in Dbcs : d # c /\ dbc[d].pc = "open" =>
         inst'[dbc[d].entry].st \in {"opening", "attached"} /\ inst'[dbc[d].entry].mutex = d
  BY <1>2, <1>4 DEF CacheInv, Created, Holds
<1>13. \A d \in Dbcs, j \in Ids : d # c /\ Creating(d, j) => inst'[j].inits = 0
  BY <1>2, <1>4 DEF CacheInv, Created
<1>14. Points(c)'
  BY <1>1, <1>2, <1>3, <1>4, <1>6, <1>7, <1>10, InstanceCacheAssumption DEF Points
<1>15. \A j \in Ids : Creating(c, j)' =>
         inst'[j].inits = 0 /\ \A d \in Dbcs : d # c => ~Creating(d, j)
  BY <1>2, <1>4, <1>8, <1>10
<1>16. Entries'
  BY <1>2, <1>4, <1>10 DEF CacheInv, Entries
<1>17. DbInitOnce'
  BY <1>2, <1>4, <1>10 DEF CacheInv, DbInitOnce
<1>18. dbc'[c].pc = "open" =>
         inst'[dbc'[c].entry].st \in {"opening", "attached"} /\ inst'[dbc'[c].entry].mutex = c
  BY <1>3, <1>4, <1>9
<1> QED
  BY <1>3, <1>5, <1>11, <1>12, <1>13, <1>14, <1>15, <1>16, <1>17, <1>18, StepOfOne

\* The file is attached while the mutex is held.
LEMMA OpenFileKeeps ==
  ASSUME CacheInv, NEW c \in Dbcs, OpenFile(c)
  PROVE  CacheInv'
<1> DEFINE i == dbc[c].entry
           v == [inst[i] EXCEPT !.st = "attached"]
<1>1. dbc[c].pc = "open" /\ UNCHANGED <<env, dbc, db_instances, calls>>
  BY DEF OpenFile
<1>2. i \in Ids /\ inst[i] \in InstSet /\ dbc[c] \in DbcSet /\ Holds(c) /\ inst[i].mutex = c
  BY <1>1, OpensOne DEF CacheInv, Types, Created
<1>3. inst' = [inst EXCEPT ![i] = v]
  BY DEF OpenFile
<1>4. v \in InstSet /\ v.st = "attached" /\ v.file = inst[i].file /\ v.inits = inst[i].inits /\ v.mutex = c
  BY <1>2 DEF InstSet, States
<1>5. dbc' = [dbc EXCEPT ![c] = dbc[c]]
  BY <1>1 DEF CacheInv, Types
<1>6. Holds(c)' /\ dbc[c].conn = None /\ ~dbc[c].db_created
  BY <1>1, <1>2 DEF Holds
<1>7. \A j \in Ids : Creating(c, j)' => j = i
  BY <1>1 DEF Creating
<1> HIDE DEF v
<1> QED
  BY <1>1, <1>2, <1>3, <1>4, <1>5, <1>6, <1>7, OpenStep

\* The constructor throws: entries found meanwhile lead to an instance being shut down.
LEMMA OpenFailsKeeps ==
  ASSUME CacheInv, NEW c \in Dbcs, OpenFails(c)
  PROVE  CacheInv'
<1> DEFINE i == dbc[c].entry
           v == [inst[i] EXCEPT !.closer = c, !.st = IF @ = "opening" THEN "detached" ELSE "closing"]
<1>1. dbc[c].pc = "open" /\ UNCHANGED <<env, db_instances, calls>> /\ dbc' = [dbc EXCEPT ![c] = Fail(dbc[c])]
  BY DEF OpenFails, Set
<1>2. i \in Ids /\ inst[i] \in InstSet /\ dbc[c] \in DbcSet /\ Holds(c)
  BY <1>1, OpensOne DEF CacheInv, Types
<1>3. inst' = [inst EXCEPT ![i] = v]
  BY <1>2 DEF OpenFails, CacheInv, Types
<1>4. v \in InstSet /\ v.st # "none" /\ v.file = inst[i].file /\ v.inits = inst[i].inits
  BY <1>2 DEF InstSet, States
<1> HIDE DEF v
<1> DEFINE r == Fail(dbc[c])
<1>5. /\ r \in DbcSet /\ r.pc = "idle" /\ r.entry = None /\ r.db = None /\ r.conn = dbc[c].conn
      /\ ~r.db_created
  BY <1>2, FailIsIdle
<1>6. dbc'[c] = r
  BY <1>1 DEF CacheInv, Types
<1>7. dbc' = [dbc EXCEPT ![c] = r]
  BY <1>1
<1> HIDE DEF r
<1>8. Holds(c)' /\ dbc[c].conn = None
  BY <1>1, <1>2, <1>5, <1>6 DEF Holds
<1>9. \A j \in Ids : ~Creating(c, j)'
  BY <1>5, <1>6 DEF Creating
<1>10. r.entry \notin Ids /\ r.db \notin Ids
  BY <1>5, InstanceCacheAssumption
<1>11. r.conn \notin Ids
  BY <1>5, <1>8, InstanceCacheAssumption
<1> QED
  BY <1>1, <1>2, <1>3, <1>4, <1>5, <1>7, <1>8, <1>9, <1>10, <1>11, OpenStep

\* The creator keeps the instance it opened, for which it will run the database part.
LEMMA OpenedKeeps ==
  ASSUME CacheInv, NEW c \in Dbcs, Opened(c)
  PROVE  CacheInv'
<1> DEFINE i == dbc[c].entry
           v == [inst[i] EXCEPT !.st = "open", !.mutex = None]
           r == [dbc[c] EXCEPT !.pc = "assign", !.entry = None, !.db = dbc[c].entry, !.db_created = TRUE]
<1>1. dbc[c].pc = "open" /\ UNCHANGED <<env, db_instances, calls>> /\ dbc' = [dbc EXCEPT ![c] = r]
  BY DEF Opened, Set
<1>2. i \in Ids /\ inst[i] \in InstSet /\ dbc[c] \in DbcSet /\ Holds(c)
  BY <1>1, OpensOne DEF CacheInv, Types
<1>3. inst' = [inst EXCEPT ![i] = v]
  BY <1>2 DEF Opened, CacheInv, Types
<1>4. v \in InstSet /\ v.st = "open" /\ v.file = inst[i].file /\ v.inits = inst[i].inits
  BY <1>2 DEF InstSet, States
<1>5. /\ r \in DbcSet /\ r.pc = "assign" /\ r.entry = None /\ r.db = i /\ r.conn = dbc[c].conn
      /\ r.db_created /\ r.file = dbc[c].file
  BY <1>2 DEF DbcSet, PCs
<1>6. dbc'[c] = r
  BY <1>1 DEF CacheInv, Types
<1> HIDE DEF v, r
<1>7. Holds(c)' /\ dbc[c].conn = None
  BY <1>1, <1>2, <1>5, <1>6, InstanceCacheAssumption DEF Holds
<1>8. \A j \in Ids : Creating(c, j)' => j = i
  BY <1>5, <1>6 DEF Creating
<1> QED
  BY <1>1, <1>2, <1>3, <1>4, <1>5, <1>7, <1>8, InstanceCacheAssumption, OpenStep

\* Only the creator runs the database part, and it has not been run before.
LEMMA InitDatabaseKeeps ==
  ASSUME CacheInv, NEW c \in Dbcs, InitDatabase(c)
  PROVE  CacheInv'
<1> DEFINE r == [dbc[c] EXCEPT !.pc = "conninit"]
<1>1. Types /\ dbc[c] \in DbcSet /\ Holds(c) /\ Points(c)
  BY DEF CacheInv, Types
<1>2. /\ dbc' = [dbc EXCEPT ![c] = r] /\ dbc[c].pc = "dbinit" /\ UNCHANGED <<env, db_instances, calls>>
      /\ inst' = [i \in Ids |-> [inst[i] EXCEPT !.inits = IF i = dbc[c].conn /\ @ < 2 THEN @ + 1 ELSE @]]
  BY DEF InitDatabase, Set
<1>3. /\ r \in DbcSet /\ r.pc = "conninit" /\ r.entry = dbc[c].entry /\ r.db = dbc[c].db
      /\ r.conn = dbc[c].conn /\ r.db_created = dbc[c].db_created /\ r.file = dbc[c].file
  BY <1>1 DEF DbcSet, PCs
<1> HIDE DEF r
<1>4. /\ dbc' \in [Dbcs -> DbcSet]
      /\ dbc'[c] = r
      /\ \A d \in Dbcs : d # c => dbc'[d] = dbc[d]
  BY <1>1, <1>2, <1>3, OneDbc
<1>5. ASSUME NEW i \in Ids
      PROVE  /\ inst'[i] \in InstSet /\ inst'[i].st = inst[i].st /\ inst'[i].file = inst[i].file
             /\ inst'[i].mutex = inst[i].mutex
             /\ i # dbc[c].conn => inst'[i].inits = inst[i].inits
             /\ i = dbc[c].conn /\ inst[i].inits = 0 => inst'[i].inits = 1
  <2>1. inst[i] \in InstSet
    BY <1>1 DEF Types
  <2>2. inst'[i] = [inst[i] EXCEPT !.inits = IF i = dbc[c].conn /\ @ < 2 THEN @ + 1 ELSE @]
    BY <1>2
  <2> QED
    BY <2>1, <2>2 DEF InstSet
<1>6. inst' \in [Ids -> InstSet]
  BY <1>2, <1>5
<1>7. Types'
  BY <1>1, <1>2, <1>4, <1>6 DEF Types
<1>8. \A i \in Ids : i = dbc[c].conn => Creating(c, i)
  BY <1>2 DEF Creating
<1>9. \A d \in Dbcs, i \in Ids : d # c /\ Creating(d, i) => i # dbc[c].conn
  BY <1>8 DEF CacheInv, Created
<1>10. \A d \in Dbcs, i \in Ids : d # c /\ Creating(d, i) => inst'[i].inits = 0
  BY <1>5, <1>9 DEF CacheInv, Created
<1>11. DbInitOnce'
  <2>1. \A i \in Ids : i = dbc[c].conn => inst[i].inits = 0
    BY <1>8 DEF CacheInv, Created
  <2> QED
    BY <1>5, <2>1 DEF CacheInv, DbInitOnce
<1>12. Holds(c)' /\ \A i \in Ids : ~Creating(c, i)'
  BY <1>1, <1>2, <1>3, <1>4 DEF Holds, Creating
<1>13. Points(c)'
  BY <1>1, <1>3, <1>4, <1>5 DEF Points
<1>14. \A d \in Dbcs : d # c => Points(d)'
  BY <1>4, <1>5 DEF CacheInv, Points
<1>15. \A d \in Dbcs : d # c /\ dbc[d].pc = "open" =>
         inst'[dbc[d].entry].st \in {"opening", "attached"} /\ inst'[dbc[d].entry].mutex = d
  BY <1>5 DEF CacheInv, Created, Holds
<1>16. Entries'
  BY <1>2, <1>5 DEF CacheInv, Entries
<1> QED
  BY <1>3, <1>4, <1>7, <1>10, <1>11, <1>12, <1>13, <1>14, <1>15, <1>16, StepOfOne

\* A step that takes an instance that is being shut down further, or frees its name when
\* no pointer to its entry is left.
LEMMA Shuts ==
  ASSUME CacheInv, Types', NEW i \in Ids, inst[i].st \in {"closing", "closed", "detached", "gone"},
         env' = env,
         \A j \in Ids : j # i => inst'[j] = inst[j],
         inst'[i].inits = inst[i].inits \/ inst'[i].inits = 0,
         \A f \in Files : db_instances'[f] = db_instances[f] \/ db_instances'[f] = None,
         \/ inst'[i].st # "none" /\ inst'[i].file = inst[i].file
         \/ (\A c \in Dbcs : dbc'[c].entry # i) /\ (\A f \in Files : db_instances'[f] # i),
         \A c \in Dbcs : Holds(c)',
         \A c \in Dbcs : /\ dbc'[c].file = dbc[c].file
                         /\ dbc'[c].db = dbc[c].db
                         /\ dbc'[c].conn = dbc[c].conn
                         /\ dbc'[c].entry = dbc[c].entry \/ dbc'[c].entry = None
                         /\ dbc'[c].pc = "open" => dbc[c].pc = "open" /\ dbc'[c].entry = dbc[c].entry,
         \A c \in Dbcs, j \in Ids : Creating(c, j)' => Creating(c, j)
  PROVE  CacheInv'
<1>1. ASSUME NEW c \in Dbcs PROVE Points(c)'
  <2>1. Points(c)
    BY DEF CacheInv
  <2> QED
    BY <2>1, InstanceCacheAssumption DEF Points
<1>2. Created'
  <2>1. \A c \in Dbcs, j \in Ids : Creating(c, j)' => inst'[j].inits = 0
    BY DEF CacheInv, Created
  <2>2. \A c, d \in Dbcs, j \in Ids : Creating(c, j)' /\ Creating(d, j)' => c = d
    BY DEF CacheInv, Created
  <2>3. ASSUME NEW c \in Dbcs, dbc'[c].pc = "open"
        PROVE  inst'[dbc'[c].entry].st \in {"opening", "attached"} /\ inst'[dbc'[c].entry].mutex = c
    <3>1. dbc[c].pc = "open" /\ dbc'[c].entry = dbc[c].entry
      BY <2>3
    <3>2. dbc[c].entry \in Ids /\ inst[dbc[c].entry].st \in {"opening", "attached"} /\ inst[dbc[c].entry].mutex = c
      BY <3>1 DEF CacheInv, Created, Holds
    <3> QED
      BY <3>1, <3>2
  <2> QED
    BY <2>1, <2>2, <2>3 DEF Created
<1>3. Entries'
  <2>1. \A e \in Envs : env'[e] \in Ids => inst'[env'[e]].st = "open"
    BY DEF CacheInv, Entries
  <2>2. \A f \in Files : db_instances'[f] \in Ids =>
           inst'[db_instances'[f]].st # "none" /\ inst'[db_instances'[f]].file = f
    BY InstanceCacheAssumption DEF CacheInv, Entries
  <2> QED
    BY <2>1, <2>2 DEF Entries
<1>4. DbInitOnce'
  BY DEF CacheInv, DbInitOnce
<1> QED
  BY <1>1, <1>2, <1>3, <1>4 DEF CacheInv

\* The file of an instance nobody owns is closed, and its path erased.
LEMMA ResetDatabasesKeeps ==
  ASSUME CacheInv, NEW t \in Envs \cup Dbcs, ResetDatabases(t) \/ EraseDatabasePath(t)
  PROVE  CacheInv'
<1>1. PICK i \in Ids, s \in {"closed", "detached"} :
        inst[i].st \in {"closing", "closed"} /\ inst' = [inst EXCEPT ![i].st = s]
  BY DEF ResetDatabases, EraseDatabasePath
<1>2. UNCHANGED <<env, dbc, db_instances, calls>>
  BY DEF ResetDatabases, EraseDatabasePath
<1>3. inst[i] \in InstSet /\ Types
  BY DEF CacheInv, Types
<1>4. /\ [inst[i] EXCEPT !.st = s] \in InstSet
      /\ [inst[i] EXCEPT !.st = s].st = s
      /\ [inst[i] EXCEPT !.st = s].file = inst[i].file
      /\ [inst[i] EXCEPT !.st = s].inits = inst[i].inits
  BY <1>1, <1>3 DEF InstSet, States
<1>5. /\ inst' \in [Ids -> InstSet] /\ inst'[i] = [inst[i] EXCEPT !.st = s]
      /\ \A j \in Ids : j # i => inst'[j] = inst[j]
  BY <1>1, <1>3, <1>4 DEF Types
<1>6. Types'
  BY <1>2, <1>3, <1>5 DEF Types
<1>7. \A c \in Dbcs : Holds(c)'
  BY <1>2 DEF CacheInv, Holds
<1>8. \A c \in Dbcs, j \in Ids : Creating(c, j)' => Creating(c, j)
  BY <1>2 DEF Creating
<1>9. inst'[i].st # "none" /\ inst'[i].file = inst[i].file /\ inst'[i].inits = inst[i].inits
  BY <1>1, <1>4, <1>5
<1> QED
  BY <1>1, <1>2, <1>5, <1>6, <1>7, <1>8, <1>9, Shuts

\* What expiring an entry does to the connections and to the cache.
LEMMA Expires ==
  ASSUME NEW i \in Ids, NEW d \in [Dbcs -> DbcSet]
  PROVE  /\ Expired(i, d) \in [Dbcs -> DbcSet]
         /\ \A c \in Dbcs : /\ Expired(i, d)[c].pc = d[c].pc
                            /\ Expired(i, d)[c].file = d[c].file
                            /\ Expired(i, d)[c].entry = d[c].entry
                            /\ Expired(i, d)[c].db = d[c].db
                            /\ Expired(i, d)[c].db_created = d[c].db_created
                            /\ Expired(i, d)[c].conn = d[c].conn
<1>1. ASSUME NEW c \in Dbcs
      PROVE  /\ Expired(i, d)[c] \in DbcSet
             /\ Expired(i, d)[c].pc = d[c].pc
             /\ Expired(i, d)[c].file = d[c].file
             /\ Expired(i, d)[c].entry = d[c].entry
             /\ Expired(i, d)[c].db = d[c].db
             /\ Expired(i, d)[c].db_created = d[c].db_created
             /\ Expired(i, d)[c].conn = d[c].conn
  <2>1. d[c] \in DbcSet
    OBVIOUS
  <2>2. Expired(i, d)[c] = [d[c] EXCEPT !.weak = IF @ = i THEN None ELSE @]
    BY DEF Expired
  <2> QED
    BY <2>1, <2>2 DEF DbcSet
<1> QED
  BY <1>1 DEF Expired

\* The name is free again only when no thread waits with the entry.
LEMMA ResetCacheEntryKeeps ==
  ASSUME CacheInv, NEW t \in Envs \cup Dbcs, ResetCacheEntry(t)
  PROVE  CacheInv'
<1>1. PICK i \in Ids :
        /\ inst[i].closer = t /\ inst[i].st = "detached"
        /\ IF Waiters(i) = {}
           THEN /\ inst' = [inst EXCEPT ![i] = NoInstance]
                /\ dbc' = Expired(i, dbc) /\ ExpireEntry(i)
           ELSE /\ inst' = [inst EXCEPT ![i].st = "gone", ![i].closer = None, ![i].mutex = None]
                /\ UNCHANGED <<dbc, db_instances>>
  BY DEF ResetCacheEntry
<1>2. UNCHANGED <<env, calls>> /\ Types /\ inst[i] \in InstSet /\ dbc \in [Dbcs -> DbcSet]
  BY DEF ResetCacheEntry, CacheInv, Types
<1>3. CASE Waiters(i) = {}
  <2>1. /\ inst' = [inst EXCEPT ![i] = NoInstance]
        /\ dbc' = Expired(i, dbc) /\ ExpireEntry(i)
    BY <1>1, <1>3
  <2>2. NoInstance \in InstSet /\ NoInstance.inits = 0
    BY DEF NoInstance, InstSet, States
  <2>3. /\ inst' \in [Ids -> InstSet] /\ inst'[i] = NoInstance
        /\ \A j \in Ids : j # i => inst'[j] = inst[j]
    BY <1>2, <2>1, <2>2 DEF Types
  <2>4. /\ dbc' \in [Dbcs -> DbcSet]
        /\ \A c \in Dbcs : /\ dbc'[c].pc = dbc[c].pc /\ dbc'[c].file = dbc[c].file
                           /\ dbc'[c].entry = dbc[c].entry /\ dbc'[c].db = dbc[c].db
                           /\ dbc'[c].db_created = dbc[c].db_created /\ dbc'[c].conn = dbc[c].conn
    BY <1>2, <2>1, Expires
  <2>5. /\ db_instances' \in [Files -> Ids \cup {None}]
        /\ \A f \in Files : db_instances'[f] = db_instances[f] \/ db_instances'[f] = None
        /\ \A f \in Files : db_instances'[f] # i
    BY <1>2, <2>1, InstanceCacheAssumption DEF ExpireEntry, Types
  <2>6. Types'
    BY <1>2, <2>3, <2>4, <2>5 DEF Types
  <2>7. \A c \in Dbcs : dbc'[c].entry # i
    BY <1>3, <2>4 DEF Waiters
  <2>8. \A c \in Dbcs : Holds(c)'
    BY <2>4 DEF CacheInv, Holds
  <2>9. \A c \in Dbcs, j \in Ids : Creating(c, j)' => Creating(c, j)
    BY <2>4 DEF Creating
  <2> QED
    BY <1>1, <1>2, <2>2, <2>3, <2>4, <2>5, <2>6, <2>7, <2>8, <2>9, Shuts
<1>4. CASE Waiters(i) # {}
  <2> DEFINE v == [inst[i] EXCEPT !.st = "gone", !.closer = None, !.mutex = None]
  <2>1. inst' = [inst EXCEPT ![i] = v] /\ UNCHANGED <<dbc, db_instances>>
    BY <1>1, <1>2, <1>4 DEF Types
  <2>2. v \in InstSet /\ v.st = "gone" /\ v.file = inst[i].file /\ v.inits = inst[i].inits
    BY <1>2 DEF InstSet, States
  <2> HIDE DEF v
  <2>3. /\ inst' \in [Ids -> InstSet] /\ inst'[i] = v
        /\ \A j \in Ids : j # i => inst'[j] = inst[j]
    BY <1>2, <2>1, <2>2 DEF Types
  <2>4. Types'
    BY <1>2, <2>1, <2>3 DEF Types
  <2>5. \A c \in Dbcs : Holds(c)'
    BY <2>1 DEF CacheInv, Holds
  <2>6. \A c \in Dbcs, j \in Ids : Creating(c, j)' => Creating(c, j)
    BY <2>1 DEF Creating
  <2> QED
    BY <1>1, <1>2, <2>1, <2>2, <2>3, <2>4, <2>5, <2>6, Shuts
<1> QED
  BY <1>3, <1>4

\* The last thread that waits with an entry frees its name.
LEMMA FindNoDatabaseKeeps ==
  ASSUME CacheInv, NEW c \in Dbcs, FindNoDatabase(c)
  PROVE  CacheInv'
<1> DEFINE i == dbc[c].entry
           r == [dbc[c] EXCEPT !.pc = "spin", !.entry = None, !.weak = i]
           d == [dbc EXCEPT ![c] = r]
           last == inst[i].st = "gone" /\ Waiters(i) = {c}
<1>1. /\ dbc[c] \in DbcSet /\ Holds(c) /\ Points(c) /\ calls \in 0..MaxCalls
      /\ Types /\ dbc \in [Dbcs -> DbcSet]
  BY DEF CacheInv, Types
<1>2. /\ dbc[c].pc = "wait" /\ UNCHANGED <<env, calls>>
      /\ IF last THEN dbc' = Expired(i, d) /\ ExpireEntry(i) /\ inst' = [inst EXCEPT ![i] = NoInstance]
                 ELSE dbc' = d /\ UNCHANGED <<inst, db_instances>>
  BY DEF FindNoDatabase, GotMutex
<1>3. i \in Ids
  BY <1>1, <1>2 DEF Holds
<1>4. /\ r \in DbcSet /\ r.pc = "spin" /\ r.entry = None /\ r.db = dbc[c].db
      /\ r.conn = dbc[c].conn /\ r.db_created = dbc[c].db_created /\ r.file = dbc[c].file
  BY <1>1, <1>3 DEF DbcSet, PCs
<1>5. dbc[c].conn = None /\ ~dbc[c].db_created
  BY <1>1, <1>2 DEF Holds
<1>6. d \in [Dbcs -> DbcSet] /\ d[c] = r /\ \A b \in Dbcs : b # c => d[b] = dbc[b]
  BY <1>1, <1>4
<1>7. CASE ~last
  <2>1. dbc' = [dbc EXCEPT ![c] = r] /\ UNCHANGED <<env, inst, db_instances, calls>>
    BY <1>2, <1>7
  <2>2. dbc'[c] = r
    BY <1>6, <2>1
  <2> HIDE DEF r
  <2>3. Holds(c)' /\ \A j \in Ids : ~Creating(c, j)'
    BY <1>4, <1>5, <2>2 DEF Holds, Creating
  <2>4. Points(c)'
    BY <1>1, <1>4, <2>1, <2>2, InstanceCacheAssumption DEF Points
  <2> QED
    BY <1>1, <1>4, <2>1, <2>3, <2>4, OnlyDbc
<1>8. CASE last
  <2>1. dbc' = Expired(i, d) /\ ExpireEntry(i) /\ inst' = [inst EXCEPT ![i] = NoInstance]
    BY <1>2, <1>8
  <2>2. inst[i].st = "gone" /\ Waiters(i) = {c}
    BY <1>8
  <2> HIDE DEF r, d, i
  <2>3. NoInstance \in InstSet /\ NoInstance.inits = 0
    BY DEF NoInstance, InstSet, States
  <2>4. /\ inst' \in [Ids -> InstSet] /\ inst'[i] = NoInstance
        /\ \A j \in Ids : j # i => inst'[j] = inst[j]
    BY <1>1, <1>3, <2>1, <2>3 DEF Types
  <2>5. /\ dbc' \in [Dbcs -> DbcSet]
        /\ \A b \in Dbcs : /\ dbc'[b].pc = d[b].pc /\ dbc'[b].file = d[b].file
                           /\ dbc'[b].entry = d[b].entry /\ dbc'[b].db = d[b].db
                           /\ dbc'[b].db_created = d[b].db_created /\ dbc'[b].conn = d[b].conn
    BY <1>3, <1>6, <2>1, Expires
  <2>6. /\ db_instances' \in [Files -> Ids \cup {None}]
        /\ \A f \in Files : db_instances'[f] = db_instances[f] \/ db_instances'[f] = None
        /\ \A f \in Files : db_instances'[f] # i
    BY <1>1, <1>3, <2>1, InstanceCacheAssumption DEF ExpireEntry, Types
  <2>7. Types'
    BY <1>1, <1>2, <2>4, <2>5, <2>6 DEF Types
  <2>8. \A b \in Dbcs : dbc'[b].entry # i
    BY <1>3, <1>4, <1>6, <2>2, <2>5, InstanceCacheAssumption DEF Waiters
  <2>9. \A b \in Dbcs : Holds(b)'
    <3>1. \A b \in Dbcs : b # c => Holds(b)'
      BY <1>6, <2>5 DEF CacheInv, Holds
    <3>2. Holds(c)'
      BY <1>4, <1>5, <1>6, <2>5 DEF Holds
    <3> QED
      BY <3>1, <3>2
  <2>10. \A b \in Dbcs, j \in Ids : Creating(b, j)' => Creating(b, j)
    BY <1>4, <1>6, <2>5 DEF Creating
  <2>11. \A b \in Dbcs : /\ dbc'[b].file = dbc[b].file
                         /\ dbc'[b].db = dbc[b].db
                         /\ dbc'[b].conn = dbc[b].conn
                         /\ dbc'[b].entry = dbc[b].entry \/ dbc'[b].entry = None
                         /\ dbc'[b].pc = "open" => dbc[b].pc = "open" /\ dbc'[b].entry = dbc[b].entry
    BY <1>4, <1>6, <2>5
  <2> QED
    BY <1>2, <1>3, <2>2, <2>3, <2>4, <2>6, <2>7, <2>8, <2>9, <2>10, <2>11, Shuts
<1> QED
  BY <1>7, <1>8
----------------------------------------------------------------------------
\* Every step keeps the invariant.
LEMMA NextKeeps ==
  ASSUME CacheInv, [Next]_vars
  PROVE  CacheInv'
<1>1. ASSUME NEW c \in Dbcs, ConnectStep(c) PROVE CacheInv'
  BY <1>1, CreateInstanceKeeps, CreateMemoryKeeps, OpenFileKeeps, OpenFailsKeeps, OpenedKeeps,
     FindEntryKeeps, FindDatabaseKeeps, CheckConfigKeeps, FindNoDatabaseKeeps, EraseKeyKeeps,
     AssignKeeps, InitDatabaseKeeps, InitConnectionKeeps, InitFailsKeeps DEF ConnectStep
<1>2. ASSUME NEW c \in Dbcs, SQLDriverConnect(c) \/ SQLDisconnect(c) \/ FreeDbc(c) PROVE CacheInv'
  BY <1>2, SQLDriverConnectKeeps, SQLDisconnectKeeps, FreeDbcKeeps
<1>3. ASSUME NEW e \in Envs, FreeEnv(e) PROVE CacheInv'
  BY <1>3, FreeEnvKeeps
<1>4. ASSUME NEW t \in Envs \cup Dbcs, CloseStep(t) PROVE CacheInv'
  BY <1>4, ResetDatabasesKeeps, ResetCacheEntryKeeps DEF CloseStep
<1>5. ASSUME UNCHANGED vars PROVE CacheInv'
  <2>1. Types' /\ Entries' /\ DbInitOnce'
    BY <1>5 DEF vars, CacheInv, Types, Entries, DbInitOnce
  <2>2. \A c \in Dbcs : Holds(c)' /\ Points(c)'
    BY <1>5 DEF vars, CacheInv, Holds, Points
  <2>3. Created'
    BY <1>5 DEF vars, CacheInv, Created, Creating
  <2> QED
    BY <2>1, <2>2, <2>3 DEF CacheInv
<1> QED
  BY <1>1, <1>2, <1>3, <1>4, <1>5 DEF Next

\* The invariant the other theorems rest on.
THEOREM CacheInvariant == Spec => []CacheInv
<1>1. Init => CacheInv
  BY InitInv
<1>2. CacheInv /\ [Next]_vars => CacheInv'
  BY NextKeeps
<1> QED
  BY <1>1, <1>2, PTL DEF Spec

\* In every run the database part of a session file is run at most once on an instance,
\* however many connections find, create and lose it (SessionInit::Run, db_created).
THEOREM DatabasePartOnce == Spec => []DbInitOnce
<1>1. CacheInv => DbInitOnce
  BY DEF CacheInv
<1> QED
  BY <1>1, CacheInvariant, PTL

\* Types, and the pointers between handles, instances and cache entries, in every run.
THEOREM CacheTypes == Spec => []CacheTypeOK
<1>1. CacheInv => CacheTypeOK
  BY DEF CacheInv, Types, Points, Created, Entries, CacheTypeOK
<1> QED
  BY <1>1, CacheInvariant, PTL
----------------------------------------------------------------------------
\* The states in which the path of an instance is registered: the file is closed before
\* its path is erased.
InTable == {"attached", "open", "closing", "closed"}

Registered(f) == {i \in Ids : inst[i].file = f /\ inst[i].st \in InTable}

PathSet == [reference_count : Nat, access_mode : {"READ_ONLY", "AUTOMATIC", None}]

\* The table and the instances agree: a path is counted once for every instance that has
\* registered it, all in the mode of the first one, and more than once only to be read.
Counted(f) ==
  /\ db_paths[f].reference_count = Cardinality(Registered(f))
  /\ \A i \in Registered(f) : AccessMode(inst[i].config) = db_paths[f].access_mode
  /\ db_paths[f].reference_count > 1 => db_paths[f].access_mode = "READ_ONLY"

PathInv ==
  /\ db_paths \in [Files -> PathSet]
  /\ \A i \in Ids : inst[i].st # "none" => inst[i].file \in Files
  /\ \A f \in Files : Counted(f)

LEMMA RegisteredFinite == \A f : IsFiniteSet(Registered(f))
  BY InstanceCacheAssumption, FS_Subset DEF Registered

\* Two instances with a file open are counted twice.
LEMMA CountedIsSame ==
  ASSUME PathInv PROVE SameDatabase
<1>1. SUFFICES ASSUME NEW f \in Files, NEW i \in Attached(f), NEW j \in Attached(f), i # j
               PROVE  {inst[i].config, inst[j].config} \subseteq ReadOnly
  BY DEF SameDatabase
<1>2. i \in Registered(f) /\ j \in Registered(f)
  BY DEF Attached, Registered, InTable
<1>3. Counted(f) /\ IsFiniteSet(Registered(f)) /\ db_paths[f].reference_count \in Nat
  BY RegisteredFinite DEF PathInv, PathSet
<1>4. Cardinality(Registered(f)) > 1
  <2>1. Cardinality(Registered(f)) \in Nat
    BY <1>3, FS_CardinalityType
  <2>2. Cardinality(Registered(f)) # 0
    BY <1>2, <1>3, FS_EmptySet
  <2>3. Cardinality(Registered(f)) # 1
    BY <1>1, <1>2, <1>3, FS_Singleton
  <2> QED
    BY <2>1, <2>2, <2>3
<1>5. AccessMode(inst[i].config) = "READ_ONLY" /\ AccessMode(inst[j].config) = "READ_ONLY"
  BY <1>2, <1>3, <1>4 DEF Counted
<1> QED
  BY <1>5 DEF AccessMode

\* The table is left alone and no path is registered or forgotten in this step.
TableStays ==
  /\ db_paths' = db_paths
  /\ \A i \in Ids : /\ (inst'[i].st \in InTable <=> inst[i].st \in InTable)
                    /\ inst[i].st \in InTable => /\ inst'[i].file = inst[i].file
                                                 /\ inst'[i].config = inst[i].config
                    /\ inst'[i].st # "none" => inst'[i].file \in Files

LEMMA TableStaysKeeps ==
  ASSUME PathInv, TableStays
  PROVE  PathInv'
<1>1. ASSUME NEW f \in Files PROVE Registered(f)' = Registered(f)
  BY DEF TableStays, Registered
<1>2. ASSUME NEW f \in Files PROVE Counted(f)'
  <2>1. Counted(f) /\ Registered(f)' = Registered(f) /\ db_paths' = db_paths
    BY <1>1, <1>2 DEF PathInv, TableStays
  <2>2. ASSUME NEW i \in Registered(f) PROVE inst'[i].config = inst[i].config
    BY <2>2 DEF Registered, TableStays
  <2> QED
    BY <2>1, <2>2 DEF Counted
<1> QED
  BY <1>2 DEF PathInv, TableStays

\* The beginning of a shutdown leaves the path registered.
LEMMA LetGoLeavesTable ==
  ASSUME Types, PathInv, NEW t, NEW ACTION en, NEW ACTION d, LetGo(t, en, d), db_paths' = db_paths
  PROVE  TableStays
<1>1. ASSUME NEW i \in Ids
      PROVE  /\ inst'[i].st = inst[i].st \/ (inst[i].st = "open" /\ inst'[i].st = "closing")
             /\ inst'[i].file = inst[i].file
             /\ inst'[i].config = inst[i].config
  <2>1. inst[i] \in InstSet
    BY DEF Types
  <2>2. \/ inst[i].st = "open" /\ inst'[i] = [inst[i] EXCEPT !.st = "closing", !.closer = t]
        \/ inst'[i] = inst[i]
    BY DEF LetGo
  <2> QED
    BY <2>1, <2>2 DEF InstSet
<1> QED
  BY <1>1 DEF TableStays, PathInv, InTable

\* A step that changes one instance.
LEMMA OneInstTable ==
  ASSUME Types, PathInv, NEW i \in Ids, NEW v \in InstSet, inst' = [inst EXCEPT ![i] = v],
         db_paths' = db_paths,
         (v.st \in InTable <=> inst[i].st \in InTable),
         inst[i].st \in InTable => v.file = inst[i].file /\ v.config = inst[i].config,
         v.st # "none" => v.file \in Files
  PROVE  TableStays
<1>1. inst'[i] = v /\ \A j \in Ids : j # i => inst'[j] = inst[j]
  BY DEF Types
<1>2. ASSUME NEW j \in Ids
      PROVE  /\ (inst'[j].st \in InTable <=> inst[j].st \in InTable)
             /\ inst[j].st \in InTable => inst'[j].file = inst[j].file /\ inst'[j].config = inst[j].config
             /\ inst'[j].st # "none" => inst'[j].file \in Files
  <2>1. CASE j = i
    BY <1>1, <2>1
  <2>2. CASE j # i
    BY <1>1, <2>2 DEF PathInv
  <2> QED
    BY <2>1, <2>2
<1> QED
  BY <1>2 DEF TableStays

\* The path is registered when the file is attached: nobody has it, or everybody reads.
LEMMA OpenFileCounts ==
  ASSUME CacheInv, PathInv, NEW c \in Dbcs, OpenFile(c)
  PROVE  PathInv'
<1>1. PICK i \in Ids :
        i = dbc[c].entry /\ Types /\ inst[i].st = "opening" /\ inst[i] \in InstSet
  BY OpensOne DEF OpenFile, CacheInv, Types
<1>2. PICK f \in Files : f = inst[i].file /\ db_paths[f] \in PathSet /\ Counted(f)
  BY <1>1 DEF PathInv
<1> DEFINE mode == AccessMode(inst[i].config)
           p == db_paths[f]
<1>3. /\ p.reference_count = 0 \/ (mode = "READ_ONLY" /\ p.access_mode = "READ_ONLY")
      /\ db_paths' = [db_paths EXCEPT ![f] = InsertDatabasePath(p, mode)]
      /\ inst' = [inst EXCEPT ![i] = [inst[i] EXCEPT !.st = "attached"]]
  BY <1>1, <1>2 DEF OpenFile, CanInsertDatabasePath
<1>4. mode \in {"READ_ONLY", "AUTOMATIC"}
  BY DEF AccessMode
<1> DEFINE q == InsertDatabasePath(p, mode)
<1>5. /\ q \in PathSet /\ q.reference_count = p.reference_count + 1 /\ q.access_mode = mode
      /\ p.reference_count \in Nat
      /\ p.access_mode = mode \/ p.reference_count = 0
      /\ q.reference_count > 1 => mode = "READ_ONLY"
  <2>1. CASE p.reference_count = 0
    BY <1>2, <1>4, <2>1 DEF InsertDatabasePath, PathSet
  <2>2. CASE p.reference_count # 0
    <3>1. q = [p EXCEPT !.reference_count = p.reference_count + 1]
      BY <2>2 DEF InsertDatabasePath
    <3> QED
      BY <1>2, <1>3, <2>2, <3>1 DEF PathSet
  <2> QED
    BY <2>1, <2>2
<1>6. db_paths' \in [Files -> PathSet] /\ db_paths'[f] = q /\ \A g \in Files : g # f => db_paths'[g] = db_paths[g]
  BY <1>2, <1>3, <1>5 DEF PathInv
<1>7. /\ inst'[i].st = "attached" /\ inst'[i].file = f /\ inst'[i].config = inst[i].config
      /\ \A j \in Ids : j # i => inst'[j] = inst[j]
  BY <1>1, <1>2, <1>3 DEF Types, InstSet
<1> HIDE DEF mode, p, q
<1>8. Registered(f)' = Registered(f) \cup {i} /\ i \notin Registered(f)
  BY <1>1, <1>2, <1>7 DEF Registered, InTable
<1>9. ASSUME NEW g \in Files, g # f PROVE Registered(g)' = Registered(g)
  BY <1>1, <1>2, <1>7, <1>9 DEF Registered, InTable
<1>10. Counted(f)'
  <2>1. Cardinality(Registered(f)') = Cardinality(Registered(f)) + 1
    BY <1>8, RegisteredFinite, FS_AddElement
  <2>2. q.reference_count = Cardinality(Registered(f)')
    BY <1>2, <1>5, <2>1 DEF Counted, p
  <2>3. ASSUME NEW j \in Registered(f) PROVE AccessMode(inst[j].config) = mode
    <3>1. p.reference_count # 0
      BY <1>2, <2>3, RegisteredFinite, FS_EmptySet DEF Counted, p
    <3> QED
      BY <1>2, <1>5, <2>3, <3>1 DEF Counted, p
  <2>4. ASSUME NEW j \in Registered(f)' PROVE AccessMode(inst'[j].config) = mode
    <3>1. CASE j = i
      BY <1>7, <3>1 DEF mode
    <3>2. CASE j # i
      <4>1. j \in Registered(f) /\ inst'[j] = inst[j]
        BY <1>7, <1>8, <2>4, <3>2 DEF Registered
      <4> QED
        BY <2>3, <4>1
    <3> QED
      BY <3>1, <3>2
  <2>5. \A j : AccessMode(inst'[j].config) = AccessMode(inst[j].config)' 
    BY DEF AccessMode
  <2> QED
    BY <1>5, <1>6, <2>2, <2>4, <2>5 DEF Counted
<1>11. ASSUME NEW g \in Files, g # f PROVE Counted(g)'
  <2>1. Counted(g) /\ db_paths'[g] = db_paths[g] /\ Registered(g)' = Registered(g)
    BY <1>6, <1>9, <1>11 DEF PathInv
  <2>2. ASSUME NEW j \in Registered(g) PROVE inst'[j] = inst[j]
    BY <1>2, <1>7, <1>11, <2>2 DEF Registered
  <2> QED
    BY <2>1, <2>2 DEF Counted
<1> QED
  BY <1>1, <1>2, <1>6, <1>7, <1>10, <1>11 DEF PathInv

\* The path is forgotten with the last instance that has registered it.
LEMMA EraseCounts ==
  ASSUME CacheInv, PathInv, NEW t, EraseDatabasePath(t)
  PROVE  PathInv'
<1>1. PICK i \in Ids :
        /\ inst[i].st = "closed"
        /\ inst' = [inst EXCEPT ![i] = [inst[i] EXCEPT !.st = "detached"]]
        /\ db_paths' = [db_paths EXCEPT ![inst[i].file] = ErasedDatabasePath(db_paths[inst[i].file])]
  BY DEF EraseDatabasePath
<1>2. PICK f \in Files :
        f = inst[i].file /\ db_paths[f] \in PathSet /\ Counted(f) /\ Types /\ inst[i] \in InstSet
  BY <1>1 DEF PathInv, CacheInv, Types
<1> DEFINE p == db_paths[f]
           q == ErasedDatabasePath(p)
<1>3. i \in Registered(f) /\ IsFiniteSet(Registered(f))
  BY <1>1, <1>2, RegisteredFinite DEF Registered, InTable
<1>4. p.reference_count = Cardinality(Registered(f)) /\ p.reference_count \in Nat \ {0}
  <2>1. Cardinality(Registered(f)) # 0 /\ Cardinality(Registered(f)) \in Nat
    BY <1>3, FS_EmptySet, FS_CardinalityType
  <2> QED
    BY <1>2, <2>1 DEF Counted
<1>5. /\ q \in PathSet /\ q.reference_count = p.reference_count - 1
      /\ p.reference_count > 1 => q.access_mode = p.access_mode
  <2>1. CASE p.reference_count <= 1
    BY <1>4, <2>1 DEF ErasedDatabasePath, NoPath, PathSet
  <2>2. CASE ~(p.reference_count <= 1)
    <3>1. q = [p EXCEPT !.reference_count = p.reference_count - 1]
      BY <2>2 DEF ErasedDatabasePath
    <3> QED
      BY <1>2, <1>4, <2>2, <3>1 DEF PathSet
  <2> QED
    BY <2>1, <2>2
<1>6. db_paths' \in [Files -> PathSet] /\ db_paths'[f] = q /\ \A g \in Files : g # f => db_paths'[g] = db_paths[g]
  BY <1>1, <1>2, <1>5 DEF PathInv
<1>7. /\ inst'[i].st = "detached" /\ inst'[i].file = f
      /\ \A j \in Ids : j # i => inst'[j] = inst[j]
  BY <1>1, <1>2 DEF Types, InstSet
<1> HIDE DEF p, q
<1>8. Registered(f)' = Registered(f) \ {i}
  BY <1>1, <1>2, <1>7 DEF Registered, InTable
<1>9. ASSUME NEW g \in Files, g # f PROVE Registered(g)' = Registered(g)
  BY <1>1, <1>2, <1>7, <1>9 DEF Registered, InTable
<1>10. Counted(f)'
  <2>1. Cardinality(Registered(f)') = Cardinality(Registered(f)) - 1
    BY <1>3, <1>8, FS_RemoveElement
  <2>2. q.reference_count = Cardinality(Registered(f)')
    BY <1>4, <1>5, <2>1
  <2>3. ASSUME NEW j \in Registered(f)'
        PROVE  AccessMode(inst'[j].config) = AccessMode(inst[j].config) /\ q.access_mode = AccessMode(inst[j].config)
    <3>1. j \in Registered(f) /\ j # i /\ inst'[j] = inst[j]
      BY <1>7, <1>8, <2>3 DEF Registered
    <3>2. p.reference_count > 1
      <4>1. Cardinality(Registered(f)') # 0
        BY <1>3, <1>8, <2>3, FS_RemoveElement, FS_EmptySet
      <4> QED
        BY <1>4, <2>1, <4>1
    <3> QED
      BY <1>2, <1>5, <3>1, <3>2 DEF Counted, p
  <2>4. q.reference_count > 1 => q.access_mode = "READ_ONLY"
    BY <1>2, <1>4, <1>5 DEF Counted, p
  <2>5. \A j : AccessMode(inst'[j].config) = AccessMode(inst[j].config)'
    BY DEF AccessMode
  <2> QED
    BY <1>6, <2>2, <2>3, <2>4, <2>5 DEF Counted
<1>11. ASSUME NEW g \in Files, g # f PROVE Counted(g)'
  <2>1. Counted(g) /\ db_paths'[g] = db_paths[g] /\ Registered(g)' = Registered(g)
    BY <1>6, <1>9, <1>11 DEF PathInv
  <2>2. ASSUME NEW j \in Registered(g) PROVE inst'[j] = inst[j]
    BY <1>2, <1>7, <1>11, <2>2 DEF Registered
  <2> QED
    BY <2>1, <2>2 DEF Counted
<1> QED
  BY <1>2, <1>6, <1>7, <1>10, <1>11 DEF PathInv

\* Every step but these two leaves the table and the registered instances as they are.
LEMMA NextPaths ==
  ASSUME CacheInv, PathInv, [Next]_vars
  PROVE  PathInv'
<1>0. Types /\ \A i \in Ids : inst[i] \in InstSet
  BY DEF CacheInv, Types
<1>1. ASSUME NEW c \in Dbcs, CreateInstance(c) PROVE TableStays
  <2>1. PICK i \in Free : inst' = [inst EXCEPT ![i] = Opening(c, c)]
    BY <1>1 DEF CreateInstance
  <2> DEFINE v == Opening(c, c)
  <2>2. dbc[c] \in DbcSet /\ dbc[c].file \in Files /\ db_paths' = db_paths
    BY <1>0, <1>1 DEF CreateInstance, NotCached, Types
  <2>3. v \in InstSet /\ v.st = "opening" /\ v.file = dbc[c].file
    BY <2>2 DEF Opening, NoInstance, InstSet, States, DbcSet
  <2>4. i \in Ids /\ inst[i].st = "none"
    BY DEF Free
  <2>5. v.st \notin InTable /\ inst[i].st \notin InTable
    BY <2>3, <2>4 DEF InTable
  <2> HIDE DEF v
  <2>6. inst' = [inst EXCEPT ![i] = v]
    BY <2>1 DEF v
  <2> QED
    BY <1>0, <2>2, <2>3, <2>4, <2>5, <2>6, OneInstTable
<1>2. ASSUME NEW c \in Dbcs, OpenFails(c) PROVE TableStays
  <2> DEFINE i == dbc[c].entry
             v == [inst[i] EXCEPT !.closer = c, !.st = IF @ = "opening" THEN "detached" ELSE "closing"]
  <2>1. i \in Ids /\ inst[i] \in InstSet /\ inst[i].st \in {"opening", "attached"} /\ db_paths' = db_paths
    BY <1>0, <1>2, OpensOne DEF OpenFails
  <2>2. inst' = [inst EXCEPT ![i] = v]
    BY <1>0, <1>2, <2>1 DEF OpenFails, Types
  <2>3. /\ v \in InstSet /\ v.st = (IF inst[i].st = "opening" THEN "detached" ELSE "closing")
        /\ v.file = inst[i].file /\ v.config = inst[i].config
    BY <2>1 DEF InstSet, States
  <2>4. v.st \in InTable <=> inst[i].st \in InTable
    BY <2>1, <2>3 DEF InTable
  <2>5. inst[i].file \in Files
    BY <2>1 DEF PathInv
  <2> HIDE DEF i, v
  <2> QED
    BY <1>0, <2>1, <2>2, <2>3, <2>4, <2>5, OneInstTable
<1>3. ASSUME NEW c \in Dbcs, Opened(c) PROVE TableStays
  <2> DEFINE i == dbc[c].entry
             v == [inst[i] EXCEPT !.st = "open", !.mutex = None]
  <2>1. i \in Ids /\ inst[i] \in InstSet /\ inst[i].st = "attached" /\ db_paths' = db_paths
    BY <1>0, <1>3, OpensOne DEF Opened
  <2>2. inst' = [inst EXCEPT ![i] = v]
    BY <1>0, <1>3, <2>1 DEF Opened, Types
  <2>3. v \in InstSet /\ v.st = "open" /\ v.file = inst[i].file /\ v.config = inst[i].config
    BY <2>1 DEF InstSet, States
  <2>4. v.st \in InTable /\ inst[i].st \in InTable
    BY <2>1, <2>3 DEF InTable
  <2>5. inst[i].file \in Files
    BY <2>1 DEF PathInv
  <2> HIDE DEF i, v
  <2> QED
    BY <1>0, <2>1, <2>2, <2>3, <2>4, <2>5, OneInstTable
<1>4. ASSUME NEW c \in Dbcs, FindNoDatabase(c) PROVE TableStays
  <2> DEFINE i == dbc[c].entry
  <2>1. i \in Ids /\ db_paths' = db_paths
    BY <1>4 DEF FindNoDatabase, GotMutex, CacheInv, Holds
  <2>2. (inst[i].st = "gone" /\ inst' = [inst EXCEPT ![i] = NoInstance]) \/ inst' = inst
    BY <1>4 DEF FindNoDatabase
  <2> HIDE DEF i
  <2>3. CASE inst' = inst
    BY <2>1, <2>3 DEF TableStays, PathInv
  <2>4. CASE inst[i].st = "gone" /\ inst' = [inst EXCEPT ![i] = NoInstance]
    <3>1. NoInstance \in InstSet /\ NoInstance.st = "none" /\ NoInstance.st \notin InTable /\ inst[i].st \notin InTable
      BY <2>4 DEF NoInstance, InstSet, States, InTable
    <3> QED
      BY <1>0, <2>1, <2>4, <3>1, OneInstTable
  <2> QED
    BY <2>2, <2>3, <2>4
<1>5. ASSUME NEW c \in Dbcs, InitDatabase(c) PROVE TableStays
  <2>1. /\ db_paths' = db_paths
        /\ \A i \in Ids : inst'[i] = [inst[i] EXCEPT !.inits = IF i = dbc[c].conn /\ @ < 2 THEN @ + 1 ELSE @]
    BY <1>5 DEF InitDatabase
  <2>2. \A i \in Ids : inst'[i].st = inst[i].st /\ inst'[i].file = inst[i].file /\ inst'[i].config = inst[i].config
    BY <1>0, <2>1 DEF InstSet
  <2> QED
    BY <2>1, <2>2 DEF TableStays, PathInv
<1>6. ASSUME NEW c \in Dbcs, CheckConfig(c) \/ InitFails(c) PROVE TableStays
  BY <1>0, <1>6, LetGoLeavesTable DEF CheckConfig, InitFails
<1>7. ASSUME NEW c \in Dbcs, Assign(c) PROVE TableStays
  BY <1>0, <1>7, LetGoLeavesTable DEF Assign
<1>8. ASSUME NEW c \in Dbcs, SQLDisconnect(c) \/ FreeDbc(c) PROVE TableStays
  BY <1>0, <1>8, LetGoLeavesTable DEF SQLDisconnect, FreeDbc
<1>9. ASSUME NEW e \in Envs, FreeEnv(e) PROVE TableStays
  BY <1>0, <1>9, LetGoLeavesTable DEF FreeEnv
<1>10. ASSUME NEW t \in Envs \cup Dbcs, ResetDatabases(t) PROVE TableStays
  <2>1. PICK i \in Ids : inst[i].st = "closing" /\ inst' = [inst EXCEPT ![i] = [inst[i] EXCEPT !.st = "closed"]]
    BY <1>10 DEF ResetDatabases
  <2> DEFINE v == [inst[i] EXCEPT !.st = "closed"]
  <2>2. /\ v \in InstSet /\ v.st \in InTable /\ inst[i].st \in InTable
        /\ v.file = inst[i].file /\ v.config = inst[i].config
    BY <1>0, <2>1 DEF InstSet, States, InTable
  <2>3. inst[i].file \in Files /\ db_paths' = db_paths
    BY <1>10, <2>1 DEF PathInv, ResetDatabases
  <2>4. inst' = [inst EXCEPT ![i] = v]
    BY <2>1
  <2> HIDE DEF v
  <2> QED
    BY <1>0, <2>2, <2>3, <2>4, OneInstTable
<1>11. ASSUME NEW t \in Envs \cup Dbcs, ResetCacheEntry(t) PROVE TableStays
  <2>1. PICK i \in Ids :
          /\ inst[i].st = "detached"
          /\ \/ inst' = [inst EXCEPT ![i] = NoInstance]
             \/ inst' = [inst EXCEPT ![i] = [inst[i] EXCEPT !.st = "gone", !.closer = None, !.mutex = None]]
    BY <1>0, <1>11 DEF ResetCacheEntry, Types
  <2> DEFINE w == [inst[i] EXCEPT !.st = "gone", !.closer = None, !.mutex = None]
  <2>2. /\ inst[i].st \notin InTable /\ inst[i].file \in Files
        /\ NoInstance \in InstSet /\ NoInstance.st = "none" /\ NoInstance.st \notin InTable
        /\ w \in InstSet /\ w.st \notin InTable /\ w.file = inst[i].file
    BY <1>0, <2>1 DEF NoInstance, InstSet, States, InTable, PathInv
  <2>3. db_paths' = db_paths
    BY <1>11 DEF ResetCacheEntry
  <2>4. inst' = [inst EXCEPT ![i] = NoInstance] \/ inst' = [inst EXCEPT ![i] = w]
    BY <2>1
  <2> HIDE DEF w
  <2> QED
    BY <1>0, <2>2, <2>3, <2>4, OneInstTable
<1>12. ASSUME inst' = inst, db_paths' = db_paths PROVE TableStays
  BY <1>12 DEF TableStays, PathInv
<1>13. ASSUME NEW c \in Dbcs,
              SQLDriverConnect(c) \/ CreateMemory(c) \/ FindEntry(c) \/ FindDatabase(c) \/ EraseKey(c) \/ InitConnection(c)
       PROVE  inst' = inst /\ db_paths' = db_paths
  BY <1>13 DEF SQLDriverConnect, CreateMemory, FindEntry, FindDatabase, EraseKey, InitConnection
<1>14. \/ TableStays
       \/ \E c \in Dbcs : OpenFile(c)
       \/ \E t \in Envs \cup Dbcs : EraseDatabasePath(t)
  BY <1>1, <1>2, <1>3, <1>4, <1>5, <1>6, <1>7, <1>8, <1>9, <1>10, <1>11, <1>12, <1>13
     DEF Next, vars, ConnectStep, CloseStep
<1> QED
  BY <1>14, TableStaysKeeps, OpenFileCounts, EraseCounts

LEMMA InitPaths == Init => PathInv
<1>1. SUFFICES ASSUME Init PROVE PathInv
  OBVIOUS
<1>2. db_paths = [f \in Files |-> NoPath] /\ \A i \in Ids : inst[i].st = "none"
  BY <1>1 DEF Init, NoInstance
<1>3. ASSUME NEW f \in Files PROVE Counted(f)
  <2>1. Registered(f) = {}
    BY <1>2 DEF Registered, InTable
  <2>2. Cardinality(Registered(f)) = 0
    BY <2>1, FS_EmptySet
  <2> QED
    BY <1>2, <2>1, <2>2 DEF Counted, NoPath
<1> QED
  BY <1>2, <1>3 DEF PathInv, PathSet, NoPath

\* In every run a file is open in two instances at once only if both merely read it,
\* whatever the cache forgets while an instance is shut down: the count and the mode kept
\* in db_paths stay those of the instances (InsertDatabasePath, EraseDatabasePath).
THEOREM OneInstancePerDatabase == Spec => []SameDatabase
<1>1. Init => PathInv
  BY InitPaths
<1>2. CacheInv /\ PathInv /\ [Next]_vars => PathInv'
  BY NextPaths
<1>3. PathInv => SameDatabase
  BY CountedIsSame
<1> QED
  BY <1>1, <1>2, <1>3, CacheInvariant, PTL DEF Spec
----------------------------------------------------------------------------
(***************************************************************************)
(* The busy wait.                                                          *)
(***************************************************************************)
\* An environment that uses one database at a time: it has one connection, whose
\* statements are freed before it is closed; or its connections all open one database,
\* which is not opened to be read only (of such a database there may be two instances).
Loyal(e) ==
  \/ /\ \A c, d \in Dbcs : EnvOf[c] = e /\ EnvOf[d] = e => c = d
     /\ \A c \in Keepers : EnvOf[c] # e
  \/ ReadOnly = {} /\ \E f \in Files \cup {Memory} : FilesOf[e] \subseteq {f}

AllLoyal == \A e \in Envs : Loyal(e)

\* What the connections and statements of an environment use is what it owns.
Homed(c) ==
  /\ dbc[c].conn \in Ids => env[EnvOf[c]] = dbc[c].conn
  /\ dbc[c].stmts \subseteq {env[EnvOf[c]]}
  /\ c \notin Keepers => dbc[c].stmts = {}

\* What a thread opens is one of the paths of its environment; it has no object before
\* it has found or created one.
Searching(c) ==
  /\ dbc[c].pc # "idle" => dbc[c].file \in FilesOf[EnvOf[c]]
  /\ dbc[c].pc \in {"lock", "open", "wait", "spin"} => dbc[c].db = None
  /\ dbc[c].db = Memory => dbc[c].file = Memory

\* The mutex is held while the file is opened; the object of an open instance exists.
Kept(i) ==
  /\ inst[i].st # "none" => inst[i].file \in Files
  /\ inst[i].st \in {"opening", "attached"} => inst[i].mutex # None
  /\ inst[i].st = "open" => DatabaseAlive(i)

SpinInv ==
  /\ \A c \in Dbcs : Homed(c) /\ Searching(c)
  /\ \A i \in Ids : Kept(i)
  /\ \A e \in Envs : env[e] \in Ids => inst[env[e]].file \in FilesOf[e]
  /\ SpinIsShutdown

Shutting == {"closing", "closed", "detached", "gone"}

\* Types of one connection and one instance.
LEMMA TypesOfOne ==
  ASSUME CacheInv
  PROVE  /\ dbc \in [Dbcs -> DbcSet] /\ inst \in [Ids -> InstSet]
         /\ env \in [Envs -> Ids \cup {Memory}]
         /\ \A c \in Dbcs : /\ dbc[c] \in DbcSet /\ dbc[c].weak \in Ids \cup {None}
                            /\ dbc[c].stmts \subseteq Ids /\ EnvOf[c] \in Envs
BY InstanceCacheAssumption DEF CacheInv, Types, DbcSet

\* A wait goes on for an instance that stays shut down.
LEMMA SpinSame ==
  ASSUME CacheInv, SpinIsShutdown,
         \A c \in Dbcs : dbc'[c].weak \in {dbc[c].weak, None},
         \A i \in Ids : inst[i].st \in Shutting => inst'[i].st \in Shutting
  PROVE  SpinIsShutdown'
BY TypesOfOne DEF SpinIsShutdown, Shutting

\* A step by which nobody gives up an object.
LEMMA SpinStep ==
  ASSUME CacheInv, SpinInv, env' = env,
         \A c \in Dbcs : /\ dbc'[c].conn = dbc[c].conn /\ dbc'[c].stmts = dbc[c].stmts
                         /\ dbc[c].db \in Ids => dbc'[c].db = dbc[c].db
                         /\ Searching(c)',
         \A i \in Ids : /\ inst'[i].st = "open" =>
                             inst[i].st = "open" \/ \E c \in Dbcs : dbc'[c].db = i
                        /\ inst[i].st = "open" => inst'[i].file = inst[i].file
                        /\ inst'[i].st # "none" => inst'[i].file \in Files
                        /\ inst'[i].st \in {"opening", "attached"} => inst'[i].mutex # None,
         SpinIsShutdown'
  PROVE  SpinInv'
<1>1. \A c \in Dbcs : Homed(c)'
  BY DEF SpinInv, Homed
<1>2. ASSUME NEW i \in Ids, inst'[i].st = "open" PROVE DatabaseAlive(i)'
  <2>1. CASE \E c \in Dbcs : dbc'[c].db = i
    BY <2>1 DEF DatabaseAlive
  <2>2. CASE inst[i].st = "open"
    BY <1>2, <2>2 DEF SpinInv, Kept, DatabaseAlive
  <2> QED BY <1>2, <2>1, <2>2
<1>3. \A i \in Ids : Kept(i)'
  BY <1>2 DEF Kept
<1>4. ASSUME NEW e \in Envs, env'[e] \in Ids PROVE inst'[env'[e]].file \in FilesOf[e]
  <2>1. inst[env[e]].st = "open"
    BY <1>4 DEF CacheInv, Entries
  <2> QED BY <1>4, <2>1 DEF SpinInv
<1> QED BY <1>1, <1>3, <1>4 DEF SpinInv

\* A step that lets pointers go: what is still open is owned by an environment, or by
\* a thread that is connecting.
LEMMA SpinLetGo ==
  ASSUME CacheInv, SpinInv, NEW t \in Envs \cup Dbcs, LetGo(t, env', dbc'),
         \A c \in Dbcs : /\ Homed(c)' /\ Searching(c)' /\ EnvOf[c] \in Envs
                         /\ dbc'[c].weak \in {dbc[c].weak, None}
                         /\ dbc'[c].stmts \subseteq Ids,
         \A e \in Envs : env'[e] \in Ids => inst[env'[e]].file \in FilesOf[e]
  PROVE  SpinInv'
<1>1. Types
  BY DEF CacheInv
<1>2. \A i \in Ids : /\ inst'[i].file = inst[i].file
                     /\ inst'[i].mutex = inst[i].mutex
                     /\ inst'[i].st = inst[i].st \/ (inst[i].st = "open" /\ inst'[i].st = "closing")
  BY <1>1, LetGoKeeps
<1>3. ASSUME NEW i \in Ids, inst'[i].st = "open" PROVE DatabaseAlive(i)'
  <2>1. Owned(i, env', dbc')
    <3>1. inst'[i] = IF inst[i].st = "open" /\ ~Owned(i, env', dbc')
                     THEN [inst[i] EXCEPT !.st = "closing", !.closer = t] ELSE inst[i]
      BY DEF LetGo
    <3>2. inst[i] \in InstSet
      BY <1>1 DEF Types
    <3>3. CASE inst[i].st = "open" /\ ~Owned(i, env', dbc')
      BY <1>3, <3>1, <3>2, <3>3 DEF InstSet
    <3>4. CASE ~(inst[i].st = "open" /\ ~Owned(i, env', dbc'))
      BY <1>2, <1>3, <3>4
    <3> QED BY <3>3, <3>4
  <2>2. CASE \E e \in Envs : env'[e] = i
    BY <2>2 DEF DatabaseAlive
  <2>3. CASE \E c \in Dbcs : dbc'[c].db = i
    BY <2>3 DEF DatabaseAlive
  <2>4. ASSUME NEW c \in Dbcs, dbc'[c].conn = i \/ i \in dbc'[c].stmts PROVE DatabaseAlive(i)'
    <3>1. env'[EnvOf[c]] = i
      BY <2>4 DEF Homed
    <3> QED BY <3>1 DEF DatabaseAlive
  <2> QED BY <2>1, <2>2, <2>3, <2>4 DEF Owned
<1>4. \A i \in Ids : Kept(i)'
  BY <1>2, <1>3 DEF SpinInv, Kept
<1>5. SpinIsShutdown'
  BY <1>2, SpinSame DEF SpinInv, Shutting
<1>6. \A e \in Envs : env'[e] \in Ids => inst'[env'[e]].file \in FilesOf[e]
  BY <1>2
<1> QED BY <1>4, <1>5, <1>6 DEF SpinInv

\* The same for a step that changes the record of one connection.
LEMMA SpinReleases ==
  ASSUME CacheInv, SpinInv, NEW c \in Dbcs, NEW r \in DbcSet, dbc' = [dbc EXCEPT ![c] = r],
         LetGo(c, env', dbc'), env' = env,
         r.weak \in {dbc[c].weak, None},
         r.conn \in Ids => r.conn = dbc[c].conn,
         r.stmts \subseteq {env[EnvOf[c]]}, c \notin Keepers => r.stmts = {},
         Searching(c)'
  PROVE  SpinInv'
<1>1. /\ dbc'[c] = r /\ \A d \in Dbcs : d # c => dbc'[d] = dbc[d]
      /\ dbc' \in [Dbcs -> DbcSet]
  BY TypesOfOne
<1>2. \A d \in Dbcs : EnvOf[d] \in Envs /\ dbc'[d].stmts \subseteq Ids
  BY <1>1, TypesOfOne DEF DbcSet
<1>3. Homed(c)'
  BY <1>1 DEF SpinInv, Homed
<1>4. \A d \in Dbcs : d # c => Homed(d)' /\ Searching(d)'
  BY <1>1 DEF SpinInv, Homed, Searching
<1>5. \A d \in Dbcs : dbc'[d].weak \in {dbc[d].weak, None}
  BY <1>1
<1>6. \A e \in Envs : env'[e] \in Ids => inst[env'[e]].file \in FilesOf[e]
  BY DEF SpinInv
<1> QED BY <1>2, <1>3, <1>4, <1>5, <1>6, SpinLetGo
----------------------------------------------------------------------------
\* Nobody waits before the first connect.
LEMMA SpinInit == Init => SpinInv
<1> SUFFICES ASSUME Init PROVE SpinInv
  OBVIOUS
<1>1. \A c \in Dbcs : dbc[c] = NoCall /\ EnvOf[c] \in Envs
  BY InstanceCacheAssumption DEF Init
<1>2. \A c \in Dbcs : Homed(c) /\ Searching(c)
  BY <1>1, InstanceCacheAssumption DEF NoCall, Homed, Searching
<1>3. \A i \in Ids : Kept(i)
  BY DEF Init, NoInstance, Kept
<1>4. \A e \in Envs : env[e] \notin Ids
  BY InstanceCacheAssumption DEF Init
<1>5. SpinIsShutdown
  BY <1>1 DEF NoCall, SpinIsShutdown
<1> QED BY <1>2, <1>3, <1>4, <1>5 DEF SpinInv

\* A step of c that changes no instance, nor what c owns.
LEMMA SpinOnlyDbc ==
  ASSUME CacheInv, SpinInv, NEW c \in Dbcs, NEW r \in DbcSet, dbc' = [dbc EXCEPT ![c] = r],
         UNCHANGED <<env, inst>>,
         r.conn = dbc[c].conn, r.stmts = dbc[c].stmts,
         dbc[c].db \in Ids => r.db = dbc[c].db,
         Searching(c)',
         \/ r.weak = dbc[c].weak
         \/ r.weak \in Ids /\ inst[r.weak].st \in Shutting
  PROVE  SpinInv'
<1>1. dbc'[c] = r /\ \A d \in Dbcs : d # c => dbc'[d] = dbc[d]
  BY TypesOfOne
<1>2. \A d \in Dbcs : d # c => Searching(d)'
  BY <1>1 DEF SpinInv, Searching
<1>3. SpinIsShutdown'
  BY <1>1 DEF SpinInv, SpinIsShutdown, Shutting
<1>4. \A i \in Ids : /\ inst[i].st # "none" => inst[i].file \in Files
                     /\ inst[i].st \in {"opening", "attached"} => inst[i].mutex # None
  BY DEF SpinInv, Kept
<1> QED BY <1>1, <1>2, <1>3, <1>4, SpinStep

\* SQLDriverConnect opens a path of its environment.
LEMMA SQLDriverConnectSpin ==
  ASSUME CacheInv, SpinInv, NEW c \in Dbcs, SQLDriverConnect(c)
  PROVE  SpinInv'
<1>1. PICK f \in FilesOf[EnvOf[c]], g \in Configs :
         dbc' = [dbc EXCEPT ![c] = [dbc[c] EXCEPT !.pc = "lock", !.file = f, !.config = g]]
  BY DEF SQLDriverConnect, Set
<1> DEFINE r == [dbc[c] EXCEPT !.pc = "lock", !.file = f, !.config = g]
<1>2. dbc[c] \in DbcSet /\ dbc[c].pc = "idle" /\ UNCHANGED <<env, inst>> /\ f \in Files \cup {Memory}
  BY TypesOfOne, InstanceCacheAssumption DEF SQLDriverConnect, Quiet
<1>3. /\ r \in DbcSet /\ r.pc = "lock" /\ r.file = f /\ r.db = dbc[c].db /\ r.conn = dbc[c].conn
      /\ r.stmts = dbc[c].stmts /\ r.weak = dbc[c].weak
  BY <1>2 DEF DbcSet, PCs
<1>4. dbc[c].db = None
  BY <1>2 DEF CacheInv, Holds
<1>5. dbc' = [dbc EXCEPT ![c] = r] /\ dbc'[c] = r
  BY <1>1, TypesOfOne
<1> HIDE DEF r
<1>6. Searching(c)'
  BY <1>3, <1>4, <1>5 DEF Searching
<1> QED BY <1>2, <1>3, <1>5, <1>6, SpinOnlyDbc

\* The other steps of a connect that change no instance, nor what the connection owns.
LEMMA SearchSpin ==
  ASSUME CacheInv, SpinInv, NEW c \in Dbcs,
         CreateMemory(c) \/ FindEntry(c) \/ FindDatabase(c) \/ EraseKey(c) \/ InitConnection(c)
  PROVE  SpinInv'
<1>1. /\ dbc[c] \in DbcSet /\ Holds(c) /\ Points(c) /\ Searching(c)
      /\ db_instances \in [Files -> Ids \cup {None}]
  BY TypesOfOne DEF CacheInv, SpinInv, Types
<1>2. CASE CreateMemory(c)
  <2> DEFINE r == [dbc[c] EXCEPT !.pc = "assign", !.db = Memory, !.db_created = TRUE]
  <2>1. dbc' = [dbc EXCEPT ![c] = r] /\ UNCHANGED <<env, inst>> /\ dbc[c].pc = "lock" /\ dbc[c].file = Memory
    BY <1>2 DEF CreateMemory, Set
  <2>2. /\ r \in DbcSet /\ r.pc = "assign" /\ r.file = dbc[c].file /\ r.db = Memory
        /\ r.conn = dbc[c].conn /\ r.stmts = dbc[c].stmts /\ r.weak = dbc[c].weak
    BY <1>1 DEF DbcSet, PCs
  <2>3. dbc'[c] = r
    BY <2>1, TypesOfOne
  <2> HIDE DEF r
  <2>4. Searching(c)' /\ dbc[c].db \notin Ids
    BY <1>1, <2>1, <2>2, <2>3, InstanceCacheAssumption DEF Searching
  <2> QED BY <2>1, <2>2, <2>4, SpinOnlyDbc
<1>3. CASE FindEntry(c)
  <2> DEFINE r == [dbc[c] EXCEPT !.pc = "wait", !.entry = db_instances[dbc[c].file]]
  <2>1. dbc' = [dbc EXCEPT ![c] = r] /\ UNCHANGED <<env, inst>> /\ dbc[c].pc = "lock" /\ dbc[c].file \in Files
    BY <1>3 DEF FindEntry, Set
  <2>2. /\ r \in DbcSet /\ r.pc = "wait" /\ r.file = dbc[c].file /\ r.db = dbc[c].db
        /\ r.conn = dbc[c].conn /\ r.stmts = dbc[c].stmts /\ r.weak = dbc[c].weak
    BY <1>1, <2>1 DEF DbcSet, PCs
  <2>3. dbc'[c] = r
    BY <2>1, TypesOfOne
  <2> HIDE DEF r
  <2>4. Searching(c)'
    BY <1>1, <2>1, <2>2, <2>3 DEF Searching
  <2> QED BY <2>1, <2>2, <2>4, SpinOnlyDbc
<1>4. CASE FindDatabase(c)
  <2> DEFINE r == [dbc[c] EXCEPT !.pc = "check", !.db = dbc[c].entry]
  <2>1. dbc' = [dbc EXCEPT ![c] = r] /\ UNCHANGED <<env, inst>> /\ dbc[c].pc = "wait"
    BY <1>4 DEF FindDatabase, GotMutex, Set
  <2>2. dbc[c].entry \in Ids
    BY <1>1, <2>1 DEF Holds
  <2>3. /\ r \in DbcSet /\ r.pc = "check" /\ r.file = dbc[c].file /\ r.db = dbc[c].entry
        /\ r.conn = dbc[c].conn /\ r.stmts = dbc[c].stmts /\ r.weak = dbc[c].weak
    BY <1>1, <2>2 DEF DbcSet, PCs
  <2>4. dbc'[c] = r
    BY <2>1, TypesOfOne
  <2> HIDE DEF r
  <2>5. Searching(c)' /\ dbc[c].db \notin Ids
    BY <1>1, <2>1, <2>2, <2>3, <2>4, InstanceCacheAssumption DEF Searching
  <2> QED BY <2>1, <2>3, <2>5, SpinOnlyDbc
<1>5. CASE EraseKey(c)
  <2> DEFINE r == [dbc[c] EXCEPT !.pc = "lock"]
  <2>1. dbc' = [dbc EXCEPT ![c] = r] /\ UNCHANGED <<env, inst>> /\ dbc[c].pc = "spin"
    BY <1>5 DEF EraseKey, Set
  <2>2. /\ r \in DbcSet /\ r.pc = "lock" /\ r.file = dbc[c].file /\ r.db = dbc[c].db
        /\ r.conn = dbc[c].conn /\ r.stmts = dbc[c].stmts /\ r.weak = dbc[c].weak
    BY <1>1 DEF DbcSet, PCs
  <2>3. dbc'[c] = r
    BY <2>1, TypesOfOne
  <2> HIDE DEF r
  <2>4. Searching(c)'
    BY <1>1, <2>1, <2>2, <2>3 DEF Searching
  <2> QED BY <2>1, <2>2, <2>4, SpinOnlyDbc
<1>6. CASE InitConnection(c)
  <2> DEFINE r == Done(dbc[c])
  <2>1. dbc' = [dbc EXCEPT ![c] = r] /\ UNCHANGED <<env, inst>> /\ dbc[c].pc = "conninit"
    BY <1>6 DEF InitConnection, Set
  <2>2. /\ r \in DbcSet /\ r.pc = "idle" /\ r.file = dbc[c].file /\ r.db = dbc[c].db
        /\ r.conn = dbc[c].conn /\ r.stmts = dbc[c].stmts /\ r.weak = dbc[c].weak
    BY <1>1 DEF DbcSet, PCs, Done
  <2>3. dbc'[c] = r
    BY <2>1, TypesOfOne
  <2> HIDE DEF r
  <2>4. Searching(c)'
    BY <1>1, <2>2, <2>3 DEF Searching
  <2> QED BY <2>1, <2>2, <2>4, SpinOnlyDbc
<1> QED BY <1>2, <1>3, <1>4, <1>5, <1>6

\* A step of c that changes what is said of instance i, which is not open to anybody else.
LEMMA SpinOneInst ==
  ASSUME CacheInv, SpinInv, NEW c \in Dbcs, NEW r \in DbcSet, dbc' = [dbc EXCEPT ![c] = r],
         NEW i \in Ids, NEW v \in InstSet, inst' = [inst EXCEPT ![i] = v], env' = env,
         r.conn = dbc[c].conn, r.stmts = dbc[c].stmts, r.weak = dbc[c].weak,
         dbc[c].db \in Ids => r.db = dbc[c].db,
         Searching(c)',
         inst[i].st # "open" /\ (v.st = "open" => r.db = i),
         v.file \in Files, v.st \in {"opening", "attached"} => v.mutex # None,
         inst[i].st \notin Shutting
  PROVE  SpinInv'
<1>1. dbc'[c] = r /\ \A d \in Dbcs : d # c => dbc'[d] = dbc[d]
  BY TypesOfOne
<1>2. inst'[i] = v /\ \A j \in Ids : j # i => inst'[j] = inst[j]
  BY TypesOfOne
<1>3. \A d \in Dbcs : d # c => Searching(d)'
  BY <1>1 DEF SpinInv, Searching
<1>4. SpinIsShutdown'
  BY <1>1, <1>2, SpinSame DEF SpinInv
<1>5. \A j \in Ids : /\ inst[j].st # "none" => inst[j].file \in Files
                     /\ inst[j].st \in {"opening", "attached"} => inst[j].mutex # None
  BY DEF SpinInv, Kept
<1>6. ASSUME NEW j \in Ids
      PROVE  /\ inst'[j].st = "open" =>
                  inst[j].st = "open" \/ \E d \in Dbcs : dbc'[d].db = j
             /\ inst[j].st = "open" => inst'[j].file = inst[j].file
             /\ inst'[j].st # "none" => inst'[j].file \in Files
             /\ inst'[j].st \in {"opening", "attached"} => inst'[j].mutex # None
  <2>1. CASE j = i
    BY <1>1, <1>2, <2>1
  <2>2. CASE j # i
    BY <1>2, <1>5, <2>2
  <2> QED BY <2>1, <2>2
<1> QED BY <1>1, <1>3, <1>4, <1>6, SpinStep

\* The mutex of a new entry is held by its creator.
LEMMA CreateInstanceSpin ==
  ASSUME CacheInv, SpinInv, NEW c \in Dbcs, CreateInstance(c)
  PROVE  SpinInv'
<1>1. PICK i \in Free : /\ inst' = [inst EXCEPT ![i] = Opening(c, c)]
                        /\ dbc' = [dbc EXCEPT ![c] = [dbc[c] EXCEPT !.pc = "open", !.entry = i]]
  BY DEF CreateInstance, Set
<1> DEFINE r == [dbc[c] EXCEPT !.pc = "open", !.entry = i]
           v == Opening(c, c)
<1>2. /\ dbc[c] \in DbcSet /\ Searching(c) /\ dbc[c].pc = "lock" /\ dbc[c].file \in Files
      /\ i \in Ids /\ inst[i].st = "none" /\ env' = env
  BY TypesOfOne DEF SpinInv, CreateInstance, NotCached, Free
<1>3. /\ r \in DbcSet /\ r.pc = "open" /\ r.file = dbc[c].file /\ r.db = dbc[c].db
      /\ r.conn = dbc[c].conn /\ r.stmts = dbc[c].stmts /\ r.weak = dbc[c].weak
  BY <1>2 DEF DbcSet, PCs
<1>4. dbc[c].config \in Configs \cup {None}
  BY <1>2 DEF DbcSet
<1>5. v \in InstSet /\ v.st = "opening" /\ v.file = dbc[c].file /\ v.mutex = c
  BY <1>2, <1>4 DEF Opening, NoInstance, InstSet, States
<1>6. c # None
  BY InstanceCacheAssumption
<1>7. dbc'[c] = r
  BY <1>1, TypesOfOne
<1> HIDE DEF r, v
<1>8. Searching(c)'
  BY <1>2, <1>3, <1>7 DEF Searching
<1> QED BY <1>1, <1>2, <1>3, <1>5, <1>6, <1>8, SpinOneInst DEF r, v, Shutting

\* Opening a file: the mutex is released when the creator has the object.
LEMMA OpenSpin ==
  ASSUME CacheInv, SpinInv, NEW c \in Dbcs, OpenFile(c) \/ OpenFails(c) \/ Opened(c)
  PROVE  SpinInv'
<1> DEFINE i == dbc[c].entry
<1>1. dbc[c].pc = "open" /\ env' = env
  BY DEF OpenFile, OpenFails, Opened
<1>2. /\ i \in Ids /\ inst[i] \in InstSet /\ dbc[c] \in DbcSet /\ Searching(c)
      /\ inst[i].st \in {"opening", "attached"} /\ inst[i].mutex = c /\ inst[i].file \in Files
  BY <1>1, OpensOne, TypesOfOne DEF CacheInv, Created, SpinInv, Kept
<1>3. dbc[c].db = None /\ dbc[c].db \notin Ids /\ c # None
  BY <1>1, <1>2, InstanceCacheAssumption DEF Searching
<1>4. inst[i].st # "open" /\ inst[i].st \notin Shutting
  BY <1>2 DEF Shutting
<1>5. CASE OpenFile(c)
  <2> DEFINE v == [inst[i] EXCEPT !.st = "attached"]
  <2>1. inst' = [inst EXCEPT ![i] = v] /\ dbc' = dbc
    BY <1>5 DEF OpenFile
  <2>2. v \in InstSet /\ v.st = "attached" /\ v.file = inst[i].file /\ v.mutex = c
    BY <1>2 DEF InstSet, States
  <2>3. dbc' = [dbc EXCEPT ![c] = dbc[c]] /\ Searching(c)'
    BY <1>2, <2>1, TypesOfOne DEF Searching
  <2> HIDE DEF v
  <2> QED BY <1>1, <1>2, <1>3, <1>4, <2>1, <2>2, <2>3, SpinOneInst
<1>6. CASE OpenFails(c)
  <2> DEFINE v == [inst[i] EXCEPT !.closer = c, !.st = IF @ = "opening" THEN "detached" ELSE "closing"]
             r == Fail(dbc[c])
  <2>1. inst' = [inst EXCEPT ![i] = v] /\ dbc' = [dbc EXCEPT ![c] = r]
    BY <1>2, <1>6, TypesOfOne DEF OpenFails, Set
  <2>2. v \in InstSet /\ v.st \in {"detached", "closing"} /\ v.file = inst[i].file
    BY <1>2 DEF InstSet, States
  <2>3. /\ r \in DbcSet /\ r.pc = "idle" /\ r.db = None /\ r.conn = dbc[c].conn
        /\ r.stmts = dbc[c].stmts /\ r.weak = dbc[c].weak
    BY <1>2 DEF Fail, DbcSet, PCs
  <2>4. dbc'[c] = r
    BY <2>1, TypesOfOne
  <2> HIDE DEF v, r
  <2>5. Searching(c)'
    BY <2>3, <2>4 DEF Searching
  <2> QED BY <1>1, <1>2, <1>3, <1>4, <2>1, <2>2, <2>3, <2>5, SpinOneInst
<1>7. CASE Opened(c)
  <2> DEFINE v == [inst[i] EXCEPT !.st = "open", !.mutex = None]
             r == [dbc[c] EXCEPT !.pc = "assign", !.entry = None, !.db = dbc[c].entry, !.db_created = TRUE]
  <2>1. inst' = [inst EXCEPT ![i] = v] /\ dbc' = [dbc EXCEPT ![c] = r]
    BY <1>2, <1>7, TypesOfOne DEF Opened, Set
  <2>2. v \in InstSet /\ v.st = "open" /\ v.file = inst[i].file
    BY <1>2 DEF InstSet, States
  <2>3. /\ r \in DbcSet /\ r.pc = "assign" /\ r.db = i /\ r.conn = dbc[c].conn /\ r.file = dbc[c].file
        /\ r.stmts = dbc[c].stmts /\ r.weak = dbc[c].weak
    BY <1>2 DEF DbcSet, PCs
  <2>4. dbc'[c] = r
    BY <2>1, TypesOfOne
  <2> HIDE DEF v, r
  <2>5. Searching(c)'
    BY <1>1, <1>2, <2>3, <2>4, InstanceCacheAssumption DEF Searching
  <2> QED BY <1>1, <1>2, <1>3, <1>4, <2>1, <2>2, <2>3, <2>5, SpinOneInst
<1> QED BY <1>5, <1>6, <1>7

\* The database part changes a counter only.
LEMMA InitDatabaseSpin ==
  ASSUME CacheInv, SpinInv, NEW c \in Dbcs, InitDatabase(c)
  PROVE  SpinInv'
<1> DEFINE r == [dbc[c] EXCEPT !.pc = "conninit"]
<1>1. /\ dbc' = [dbc EXCEPT ![c] = r] /\ dbc[c].pc = "dbinit" /\ env' = env
      /\ inst' = [i \in Ids |-> [inst[i] EXCEPT !.inits = IF i = dbc[c].conn /\ @ < 2 THEN @ + 1 ELSE @]]
      /\ dbc[c] \in DbcSet
  BY TypesOfOne DEF InitDatabase, Set
<1>2. /\ r.pc = "conninit" /\ r.db = dbc[c].db /\ r.conn = dbc[c].conn /\ r.file = dbc[c].file
      /\ r.stmts = dbc[c].stmts /\ r.weak = dbc[c].weak
  BY <1>1 DEF DbcSet, PCs
<1>3. dbc'[c] = r /\ \A d \in Dbcs : d # c => dbc'[d] = dbc[d]
  BY <1>1, TypesOfOne
<1> HIDE DEF r
<1>4. ASSUME NEW i \in Ids
      PROVE  inst'[i].st = inst[i].st /\ inst'[i].file = inst[i].file /\ inst'[i].mutex = inst[i].mutex
  <2>1. inst[i] \in InstSet
    BY TypesOfOne
  <2>2. inst'[i] = [inst[i] EXCEPT !.inits = IF i = dbc[c].conn /\ @ < 2 THEN @ + 1 ELSE @]
    BY <1>1
  <2> QED BY <2>1, <2>2 DEF InstSet
<1>5. \A d \in Dbcs : Searching(d)'
  BY <1>1, <1>2, <1>3 DEF SpinInv, Searching
<1>6. SpinIsShutdown'
  BY <1>2, <1>3, <1>4, SpinSame DEF SpinInv
<1>7. \A i \in Ids : /\ inst[i].st # "none" => inst[i].file \in Files
                     /\ inst[i].st \in {"opening", "attached"} => inst[i].mutex # None
  BY DEF SpinInv, Kept
<1> QED BY <1>1, <1>2, <1>3, <1>4, <1>5, <1>6, <1>7, SpinStep

\* The steps that release what was found, or the connection.
LEMMA ReleaseSpin ==
  ASSUME CacheInv, SpinInv, NEW c \in Dbcs,
         CheckConfig(c) \/ InitFails(c) \/ SQLDisconnect(c) \/ FreeDbc(c)
  PROVE  SpinInv'
<1>1. /\ dbc[c] \in DbcSet /\ Holds(c) /\ Homed(c) /\ Searching(c)
      /\ dbc[c].stmts \subseteq Ids
  BY TypesOfOne DEF CacheInv, SpinInv
<1>2. /\ Fail(dbc[c]) \in DbcSet /\ Fail(dbc[c]).pc = "idle" /\ Fail(dbc[c]).db = None
      /\ Fail(dbc[c]).conn = dbc[c].conn /\ Fail(dbc[c]).stmts = dbc[c].stmts
      /\ Fail(dbc[c]).weak = dbc[c].weak
  BY ZenonT(40), <1>1 DEF Fail, DbcSet, PCs
<1>3. CASE CheckConfig(c)
  <2> DEFINE s == [dbc[c] EXCEPT !.pc = "assign", !.entry = None]
             r == IF inst[dbc[c].db].config = dbc[c].config THEN s ELSE Fail(dbc[c])
  <2>1. /\ dbc' = [dbc EXCEPT ![c] = r] /\ env' = env /\ LetGo(c, env', dbc')
        /\ dbc[c].pc = "check"
    BY <1>3 DEF CheckConfig, Set
  <2>2. /\ s \in DbcSet /\ s.pc = "assign" /\ s.db = dbc[c].db /\ s.conn = dbc[c].conn
        /\ s.stmts = dbc[c].stmts /\ s.weak = dbc[c].weak /\ s.file = dbc[c].file
    BY <1>1 DEF DbcSet, PCs
  <2>3. /\ r \in DbcSet /\ r.conn = dbc[c].conn /\ r.stmts = dbc[c].stmts /\ r.weak = dbc[c].weak
        /\ \/ r.pc = "idle" /\ r.db = None
           \/ r.pc = "assign" /\ r.db = dbc[c].db /\ r.file = dbc[c].file
    BY <1>2, <2>2
  <2> HIDE DEF r
  <2>4. dbc'[c] = r
    BY <2>1, TypesOfOne
  <2>5. Searching(c)'
    BY <1>1, <2>1, <2>3, <2>4 DEF Searching
  <2>6. r.stmts \subseteq {env[EnvOf[c]]} /\ (c \notin Keepers => r.stmts = {})
    BY <1>1, <2>3 DEF Homed
  <2> QED BY <2>1, <2>3, <2>5, <2>6, SpinReleases
<1>4. CASE InitFails(c)
  <2> DEFINE r == [Fail(dbc[c]) EXCEPT !.conn = None]
  <2>1. dbc' = [dbc EXCEPT ![c] = r] /\ env' = env /\ LetGo(c, env', dbc')
    BY <1>4 DEF InitFails, Set
  <2>2. /\ r \in DbcSet /\ r.pc = "idle" /\ r.db = None /\ r.conn = None
        /\ r.stmts = dbc[c].stmts /\ r.weak = dbc[c].weak
    BY <1>1 DEF Fail, DbcSet, PCs
  <2> HIDE DEF r
  <2>3. dbc'[c] = r
    BY <2>1, TypesOfOne
  <2>4. Searching(c)' /\ r.conn \notin Ids
    BY <2>2, <2>3, InstanceCacheAssumption DEF Searching
  <2>5. r.stmts \subseteq {env[EnvOf[c]]} /\ (c \notin Keepers => r.stmts = {})
    BY <1>1, <2>2 DEF Homed
  <2> QED BY <2>1, <2>2, <2>4, <2>5, SpinReleases
<1>5. CASE SQLDisconnect(c)
  <2>1. PICK kept \in SUBSET ({dbc[c].conn} \cap Ids) :
          /\ kept # {} => c \in Keepers
          /\ LET r == [dbc[c] EXCEPT !.conn = None, !.file = None, !.stmts = @ \cup kept]
             IN  Set(c, r) /\ LetGo(c, env, [dbc EXCEPT ![c] = r])
    BY <1>5 DEF SQLDisconnect
  <2> DEFINE r == [dbc[c] EXCEPT !.conn = None, !.file = None, !.stmts = @ \cup kept]
  <2>2. dbc' = [dbc EXCEPT ![c] = r] /\ env' = env /\ LetGo(c, env', dbc') /\ dbc[c].pc = "idle"
    BY <1>5, <2>1 DEF SQLDisconnect, Set, Quiet
  <2>3. /\ r \in DbcSet /\ r.pc = dbc[c].pc /\ r.db = dbc[c].db /\ r.conn = None
        /\ r.stmts = dbc[c].stmts \cup kept /\ r.weak = dbc[c].weak
    BY <1>1 DEF DbcSet
  <2> HIDE DEF r
  <2>4. dbc'[c] = r /\ dbc[c].db = None
    BY <1>1, <2>2, TypesOfOne DEF Holds
  <2>5. Searching(c)' /\ r.conn \notin Ids
    BY <2>2, <2>3, <2>4, InstanceCacheAssumption DEF Searching
  <2>6. r.stmts \subseteq {env[EnvOf[c]]} /\ (c \notin Keepers => r.stmts = {})
    BY <1>1, <2>1, <2>3 DEF Homed
  <2> QED BY <2>2, <2>3, <2>5, <2>6, SpinReleases
<1>6. CASE FreeDbc(c)
  <2>1. dbc' = [dbc EXCEPT ![c] = NoCall] /\ env' = env /\ LetGo(c, env', dbc')
    BY <1>6 DEF FreeDbc, Set
  <2>2. /\ NoCall \in DbcSet /\ NoCall.pc = "idle" /\ NoCall.db = None /\ NoCall.conn = None
        /\ NoCall.stmts = {} /\ NoCall.weak = None
    BY DEF NoCall, DbcSet, PCs
  <2>3. dbc'[c] = NoCall
    BY <2>1, TypesOfOne
  <2>4. Searching(c)' /\ NoCall.conn \notin Ids
    BY <2>2, <2>3, InstanceCacheAssumption DEF Searching
  <2> QED BY <2>1, <2>2, <2>4, SpinReleases
<1> QED BY <1>3, <1>4, <1>5, <1>6

\* Two open instances of a database that is not read only are one.
LEMMA OneOpen ==
  ASSUME SameDatabase, ReadOnly = {}, NEW i \in Ids, NEW j \in Ids, inst[i].st = "open",
         inst[j].st = "open", inst[i].file = inst[j].file, inst[i].file \in Files
  PROVE  i = j
<1>1. i \in Attached(inst[i].file) /\ j \in Attached(inst[i].file)
  BY DEF Attached
<1>2. i = j \/ {inst[i].config, inst[j].config} \subseteq ReadOnly
  BY <1>1 DEF SameDatabase
<1> QED BY <1>2

\* A connect replaces the object of its environment: by itself, or while no connection
\* and no statement of the environment uses another one.
LEMMA AssignSpin ==
  ASSUME CacheInv, SpinInv, SameDatabase, AllLoyal, NEW c \in Dbcs, Assign(c)
  PROVE  SpinInv'
<1> DEFINE e0 == [env EXCEPT ![EnvOf[c]] = dbc[c].db]
           r0 == [dbc[c] EXCEPT !.db = None, !.conn = dbc[c].db]
           r1 == Done(r0)
           r2 == [r0 EXCEPT !.pc = IF r0.db_created THEN "dbinit" ELSE "conninit"]
<1>1. /\ dbc[c] \in DbcSet /\ Holds(c) /\ Points(c) /\ env \in [Envs -> Ids \cup {Memory}]
      /\ Homed(c) /\ Searching(c) /\ EnvOf[c] \in Envs
  BY TypesOfOne DEF CacheInv, SpinInv
<1>2. /\ dbc' = [dbc EXCEPT ![c] = r1] \/ dbc' = [dbc EXCEPT ![c] = r2]
      /\ dbc[c].pc = "assign" /\ env' = e0
      /\ LetGo(c, e0, [dbc EXCEPT ![c] = r0])
  BY DEF Assign, Set
<1>3. dbc[c].db \in Ids \cup {Memory} /\ dbc[c].file \in FilesOf[EnvOf[c]] /\ dbc[c].conn = None
  BY <1>1, <1>2 DEF Holds, DbcSet, Searching
<1>4. /\ r0 \in DbcSet /\ r0.db = None /\ r0.conn = dbc[c].db /\ r0.file = dbc[c].file
      /\ r0.stmts = dbc[c].stmts /\ r0.weak = dbc[c].weak
  BY <1>1, <1>3 DEF DbcSet, PCs
<1>5. /\ r1 \in DbcSet /\ r1.db = None /\ r1.conn = r0.conn /\ r1.file = r0.file
      /\ r1.stmts = r0.stmts /\ r1.weak = r0.weak /\ r1.pc = "idle"
  BY <1>4 DEF Done, DbcSet, PCs
<1>6. /\ r2 \in DbcSet /\ r2.db = None /\ r2.conn = r0.conn /\ r2.file = r0.file
      /\ r2.stmts = r0.stmts /\ r2.weak = r0.weak /\ r2.pc \in {"dbinit", "conninit"}
  BY ZenonT(40), <1>4 DEF DbcSet, PCs
<1>7. PICK r \in {r1, r2} : dbc' = [dbc EXCEPT ![c] = r]
  BY <1>2
<1>8. /\ r \in DbcSet /\ r.db = None /\ r.conn = dbc[c].db /\ r.file = dbc[c].file
      /\ r.stmts = dbc[c].stmts /\ r.weak = dbc[c].weak
      /\ r.pc \in {"idle", "dbinit", "conninit"}
  BY <1>4, <1>5, <1>6, <1>7
<1> HIDE DEF r0, r1, r2
<1>9. dbc'[c] = r /\ \A d \in Dbcs : d # c => dbc'[d] = dbc[d]
  BY <1>7, TypesOfOne
<1>10. LetGo(c, env', dbc')
  <2> DEFINE d0 == [dbc EXCEPT ![c] = r0]
  <2>1. d0[c] = r0 /\ \A d \in Dbcs : d # c => d0[d] = dbc[d]
    BY TypesOfOne
  <2>2. \A d \in Dbcs : /\ d0[d].db = dbc'[d].db
                        /\ d0[d].conn = dbc'[d].conn
                        /\ d0[d].stmts = dbc'[d].stmts
    BY <2>1, <1>4, <1>8, <1>9
  <2>3. LetGo(c, env', d0)
    BY <1>2
  <2> HIDE DEF d0
  <2>4. \A i \in Ids : Owned(i, env', d0) <=> Owned(i, env', dbc')
    BY <2>2 DEF Owned
  <2> QED BY <2>3, <2>4 DEF LetGo
<1>11. /\ env'[EnvOf[c]] = dbc[c].db
       /\ \A e \in Envs : e # EnvOf[c] => env'[e] = env[e]
  BY <1>1, <1>2
<1>12. \A e \in Envs : env'[e] \in Ids => inst[env'[e]].file \in FilesOf[e]
  <2>1. dbc[c].db \in Ids => inst[dbc[c].db].file \in FilesOf[EnvOf[c]]
    BY <1>1, <1>3 DEF Points
  <2> QED BY <1>11, <2>1 DEF SpinInv
<1>13. \A d \in Dbcs : Searching(d)'
  <2>1. Searching(c)'
    BY <1>3, <1>8, <1>9 DEF Searching
  <2>2. \A d \in Dbcs : d # c => Searching(d)'
    BY <1>9 DEF SpinInv, Searching
  <2> QED BY <2>1, <2>2
<1>14. ASSUME ReadOnly = {}, NEW f \in Files \cup {Memory}, FilesOf[EnvOf[c]] \subseteq {f},
              env[EnvOf[c]] \in Ids
       PROVE  dbc[c].db = env[EnvOf[c]]
  <2> DEFINE j == env[EnvOf[c]]
  <2>1. inst[j].st = "open" /\ inst[j].file = f /\ dbc[c].file = f
    BY <1>1, <1>3, <1>14 DEF CacheInv, Entries, SpinInv
  <2>2. f \in Files
    BY <1>14, <2>1 DEF SpinInv, Kept
  <2>3. dbc[c].db \in Ids
    BY <1>1, <1>3, <2>1, <2>2, InstanceCacheAssumption DEF Searching
  <2>4. inst[dbc[c].db].st = "open" /\ inst[dbc[c].db].file = f
    BY <1>1, <2>1, <2>3 DEF Points
  <2> QED BY <1>14, <2>1, <2>2, <2>3, <2>4, OneOpen
<1>15. ASSUME NEW d \in Dbcs PROVE Homed(d)'
  <2>1. Homed(d) /\ dbc[d].stmts \subseteq Ids /\ EnvOf[d] \in Envs
    BY TypesOfOne DEF SpinInv
  <2>2. CASE EnvOf[d] # EnvOf[c]
    BY <1>9, <1>11, <2>1, <2>2 DEF Homed
  <2>3. CASE EnvOf[d] = EnvOf[c] /\ env'[EnvOf[c]] = env[EnvOf[c]]
    <3>1. CASE d = c
      BY <1>8, <1>9, <1>11, <2>1, <2>3, <3>1 DEF Homed
    <3>2. CASE d # c
      BY <1>9, <2>1, <2>3, <3>2 DEF Homed
    <3> QED BY <3>1, <3>2
  <2>4. CASE EnvOf[d] = EnvOf[c] /\ env[EnvOf[c]] \notin Ids
    <3>1. dbc[d].stmts = {} /\ dbc[d].conn \notin Ids
      BY <2>1, <2>4 DEF Homed
    <3>2. CASE d = c
      BY <1>8, <1>9, <1>11, <3>1, <3>2 DEF Homed
    <3>3. CASE d # c
      BY <1>9, <3>1, <3>3 DEF Homed
    <3> QED BY <3>2, <3>3
  <2>5. CASE /\ EnvOf[d] = EnvOf[c]
             /\ \A a, b \in Dbcs : EnvOf[a] = EnvOf[c] /\ EnvOf[b] = EnvOf[c] => a = b
             /\ \A k \in Keepers : EnvOf[k] # EnvOf[c]
    <3>1. d = c /\ c \notin Keepers
      BY <2>5
    <3>2. dbc[c].stmts = {}
      BY <2>1, <3>1 DEF Homed
    <3> QED BY <1>8, <1>9, <1>11, <3>1, <3>2 DEF Homed
  <2>6. CASE ReadOnly = {} /\ \E f \in Files \cup {Memory} : FilesOf[EnvOf[c]] \subseteq {f}
    BY <1>1, <1>11, <1>14, <2>2, <2>3, <2>4, <2>6
  <2>7. Loyal(EnvOf[c])
    BY <1>1 DEF AllLoyal
  <2> QED BY <2>2, <2>5, <2>6, <2>7 DEF Loyal
<1>16. \A d \in Dbcs : /\ EnvOf[d] \in Envs /\ dbc'[d].weak \in {dbc[d].weak, None}
                       /\ dbc'[d].stmts \subseteq Ids
  <2>1. \A d \in Dbcs : dbc'[d].weak = dbc[d].weak /\ dbc'[d].stmts = dbc[d].stmts
    BY <1>8, <1>9
  <2> QED BY <2>1, TypesOfOne
<1> QED BY <1>10, <1>12, <1>13, <1>15, <1>16, SpinLetGo

\* An environment that is freed has no connection and no statement.
LEMMA FreeEnvSpin ==
  ASSUME CacheInv, SpinInv, NEW e \in Envs, FreeEnv(e)
  PROVE  SpinInv'
<1>1. /\ env' = [env EXCEPT ![e] = Memory] /\ dbc' = dbc /\ LetGo(e, env', dbc')
      /\ \A c \in Dbcs : EnvOf[c] = e => dbc[c].conn = None /\ dbc[c].stmts = {}
  BY DEF FreeEnv
<1>2. env'[e] = Memory /\ \A d \in Envs : d # e => env'[d] = env[d]
  BY <1>1, TypesOfOne
<1>3. \A d \in Envs : env'[d] \in Ids => inst[env'[d]].file \in FilesOf[d]
  BY <1>2, InstanceCacheAssumption DEF SpinInv
<1>4. ASSUME NEW c \in Dbcs PROVE Homed(c)' /\ Searching(c)'
  <2>1. Homed(c) /\ Searching(c) /\ EnvOf[c] \in Envs
    BY TypesOfOne DEF SpinInv
  <2>2. Searching(c)'
    BY <1>1, <2>1 DEF Searching
  <2>3. CASE EnvOf[c] = e
    BY <1>1, <2>2, <2>3, InstanceCacheAssumption DEF Homed
  <2>4. CASE EnvOf[c] # e
    BY <1>1, <1>2, <2>1, <2>2, <2>4 DEF Homed
  <2> QED BY <2>2, <2>3, <2>4
<1>5. \A c \in Dbcs : /\ EnvOf[c] \in Envs /\ dbc'[c].weak \in {dbc[c].weak, None}
                      /\ dbc'[c].stmts \subseteq Ids
  BY <1>1, TypesOfOne
<1> QED BY <1>1, <1>3, <1>4, <1>5, SpinLetGo

\* An instance that is shut down goes on to the next state, and its name is free again
\* when nobody waits for its entry.
LEMMA SpinShuts ==
  ASSUME CacheInv, SpinInv, NEW i \in Ids, inst[i].st \in Shutting, env' = env,
         \A j \in Ids : j # i => inst'[j] = inst[j],
         \/ inst'[i].st \in Shutting /\ inst'[i].file = inst[i].file
         \/ inst'[i].st = "none" /\ \A c \in Dbcs : dbc'[c].weak # i,
         \A c \in Dbcs : /\ dbc'[c].conn = dbc[c].conn /\ dbc'[c].stmts = dbc[c].stmts
                         /\ dbc'[c].db = dbc[c].db /\ Searching(c)'
                         /\ dbc'[c].weak \in {dbc[c].weak, i, None}
  PROVE  SpinInv'
<1>1. \A j \in Ids : Kept(j)
  BY DEF SpinInv
<1>2. ASSUME NEW j \in Ids
      PROVE  /\ inst'[j].st = "open" =>
                  inst[j].st = "open" \/ \E c \in Dbcs : dbc'[c].db = j
             /\ inst[j].st = "open" => inst'[j].file = inst[j].file
             /\ inst'[j].st # "none" => inst'[j].file \in Files
             /\ inst'[j].st \in {"opening", "attached"} => inst'[j].mutex # None
  <2>1. CASE j = i
    BY <1>1, <2>1 DEF Shutting, Kept
  <2>2. CASE j # i
    BY <1>1, <2>2 DEF Kept
  <2> QED BY <2>1, <2>2
<1>3. SpinIsShutdown'
  BY TypesOfOne DEF SpinInv, SpinIsShutdown, Shutting
<1> QED BY <1>2, <1>3, SpinStep

\* What expiring an entry does to the pointers of the connections.
LEMMA ExpiresWeak ==
  ASSUME NEW i \in Ids, NEW d \in [Dbcs -> DbcSet]
  PROVE  \A c \in Dbcs : /\ Expired(i, d)[c].stmts = d[c].stmts
                         /\ Expired(i, d)[c].weak \in {d[c].weak, None}
                         /\ Expired(i, d)[c].weak # i
<1>1. i # None
  BY InstanceCacheAssumption
<1>2. ASSUME NEW c \in Dbcs
      PROVE  /\ Expired(i, d)[c].stmts = d[c].stmts
             /\ Expired(i, d)[c].weak \in {d[c].weak, None}
             /\ Expired(i, d)[c].weak # i
  <2>1. d[c] \in DbcSet
    OBVIOUS
  <2>2. Expired(i, d)[c] = [d[c] EXCEPT !.weak = IF @ = i THEN None ELSE @]
    BY DEF Expired
  <2> QED BY <1>1, <2>1, <2>2 DEF DbcSet
<1> QED BY <1>2

\* The destructor.
LEMMA CloseSpin ==
  ASSUME CacheInv, SpinInv, NEW t \in Envs \cup Dbcs, CloseStep(t)
  PROVE  SpinInv'
<1>1. CASE ResetDatabases(t) \/ EraseDatabasePath(t)
  <2>1. PICK i \in Ids, s \in {"closed", "detached"} :
          inst[i].st \in {"closing", "closed"} /\ inst' = [inst EXCEPT ![i].st = s]
    BY <1>1 DEF ResetDatabases, EraseDatabasePath
  <2>2. env' = env /\ dbc' = dbc /\ inst[i] \in InstSet
    BY <1>1, TypesOfOne DEF ResetDatabases, EraseDatabasePath
  <2>3. /\ inst'[i].st = s /\ inst'[i].file = inst[i].file
        /\ \A j \in Ids : j # i => inst'[j] = inst[j]
    BY <2>1, <2>2, TypesOfOne DEF InstSet
  <2>4. \A c \in Dbcs : Searching(c)'
    BY <2>2 DEF SpinInv, Searching
  <2> QED BY <2>1, <2>2, <2>3, <2>4, SpinShuts DEF Shutting
<1>2. CASE ResetCacheEntry(t)
  <2>1. PICK i \in Ids :
          /\ inst[i].st = "detached"
          /\ IF Waiters(i) = {}
             THEN /\ inst' = [inst EXCEPT ![i] = NoInstance] /\ dbc' = Expired(i, dbc)
             ELSE /\ inst' = [inst EXCEPT ![i].st = "gone", ![i].closer = None, ![i].mutex = None]
                  /\ dbc' = dbc
    BY <1>2 DEF ResetCacheEntry
  <2>2. env' = env /\ inst[i] \in InstSet
    BY <1>2, TypesOfOne DEF ResetCacheEntry
  <2>3. CASE Waiters(i) = {}
    <3>1. inst' = [inst EXCEPT ![i] = NoInstance] /\ dbc' = Expired(i, dbc)
      BY <2>1, <2>3
    <3>2. inst'[i].st = "none" /\ \A j \in Ids : j # i => inst'[j] = inst[j]
      BY <3>1, TypesOfOne DEF NoInstance
    <3>3. \A c \in Dbcs : /\ dbc'[c].pc = dbc[c].pc /\ dbc'[c].file = dbc[c].file
                          /\ dbc'[c].db = dbc[c].db /\ dbc'[c].conn = dbc[c].conn
                          /\ dbc'[c].stmts = dbc[c].stmts
                          /\ dbc'[c].weak \in {dbc[c].weak, None} /\ dbc'[c].weak # i
      BY <3>1, TypesOfOne, Expires, ExpiresWeak
    <3>4. \A c \in Dbcs : Searching(c)'
      BY <3>3 DEF SpinInv, Searching
    <3> QED BY <2>1, <2>2, <3>2, <3>3, <3>4, SpinShuts DEF Shutting
  <2>4. CASE Waiters(i) # {}
    <3>1. inst' = [inst EXCEPT ![i].st = "gone", ![i].closer = None, ![i].mutex = None] /\ dbc' = dbc
      BY <2>1, <2>4
    <3>2. /\ inst'[i].st = "gone" /\ inst'[i].file = inst[i].file
          /\ \A j \in Ids : j # i => inst'[j] = inst[j]
      BY <2>2, <3>1, TypesOfOne DEF InstSet
    <3>3. \A c \in Dbcs : Searching(c)'
      BY <3>1 DEF SpinInv, Searching
    <3> QED BY <2>1, <2>2, <3>1, <3>2, <3>3, SpinShuts DEF Shutting
  <2> QED BY <2>3, <2>4
<1> QED BY <1>1, <1>2 DEF CloseStep

\* A thread begins to wait: the instance is not being opened, as its mutex is free, and
\* not open, as its object is gone.
LEMMA FindNoDatabaseSpin ==
  ASSUME CacheInv, SpinInv, NEW c \in Dbcs, FindNoDatabase(c)
  PROVE  SpinInv'
<1> DEFINE i == dbc[c].entry
           r == [dbc[c] EXCEPT !.pc = "spin", !.entry = None, !.weak = i]
           d == [dbc EXCEPT ![c] = r]
           last == inst[i].st = "gone" /\ Waiters(i) = {c}
<1>1. /\ dbc[c] \in DbcSet /\ Holds(c) /\ Points(c) /\ Searching(c)
      /\ dbc \in [Dbcs -> DbcSet] /\ inst \in [Ids -> InstSet]
  BY TypesOfOne DEF CacheInv, SpinInv
<1>2. /\ dbc[c].pc = "wait" /\ env' = env /\ inst[i].mutex = None /\ ~DatabaseAlive(i)
      /\ IF last THEN dbc' = Expired(i, d) /\ inst' = [inst EXCEPT ![i] = NoInstance]
                 ELSE dbc' = d /\ inst' = inst
  BY DEF FindNoDatabase, GotMutex
<1>3. i \in Ids
  BY <1>1, <1>2 DEF Holds
<1>4. inst[i].st \in Shutting
  <2>1. inst[i].st \in States /\ inst[i].st # "none"
    BY <1>1, <1>3 DEF Points, InstSet
  <2>2. inst[i].st \notin {"opening", "attached", "open"}
    BY <1>2, <1>3 DEF SpinInv, Kept
  <2> QED BY <2>1, <2>2 DEF States, Shutting
<1>5. /\ r \in DbcSet /\ r.pc = "spin" /\ r.db = dbc[c].db /\ r.file = dbc[c].file
      /\ r.conn = dbc[c].conn /\ r.stmts = dbc[c].stmts /\ r.weak = i
  BY <1>1, <1>3 DEF DbcSet, PCs
<1>6. d \in [Dbcs -> DbcSet] /\ d[c] = r /\ \A b \in Dbcs : b # c => d[b] = dbc[b]
  BY <1>1, <1>5
<1>7. \A b \in Dbcs : /\ d[b].conn = dbc[b].conn /\ d[b].stmts = dbc[b].stmts
                      /\ d[b].db = dbc[b].db /\ d[b].file = dbc[b].file
                      /\ d[b].weak \in {dbc[b].weak, i}
                      /\ d[b].pc = dbc[b].pc \/ (d[b].pc = "spin" /\ dbc[b].pc = "wait")
  BY <1>2, <1>5, <1>6
<1> HIDE DEF d, r
<1>8. CASE last
  <2>1. dbc' = Expired(i, d) /\ inst' = [inst EXCEPT ![i] = NoInstance]
    BY <1>2, <1>8
  <2> HIDE DEF i
  <2>2. inst'[i].st = "none" /\ \A j \in Ids : j # i => inst'[j] = inst[j]
    BY <1>1, <1>3, <2>1 DEF NoInstance
  <2>3. \A b \in Dbcs : /\ dbc'[b].pc = d[b].pc /\ dbc'[b].file = d[b].file
                        /\ dbc'[b].db = d[b].db /\ dbc'[b].conn = d[b].conn
                        /\ dbc'[b].stmts = d[b].stmts
                        /\ dbc'[b].weak \in {d[b].weak, None} /\ dbc'[b].weak # i
    BY <1>3, <1>6, <2>1, Expires, ExpiresWeak
  <2>4. \A b \in Dbcs : Searching(b)'
    BY <1>7, <2>3 DEF SpinInv, Searching
  <2> QED BY <1>2, <1>3, <1>4, <1>7, <2>2, <2>3, <2>4, SpinShuts
<1>9. CASE ~last
  <2>1. dbc' = d /\ inst' = inst
    BY <1>2, <1>9
  <2> HIDE DEF i
  <2>2. \A b \in Dbcs : Searching(b)'
    BY <1>7, <2>1 DEF SpinInv, Searching
  <2> QED BY <1>2, <1>3, <1>4, <1>7, <2>1, <2>2, SpinShuts
<1> QED BY <1>8, <1>9

\* Every step.
LEMMA SpinNext ==
  ASSUME CacheInv, SpinInv, SameDatabase, AllLoyal, [Next]_vars
  PROVE  SpinInv'
<1>1. ASSUME NEW c \in Dbcs, ConnectStep(c) PROVE SpinInv'
  BY <1>1, CreateInstanceSpin, SearchSpin, OpenSpin, ReleaseSpin, FindNoDatabaseSpin,
     AssignSpin, InitDatabaseSpin DEF ConnectStep
<1>2. ASSUME NEW c \in Dbcs, SQLDriverConnect(c) \/ SQLDisconnect(c) \/ FreeDbc(c) PROVE SpinInv'
  BY <1>2, SQLDriverConnectSpin, ReleaseSpin
<1>3. ASSUME UNCHANGED vars PROVE SpinInv'
  BY <1>3 DEF vars, SpinInv, Homed, Searching, Kept, DatabaseAlive, SpinIsShutdown
<1> QED BY <1>1, <1>2, <1>3, FreeEnvSpin, CloseSpin DEF Next

\* A connect busy-waits only for an instance that is being shut down, however many
\* threads open, find, lose and close it, as long as no environment gives up the object
\* of a database it still uses.
THEOREM WaitsForShutdown ==
  ASSUME AllLoyal
  PROVE  Spec => []SpinIsShutdown
<1>1. CacheInv /\ SameDatabase /\ SpinInv /\ [Next]_vars => SpinInv'
  BY SpinNext
<1>2. SpinInv => SpinIsShutdown
  BY DEF SpinInv
<1> QED BY <1>1, <1>2, SpinInit, CacheInvariant, OneInstancePerDatabase, PTL DEF Spec
============================================================================
