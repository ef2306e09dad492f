-------------------------- MODULE MCInstanceCache --------------------------
\* Values of the constants of InstanceCache.
EXTENDS InstanceCache, TLC

CONSTANTS c1, c2, c3, e1, e2, e3

\* Three threads that open the same file; one of them also a database in memory.
ThreeEnvs   == (c1 :> e1) @@ (c2 :> e2) @@ (c3 :> e3)
SharedFile  == (e1 :> Files) @@ (e2 :> Files) @@ (e3 :> Files \cup {Memory})

\* One environment with connections to a file and to a database in memory.
OneEnv      == [c \in Dbcs |-> e1]
FileAndMemory == [e \in Envs |-> Files \cup {Memory}]
============================================================================
