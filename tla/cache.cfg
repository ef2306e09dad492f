SPECIFICATION FairSpec
CONSTANTS
  c1 = c1  c2 = c2  c3 = c3  e1 = e1  e2 = e2  e3 = e3
  Dbcs = {c1, c2, c3}
  Envs = {e1, e2, e3}
  EnvOf <- ThreeEnvs
  FilesOf <- SharedFile
  Files = {"x"}
  Configs = {"rw", "ro"}
  ReadOnly = {"ro"}
  Ids = {i1, i2, i3}
  Keepers = {c1}
  MaxCalls = 4
INVARIANTS CacheTypeOK SameDatabase DbInitOnce SpinIsShutdown
PROPERTY ConnectReturns
CHECK_DEADLOCK FALSE
