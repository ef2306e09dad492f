SPECIFICATION Spec
CONSTANTS
  d1 = d1  s1 = s1  s2 = s2  x1 = x1
  Dbcs = {d1}
  Stmts = {s1, s2}
  Descs = {x1}
  MaxWrites = 2
SYMMETRY Handles
PROPERTY ManualCommit
