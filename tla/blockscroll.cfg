SPECIFICATION FairSpec
CONSTANTS
  Results <- UnequalChunks
  Calls <- BlockScrollCalls
  CursorTypes = {FALSE}
  ArraySizes = {1, 2}
  Offsets = {1, 3, 4}
  ValLen = 3
  BufLens = {2}
  MaxRowCount = 3
  MaxPrior = 1
INVARIANTS NeverUndefined CurrentChunkHeld
PROPERTY AbsoluteTerminates
