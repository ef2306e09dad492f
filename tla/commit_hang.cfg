SPECIFICATION FairSpec
CONSTANTS
  Results <- OneChunk
  Calls <- CommitCalls
  CursorTypes = {TRUE, FALSE}
  ArraySizes = {1}
  Offsets = {}
  ValLen = 3
  BufLens = {2}
  MaxRowCount = 5
  MaxPrior = 3
PROPERTY CommitTerminates
