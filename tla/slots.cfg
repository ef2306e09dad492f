SPECIFICATION Spec
CONSTANTS
  Results <- OneChunk
  Calls <- BlockCalls
  CursorTypes = {TRUE}
  ArraySizes = {2}
  Offsets = {}
  ValLen = 3
  BufLens = {2}
  MaxRowCount = 5
  MaxPrior = 3
PROPERTY SlotsInRowset
