SPECIFICATION Spec
CONSTANTS
  Results <- SmallResults
  Calls <- ForwardCalls
  CursorTypes = {TRUE, FALSE}
  ArraySizes = {1, 2}
  Offsets = {}
  ValLen = 3
  BufLens <- SomeBuffers
  MaxRowCount = 5
  MaxPrior = 3
INVARIANTS TypeOK NeverUndefined CursorConsistent NoDataIsTheEnd PartsInSequence
PROPERTY InOrder
