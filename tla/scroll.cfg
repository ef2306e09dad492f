SPECIFICATION Spec
CONSTANTS
  Results <- ScrollResults
  Calls <- ScrollCalls
  CursorTypes = {FALSE}
  ArraySizes = {1}
  Offsets = {1, 2, 4, 6}
  ValLen = 3
  BufLens = {2}
  MaxRowCount = 5
  MaxPrior = 3
INVARIANT NeverUndefined
PROPERTY ImplementsScrollCursor
