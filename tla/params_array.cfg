SPECIFICATION FairSpec
CONSTANTS
  NumParams = 1
  Query = TRUE
  ArraySizes = {1, 2, 3}
  Bindings = {"at_exec", "plain", "unsupported"}
  ColumnSize = 3
  Pieces <- ArrayPieces
  Calls <- DialogCalls
  Cleans = {"reset_params"}
  Habits = {"whole_values", "changes_closed"}
  MaxRuns = 2
INVARIANTS ParamsNeverUndefined SetsInOrder
PROPERTIES DataComplete BatchTerminates
