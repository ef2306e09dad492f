SPECIFICATION FairSpec
CONSTANTS
  NumParams = 2
  Query = TRUE
  ArraySizes = {1}
  Bindings = {"at_exec", "fixed_at_exec"}
  ColumnSize = 3
  Pieces <- DialogPieces
  Calls <- DialogCalls
  Cleans = {"reset_params"}
  Habits = {"binds_all", "whole_values", "changes_closed"}
  MaxRuns = 2
INVARIANTS ParamsNeverUndefined OwnValues
PROPERTIES DataComplete DialogEnds
