SPECIFICATION Spec
CONSTANTS
  NumParams = 2
  Query = FALSE
  ArraySizes = {1, 2, 3}
  Bindings = {"plain", "null", "nts", "no_indicator", "null_token"}
  ColumnSize = 3
  Pieces <- WholePieces
  Calls <- BatchCalls
  Cleans = {"close", "reset_params"}
  Habits = {"binds_all"}
  MaxRuns = 2
INVARIANTS ParamTypeOK ParamsNeverUndefined
PROPERTY WholeBatch
