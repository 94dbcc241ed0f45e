CONSTANTS
  CommandLines <- MCCommandLines
  Environments <- MCEnvironments
  Files <- MCFiles
  NewIds <- MCNewIds
  NewTokens <- MCNewTokens
  Ids = {1, 2, 3}
  Retention = 1
  Limits = {1, 3}
  MaxLimit = 2
  MaxTime = 2
SPECIFICATION MCSpec
CHECK_DEADLOCK FALSE
INVARIANTS
  RestartsChangeNothing
  SourcesInOrder
  PagesMissNothing
PROPERTIES
  PruneExact
