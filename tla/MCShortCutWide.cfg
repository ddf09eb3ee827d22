SPECIFICATION Spec
CONSTANTS
  Columns <- MCColumns
  Indexes <- MCWideIndexes
  NotNull <- MCNotNull
  WhereChoices <- MCWideWhereChoices
  DistinctChoices <- MCDistinctChoices
  OrderByChoices <- MCOrderByChoices
  ColNo <- MCColNo
  BMS = 4
  ColUsedChoices <- MCColUsedChoices
  MallocMayFail = FALSE
INVARIANT
  ALTermInBounds
