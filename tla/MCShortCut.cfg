SPECIFICATION Spec
CONSTANTS
  Columns <- MCColumns
  Indexes <- MCIndexes
  NotNull <- MCNotNull
  WhereChoices <- MCWhereChoices
  DistinctChoices <- MCDistinctChoices
  OrderByChoices <- MCOrderByChoices
  ColNo <- MCColNo
  BMS = 4
  ColUsedChoices <- MCColUsedChoices
  MallocMayFail = TRUE
INVARIANTS
  TypeOK
  ShortCutAgreesWithReference
  LoopTermsMatchIndex
  DistinctUniqueSound
  IdxOnlyCovers
