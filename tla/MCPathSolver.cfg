\* Four-way join: eviction from the ten best paths, and an ORDER BY that
\* only a complete join order can satisfy.
CONSTANTS
  Tables <- MCTables
  Loops <- MCLoops
  RunChoices <- MCRunChoices
  NQueryLoopChoices <- MCNQueryLoopChoices
  OrderBy <- MCOrderBy
  EqTerms <- MCEqTerms
  NotNull <- MCNotNull
  WctrlFlags = {}
SPECIFICATION Spec
INVARIANTS TypeOK FinalSinglePath GenerationKeepsBest
PROPERTIES ImplementsAbstractPlan
