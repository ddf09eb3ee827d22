\* Twenty-seven WHERE clauses (including LIKE and GLOB) with aStatic[1]; any one of the first three growths
\* of the term array may fail; with and without the stat3 x>NULL term.
CONSTANTS
  ExprChoices <- MCExprChoices
  AStatic = 1
  MaxAlloc = 6
  Tables = {"A", "B"}
  Stat3 = TRUE
SPECIFICATION Spec
INVARIANTS TypeOK NoStaleTermPointer ChildCount CodedWhenChildrenCoded
  OrToInExact LikeRangeImplied CompleteLikeExact
