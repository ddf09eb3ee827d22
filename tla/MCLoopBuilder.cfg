SPECIFICATION Spec
CONSTANTS
  Idx <- MCIdx
  TabsChoices <- MCTabsChoices
  WCChoices <- MCWCChoices
  OrderByChoices <- MCOrderByChoices
  VtabStatements <- MCVtabStatements
  XBestIndex <- MCXBestIndex
  WctrlChoices <- MCWctrlChoices
INVARIANTS
  SetupInvariant
  LeftJoinOrder
  PlannableWithoutIndexedBy
  ScanAgreesWithClosure
  FindTermPrefersConstant
  NoDanglingIdxStr
  VirtualLoopSound
  KeyStatsAccurate
  Stat3RangeAtSamples
  Stat3EqualAtSamples
