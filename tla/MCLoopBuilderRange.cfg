SPECIFICATION Spec
CONSTANTS
  Idx <- MCIdx
  TabsChoices <- MCTabsInner
  WCChoices <- MCWCRange
  OrderByChoices <- MCNoOrderBy
  VtabStatements <- MCNoStatements
  XBestIndex <- MCXBestIndex
  WctrlChoices <- MCNoWctrl
INVARIANT
  RangeEstimate
