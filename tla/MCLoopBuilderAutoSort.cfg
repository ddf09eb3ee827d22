SPECIFICATION Spec
CONSTANTS
  Idx <- MCIdx
  TabsChoices <- MCTabsInner
  WCChoices <- MCWCJoin
  OrderByChoices <- MCOrderByAb
  VtabStatements <- MCNoStatements
  XBestIndex <- MCXBestIndex
  WctrlChoices <- MCNoWctrl
INVARIANT
  AutoIndexUnordered
