SPECIFICATION Spec
CONSTANTS
  Idx <- MCIdx
  TabsChoices <- MCTabsLeft
  WCChoices <- MCWCMatch
  OrderByChoices <- MCNoOrderBy
  VtabStatements <- MCNoStatements
  XBestIndex <- MCXBestIndex
  WctrlChoices <- MCNoWctrl
INVARIANT
  LeftJoinOrder
