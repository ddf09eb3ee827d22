SPECIFICATION Spec
CONSTANTS
  Idx <- MCIdx
  TabsChoices <- MCTabsInner
  WCChoices <- MCWCIn1
  OrderByChoices <- MCNoOrderBy
  VtabStatements <- MCNoStatements
  XBestIndex <- MCXBestIndex
  WctrlChoices <- MCNoWctrl
INVARIANT
  OneRowNotIn
