SPECIFICATION Spec
CONSTANTS
  Idx <- MCIdx
  TabsChoices <- MCNoStatements
  WCChoices <- MCWCJoin
  OrderByChoices <- MCNoOrderBy
  VtabStatements <- MCVtabLeak
  XBestIndex <- MCXBestIndex
  WctrlChoices <- MCNoWctrl
INVARIANT
  NoLeakedIdxStr
