SPECIFICATION Spec
CONSTANTS
  txt = txt  sub = sub  lnk = lnk  F = F  x = x  y = y
  Names = {txt, sub, lnk}
  Full = {F}  Short = {x, y}  Empty = Empty  None = None
  Edited = {txt, sub}
  Locking = {TRUE, FALSE}
  MaxEdits = 3
  MaxKills = 1
  Kind <- MCKind
  Contents <- MCContents
  InitTrees <- MCInitTrees
INVARIANTS SyncInv ChangesPending NoOtherHang
PROPERTY Settles
CHECK_DEADLOCK FALSE
