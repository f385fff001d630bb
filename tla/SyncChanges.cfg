SPECIFICATION Spec
CONSTANTS
  txt = txt  sub = sub  lnk = lnk  F = F  x = x  y = y
  Names = {txt, sub, lnk}
  Full = {F}  Short = {x, y}  Empty = Empty  None = None
  Edited = {txt, sub}
  Locking = {TRUE}
  MaxEdits = 1
  MaxKills = 0
  Kind <- MCKind
  Contents <- MCContents
  InitTrees <- EmptyServer
PROPERTY ChangesArrive
CHECK_DEADLOCK FALSE
