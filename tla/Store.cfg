SPECIFICATION Spec
CONSTANTS
  Procs = {p1, p2, p3, p4, p5}
  Keys = {v1, v2}
  Missing = Missing
  NoProc = NoProc
  MaxDeaths = 2
  MaxActive = 2
SYMMETRY StoreSymmetry
VIEW StoreView
INVARIANTS
  ServesItsOwnState
  KeysOfOneInit
PROPERTIES
  NothingIsLost
  RestoredDirectoryOpens
CHECK_DEADLOCK FALSE
