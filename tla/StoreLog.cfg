SPECIFICATION Spec
CONSTANTS
  Procs = {p1, p2, p3, p4}
  Keys = {v1}
  Missing = Missing
  NoProc = NoProc
  MaxDeaths = 1
  MaxActive = 1
SYMMETRY StoreSymmetry
VIEW StoreView
PROPERTIES
  MovedAsideIsWhole
CHECK_DEADLOCK FALSE
