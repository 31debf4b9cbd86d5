SPECIFICATION Spec
CONSTANTS
  Callers = {c1, c2}
  Keys = {k1, k2, k3}
  Values <- mcValues
  Size <- mcSize
  MaxEntries = 2
  MaxBytes = 4
  Lifetimes = {0, 1}
  MaxClock = 1
SYMMETRY symmetry
INVARIANTS
  WithinBudget
PROPERTIES
  NoNeedlessEviction
  StoresAsByteStore
