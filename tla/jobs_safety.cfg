SPECIFICATION Spec
CONSTANTS
  j1 = j1  c1 = c1  c2 = c2  d1 = d1
  Jobs = {j1}  Downloads = {d1}  Cleaners = {c1, c2}
  Operations <- AllButLock
  None = None  Retention = 1  MaxTime = 3  MaxCrashes = 1
SYMMETRY Symmetric
INVARIANTS TypeOK KeptUntilExpiry NeverTorn 
PROPERTIES ShelfSpec
