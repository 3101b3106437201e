SPECIFICATION Served
CONSTANTS
  p1 = p1  f1 = f1  r1 = r1
  Ids = {p1}  Files = {f1}  Requests = {r1}
  Sweeps <- PasteSweeps
  None = None  Never = Never
  ArchiveTTL = 1
  TextTTLs <- JustHour
  StoreModes = {TRUE}
  IdRaces = FALSE
  MaxTime = 2  MaxReads = 1  MaxCrashes = 2
  Order <- PasteCleanup
  Slots = {1}
  PoolSize = 1
INVARIANTS ComposedTypeOK 
PROPERTIES GracefulLosesNothing
CHECK_DEADLOCK FALSE
