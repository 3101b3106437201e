SPECIFICATION Spec
CONSTANTS
  p1 = p1  p2 = p2  f1 = f1  f2 = f2  r1 = r1  r2 = r2  s1 = s1  s2 = s2
  Ids = {p1, p2}  Files = {f1, f2}  Requests = {r1, r2}  Sweeps = {s1, s2}
  None = None  Never = Never
  ArchiveTTL = 1
  TextTTLs <- HourOrNever
  StoreModes = {TRUE, FALSE}
  IdRaces = FALSE
  MaxTime = 3  MaxReads = 0  MaxCrashes = 1
SYMMETRY Symmetric
INVARIANTS TypeOK ReceiptHonoured NoOrphan
PROPERTIES BoardSpec
