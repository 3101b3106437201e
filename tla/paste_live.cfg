SPECIFICATION FairSpec
CONSTANTS
  p1 = p1  p2 = p2  f1 = f1  f2 = f2  r1 = r1  r2 = r2  s1 = s1  s2 = s2
  Ids = {p1}  Files = {f1, f2}  Requests = {r1, r2}  Sweeps = {s1}
  None = None  Never = Never
  ArchiveTTL = 1
  TextTTLs <- JustHour
  StoreModes = {TRUE, FALSE}
  IdRaces = TRUE
  MaxTime = 3  MaxReads = 1  MaxCrashes = 1
INVARIANTS ReceiptHonoured NoOrphan
PROPERTIES ExpiredRemoved
