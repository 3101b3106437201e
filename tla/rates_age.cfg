SPECIFICATION Spec
CONSTANTS
  r1 = r1  w1 = w1  A = A  B = B  USD = USD  None = None
  Currencies = {USD, A}  Requests = {r1}  Warmups = {w1}
  Conversions <- JustUSDtoA  Series <- JustUSDtoA
  Day = 2  CacheTTL = 1  StaleWindow = 1  HistoryRetention = 4
  WarmupLimit = 1  RangeDays = 1  MaxLag = 1  MaxLatency = 0
  MaxTime = 6  MaxCount = 1  MaxCrashes = 1
INVARIANTS TypeOK CacheBacked
 
