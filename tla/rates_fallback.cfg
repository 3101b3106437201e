SPECIFICATION Spec
CONSTANTS
  r1 = r1  w1 = w1  A = A  B = B  USD = USD  None = None
  Currencies = {USD, A}  Requests = {r1}  Warmups = {}
  Conversions <- JustUSDtoA  Series <- Nothing
  Day = 2  CacheTTL = 1  StaleWindow = 1  HistoryRetention = 6
  WarmupLimit = 1  RangeDays = 2  MaxLag = 1  MaxLatency = 1
  MaxTime = 4  MaxCount = 2  MaxCrashes = 0
INVARIANT FallbackWithinWindow
